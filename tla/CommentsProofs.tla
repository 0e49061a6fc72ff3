--------------------------- MODULE CommentsProofs ---------------------------
(***************************************************************************)
(* Theorems about Comments for any callers, any outcomes of a publication   *)
(* and any bounds on requests and failures.                                 *)
(***************************************************************************)
EXTENDS Comments, FiniteSetTheorems, TLAPS

Message == [action : {"publish", "delete"}, of : Nat]
Serving == [kind : {"none", "publish", "cold", "delete", "list"}, of : Nat,
            pc : {"idle", "event", "heat", "write", "bump", "delete",
                  "invalidate", "mentions", "read", "fill"},
            queued : BOOLEAN, list : SUBSET Nat]
Jobs == {NoJob} \cup [action : {"publish"}, of : Nat, pc : {"insert", "popularity", "ack"}]
                \cup [action : {"delete"}, of : Nat, pc : {"find", "delete", "ack"}]

Publishing(k) == k \in {"publish", "cold"}

\* Which requests are where, and what they are about: one of n publications,
\* or one of the rows ids.
Fits(a, n, ids) ==
    /\ a.pc \in {"heat", "write", "bump", "mentions"} => Publishing(a.kind)
    /\ a.pc = "bump" => a.kind = "cold"
    /\ a.pc = "delete" => a.kind = "delete"
    /\ a.pc = "event" => a.kind \in {"publish", "delete"}
    /\ a.pc \in {"event", "write", "delete"} => ~a.queued
    /\ a.pc = "invalidate" => Publishing(a.kind) \/ a.kind = "delete"
    /\ a.pc = "idle" => ~Publishing(a.kind)
    /\ Publishing(a.kind) => a.of \in 1 .. n
    /\ a.kind \in {"delete", "none", "list"} => a.of \in {0} \cup ids
    /\ a.list \subseteq ids

Shape ==
    /\ rows \subseteq Ids /\ inserted \in Seq(1 .. calls) /\ popularity \in Nat
    /\ cached.list \subseteq Ids /\ (~cached.there => cached = Absent)
    /\ queue \in Seq(Message) /\ job \in Jobs /\ act \in [Callers -> Serving]
    /\ \A i \in DOMAIN queue : queue[i].action = "publish" => queue[i].of \in 1 .. calls
    /\ job.action = "publish" => job.of \in 1 .. calls
    /\ \A c \in Callers : Fits(act[c], calls, Ids)
    /\ calls \in 0 .. MaxCalls /\ heat \in Nat /\ failures \in 0 .. MaxFailures
    /\ mentioned \cup lost \cup accepted \subseteq 1 .. calls
    /\ {torn, repeated} \subseteq Nat

\* Requests whose change is still to be counted for the ranking.
HeatDue == {c \in Callers : \/ Publishing(act[c].kind) /\ act[c].pc \in {"event", "heat"}
                            \/ act[c].kind = "cold" /\ act[c].pc \in {"write", "bump"}}

HeatBound == heat + Cardinality(HeatDue) <= calls

InQueue(k) == \E i \in DOMAIN queue : queue[i] = [action |-> "publish", of |-> k]

\* Nothing has become of the publication k yet.
Unsent(k) == Rows(k) = {} /\ ~InHand(k) /\ ~InQueue(k)

\* The request still has to hand its publication over or to write it.
Owes(c) == /\ Publishing(act[c].kind) /\ act[c].pc \in {"event", "heat", "write"}
           /\ ~act[c].queued

\* No two messages are about one publication.
Distinct(s) ==
    \A i, j \in DOMAIN s : i # j /\ s[i].action = "publish" /\ s[j].action = "publish"
                              => s[i].of # s[j].of

\* A publication is in one place: with its request, in one message or in hand.
OnePlace ==
    /\ \A c \in Callers : Owes(c) => Unsent(act[c].of)
    /\ \A c, d \in Callers : c # d /\ Publishing(act[c].kind) /\ Publishing(act[d].kind)
                                => act[c].of # act[d].of
    /\ job.action = "publish" => ~InQueue(job.of)
    /\ Distinct(queue)

\* It has handed its publication over, or has written it.
Later(c) == /\ Publishing(act[c].kind)
            /\ act[c].pc \in {"bump", "invalidate", "mentions"} \/ act[c].queued

Kept(k) == k \in lost \/ Rows(k) # {} \/ InHand(k) \/ InQueue(k)

\* What the worker acknowledges has its row, and so has what is answered.
Written ==
    /\ job.action = "publish" /\ job.pc \in {"popularity", "ack"} => Rows(job.of) # {}
    /\ \A c \in Callers : Later(c) => Kept(act[c].of)
    /\ \A k \in accepted : Kept(k)

\* Publications with a row whose message will be applied once more.
Again == {k \in 1 .. MaxCalls :
            Rows(k) # {} /\ (InQueue(k) \/ (InHand(k) /\ job.pc = "insert"))}

Calls == {inserted[i] : i \in Ids}

Copies == Len(inserted) - Cardinality(Calls) + Cardinality(Again) <= torn + repeated

IInv == Shape /\ OnePlace /\ Written /\ PopularityAccounts /\ Copies

-----------------------------------------------------------------------------
(* Sequences of messages.                                                   *)

LEMMA Appended ==
    ASSUME NEW s \in Seq(Message), NEW m \in Message
    PROVE  /\ Append(s, m) \in Seq(Message) /\ Len(Append(s, m)) = Len(s) + 1
           /\ DOMAIN s = 1 .. Len(s) /\ Len(s) \in Nat
           /\ DOMAIN Append(s, m) = 1 .. Len(s) + 1
           /\ \A i \in DOMAIN s : Append(s, m)[i] = s[i]
           /\ Append(s, m)[Len(s) + 1] = m
  OBVIOUS

LEMMA Removed ==
    ASSUME NEW s \in Seq(Message), s # <<>>
    PROVE  /\ Tail(s) \in Seq(Message) /\ Head(s) \in Message /\ Head(s) = s[1]
           /\ Len(s) \in Nat \ {0} /\ DOMAIN s = 1 .. Len(s)
           /\ DOMAIN Tail(s) = 1 .. Len(s) - 1
           /\ \A i \in DOMAIN Tail(s) : i + 1 \in DOMAIN s /\ Tail(s)[i] = s[i + 1]
           /\ \A i \in DOMAIN s : i # 1 => i - 1 \in DOMAIN Tail(s) /\ Tail(s)[i - 1] = s[i]
  OBVIOUS

LEMMA Returned ==
    ASSUME NEW s \in Seq(Message), NEW m \in Message
    PROVE  /\ <<m>> \o s \in Seq(Message)
           /\ Len(s) \in Nat /\ DOMAIN s = 1 .. Len(s)
           /\ DOMAIN (<<m>> \o s) = 1 .. Len(s) + 1
           /\ (<<m>> \o s)[1] = m
           /\ \A i \in DOMAIN s : (<<m>> \o s)[i + 1] = s[i]
           /\ \A i \in DOMAIN (<<m>> \o s) : i # 1 => i - 1 \in DOMAIN s /\ (<<m>> \o s)[i] = s[i - 1]
  OBVIOUS

-----------------------------------------------------------------------------
(* The types.                                                                *)

LEMMA ShapeInit == Init => Shape
  BY Outcomes DEF Init, Shape, Jobs, NoJob, Serving, Quiet, Fits, Absent, Ids, Publishing

LEMMA Inserted ==
    ASSUME Shape, NEW k \in 1 .. calls, Insert(k)
    PROVE  /\ inserted' \in Seq(1 .. calls) /\ Len(inserted) \in Nat
           /\ Ids = 1 .. Len(inserted) /\ Ids' = 1 .. Len(inserted) + 1
           /\ Ids \subseteq Ids' /\ rows' \subseteq Ids'
           /\ \A i \in Ids : inserted'[i] = inserted[i]
           /\ Len(inserted') = Len(inserted) + 1 /\ inserted'[Len(inserted) + 1] = k
<1>1. inserted \in Seq(1 .. calls) /\ inserted' = Append(inserted, k)
  BY DEF Shape, Insert
<1>2. /\ inserted' \in Seq(1 .. calls) /\ Len(inserted) \in Nat
      /\ \A i \in Ids : inserted'[i] = inserted[i]
      /\ Len(inserted') = Len(inserted) + 1 /\ inserted'[Len(inserted) + 1] = k
  BY <1>1 DEF Ids
<1>3. /\ Ids = 1 .. Len(inserted) /\ Ids' = 1 .. Len(inserted) + 1
      /\ Ids \subseteq Ids' /\ rows' \subseteq Ids'
  <2>1. Ids = 1 .. Len(inserted) /\ Ids' = 1 .. Len(inserted) + 1
    BY <1>2 DEF Ids
  <2>2. Ids \subseteq Ids' /\ Len(inserted) + 1 \in Ids'
    BY <1>2, <2>1
  <2>3. rows' = rows \cup {Len(inserted) + 1} /\ rows \subseteq Ids
    BY DEF Insert, Shape
  <2> QED BY <2>1, <2>2, <2>3
<1> QED BY <1>2, <1>3

\* One request moves; rows and calls are only added.
LEMMA Moves ==
    ASSUME Shape, NEW c \in Callers, NEW a \in Serving, act' = [act EXCEPT ![c] = a],
           Fits(a, calls', Ids'), 1 .. calls \subseteq 1 .. calls', Ids \subseteq Ids'
    PROVE  act' \in [Callers -> Serving] /\ \A d \in Callers : Fits(act'[d], calls', Ids')
<1>1. \A d \in Callers : act'[d] = IF d = c THEN a ELSE act[d]
  BY DEF Shape
<1>2. \A d \in Callers : Fits(act[d], calls', Ids')
  BY DEF Shape, Fits
<1> QED BY <1>1, <1>2 DEF Shape

LEMMA BeginShape ==
    ASSUME Shape, NEW c \in Callers, NEW kind \in {"publish", "delete", "list"},
           NEW pc \in {"event", "read"}, NEW of \in Nat, Begin(c, kind, pc, of),
           (kind = "list") = (pc = "read"),
           kind = "publish" => of = calls + 1, kind # "publish" => of \in {0} \cup Ids
    PROVE  Shape'
<1> DEFINE a == [Quiet EXCEPT !.kind = kind, !.pc = pc, !.of = of]
<1>1. calls' = calls + 1 /\ calls' \in 0 .. MaxCalls /\ Ids' = Ids /\ act' = [act EXCEPT ![c] = a]
  <2>1. calls' = calls + 1 /\ calls' \in 0 .. MaxCalls /\ Ids' = Ids
    BY Outcomes, SMTT(30) DEF Begin, Shape, table, Ids
  <2> QED BY <2>1 DEF Begin
<1>2. /\ a \in Serving
      /\ a.kind = kind /\ a.pc = pc /\ a.of = of /\ a.list = {} /\ ~a.queued
  <2>1. a \in Serving
    BY DEF Serving, Quiet
  <2>2. a.kind = kind /\ a.pc = pc /\ a.of = of /\ a.list = {} /\ ~a.queued
    BY DEF Quiet
  <2> QED BY <2>1, <2>2
<1> HIDE DEF a
<1>3. Fits(a, calls', Ids')
  <2>1. pc = "event" => kind \in {"publish", "delete"}
    OBVIOUS
  <2>2. kind = "publish" => of \in 1 .. calls'
    BY <1>1 DEF Shape
  <2> QED BY <1>1, <1>2, <2>1, <2>2 DEF Fits, Publishing
<1>4. act' \in [Callers -> Serving] /\ \A d \in Callers : Fits(act'[d], calls', Ids')
  <2>1. 1 .. calls \subseteq 1 .. calls'
    BY <1>1 DEF Shape
  <2> QED BY <1>1, <1>2, <1>3, <2>1, Moves
<1>5. inserted' \in Seq(1 .. calls')
  BY <1>1 DEF Begin, Shape, table
<1>6. UNCHANGED <<rows, inserted, popularity, cached, queue, job, heat, mentioned,
                  failures, lost, accepted, torn, repeated>>
  BY DEF Begin, table, copies, broker, history
<1> QED BY <1>1, <1>4, <1>5, <1>6 DEF Shape

LEMMA BeginsShape ==
    ASSUME Shape, NEW c \in Callers, BeginPublish(c) \/ BeginDelete(c) \/ BeginList(c)
    PROVE  Shape'
<1>1. CASE BeginPublish(c)
  <2>1. calls + 1 \in Nat  BY DEF Shape
  <2> QED BY <1>1, <2>1, BeginShape DEF BeginPublish
<1>2. CASE BeginDelete(c)
  <2>1. PICK i \in rows : Begin(c, "delete", "event", i)
    BY <1>2 DEF BeginDelete
  <2>2. i \in Nat /\ i \in Ids
    BY DEF Shape, Ids
  <2> QED BY <2>1, <2>2, BeginShape
<1>3. CASE BeginList(c)
  BY <1>3, BeginShape DEF BeginList
<1> QED BY <1>1, <1>2, <1>3

\* The types of what a request changes beside its own record.
LEMMA RequestShape ==
    ASSUME Shape, NEW c \in Callers, Request(c)
    PROVE  Shape'
<1> USE DEF table, copies, broker, history, Fail
<1>1. act[c] \in Serving /\ Fits(act[c], calls, Ids) /\ Quiet \in Serving /\ Fits(Quiet, calls, Ids)
  BY DEF Shape, Quiet, Serving, Fits, Publishing
<1>2. CASE SendEvent(c)
  <2>1. PICK o \in CommentPublish :
          /\ queue' = IF o = "queued"
                        THEN Append(queue, [action |-> act[c].kind, of |-> act[c].of])
                        ELSE queue
          /\ lost' = IF o = "dropped" /\ act[c].kind = "publish"
                       THEN lost \cup {act[c].of} ELSE lost
          /\ act' = [act EXCEPT
                ![c].queued = (o # "refused"),
                ![c].pc = IF act[c].kind = "publish" THEN "heat"
                          ELSE IF o = "refused" THEN "delete" ELSE "invalidate"]
    BY <1>2 DEF SendEvent
  <2> DEFINE a == [act[c] EXCEPT !.queued = (o # "refused"),
                                 !.pc = IF act[c].kind = "publish" THEN "heat"
                                        ELSE IF o = "refused" THEN "delete" ELSE "invalidate"]
  <2> DEFINE m == [action |-> act[c].kind, of |-> act[c].of]
  <2>2. act[c].kind \in {"publish", "delete"} /\ (act[c].kind = "publish" => act[c].of \in 1 .. calls)
    BY <1>1, <1>2 DEF SendEvent, Fits, Publishing
  <2>3. /\ a \in Serving /\ m \in Message /\ Fits(a, calls, Ids)
        /\ act' = [act EXCEPT ![c] = a]
    <3>1. a \in Serving
      BY <1>1 DEF Serving
    <3>2. m \in Message
      BY <1>1, <2>2 DEF Serving, Message
    <3>3. Fits(a, calls, Ids)
      BY <1>1, <2>2 DEF Serving, Fits, Publishing
    <3>4. act' = [act EXCEPT ![c] = a]
      BY <2>1 DEF Shape
    <3> QED BY <3>1, <3>2, <3>3, <3>4
  <2>4. UNCHANGED <<rows, inserted, popularity, cached, job, heat, mentioned, calls,
                    failures, accepted, torn, repeated>>
    BY <1>2 DEF SendEvent
  <2>5. act' \in [Callers -> Serving] /\ \A d \in Callers : Fits(act'[d], calls', Ids')
    BY <2>3, <2>4, Moves DEF Ids
  <2>6. queue' \in Seq(Message) /\ \A i \in DOMAIN queue' : queue'[i].action = "publish" => queue'[i].of \in 1 .. calls
    BY <2>1, <2>2, <2>3, Appended DEF Shape
  <2>7. lost' \subseteq 1 .. calls
    BY <2>1, <2>2 DEF Shape
  <2>8. Ids' = Ids  BY <2>4 DEF Ids
  <2> HIDE DEF a, m
  <2> QED BY <2>4, <2>5, <2>6, <2>7, <2>8 DEF Shape
<1>3. ASSUME NEW a \in Serving, Fits(a, calls, Ids), act' = [act EXCEPT ![c] = a],
             UNCHANGED <<inserted, popularity, queue, job, calls, lost, torn, repeated>>,
             rows' \subseteq rows, cached' \in {cached, Absent, [there |-> TRUE, list |-> act[c].list]},
             heat' \in Nat, mentioned' \cup accepted' \subseteq 1 .. calls,
             failures' \in 0 .. MaxFailures
      PROVE  Shape'
  <2>1. Ids' = Ids  BY <1>3 DEF Ids
  <2>2. act' \in [Callers -> Serving] /\ \A d \in Callers : Fits(act'[d], calls', Ids')
    BY <1>3, <2>1, Moves DEF Ids
  <2>3. cached'.list \subseteq Ids /\ (~cached'.there => cached' = Absent)
    BY <1>1, <1>3 DEF Shape, Absent, Fits
  <2> QED BY <1>3, <2>1, <2>2, <2>3 DEF Shape
<1>4. failures \in 0 .. MaxFailures /\ (Fail => failures' \in 0 .. MaxFailures)
  BY Outcomes DEF Shape
<1>5. heat \in Nat /\ mentioned \cup accepted \subseteq 1 .. calls
  BY DEF Shape
<1> HIDE DEF Fail
<1>6. CASE SendHeat(c)
  <2>1. PICK o \in HeatPublish :
          /\ heat' = IF o = "queued" THEN heat + 1 ELSE heat
          /\ act' = [act EXCEPT ![c].pc = IF ~act[c].queued THEN "write"
                                          ELSE IF o = "queued" THEN "invalidate" ELSE "bump",
                                ![c].list = {}, ![c].kind = IF o = "queued" THEN "publish" ELSE "cold"]
    BY <1>6 DEF SendHeat
  <2> DEFINE a == [act[c] EXCEPT !.pc = IF ~act[c].queued THEN "write"
                                        ELSE IF o = "queued" THEN "invalidate" ELSE "bump",
                                 !.list = {}, !.kind = IF o = "queued" THEN "publish" ELSE "cold"]
  <2>2. act[c].pc = "heat" /\ UNCHANGED <<rows, inserted, popularity, cached, queue, job, mentioned,
                                          calls, failures, lost, accepted, torn, repeated>>
    BY <1>6 DEF SendHeat
  <2>3. a \in Serving
    BY <1>1 DEF Serving
  <2>4. Fits(a, calls, Ids)
    BY <1>1, <2>2 DEF Serving, Fits, Publishing
  <2>5. heat' \in Nat /\ act' = [act EXCEPT ![c] = a]
    <3>1. heat' \in Nat  BY <1>5, <2>1
    <3>2. act' = [act EXCEPT ![c] = a]
      BY <1>1, <2>1 DEF Shape, Serving
    <3> QED BY <3>1, <3>2
  <2> HIDE DEF a
  <2>6. rows' \subseteq rows /\ cached' = cached /\ mentioned' \cup accepted' \subseteq 1 .. calls
        /\ failures' \in 0 .. MaxFailures
    BY <1>4, <1>5, <2>2
  <2> QED BY <1>3, <2>2, <2>3, <2>4, <2>5, <2>6
<1>7. ASSUME NEW pc \in {"bump", "invalidate", "mentions"}, Goto(c, pc), pc = "bump" => act[c].kind = "cold",
             \/ act[c].pc \in {"write", "bump"}
             \/ act[c].pc = "delete" /\ pc = "invalidate"
             \/ act[c].pc = "invalidate" /\ pc = "mentions" /\ act[c].kind # "delete"
      PROVE  \E a \in Serving : Fits(a, calls, Ids) /\ act' = [act EXCEPT ![c] = a]
  <2> DEFINE a == [act[c] EXCEPT !.pc = pc]
  <2>1. a \in Serving  BY <1>1 DEF Serving
  <2>2. Fits(a, calls, Ids)  BY <1>1, <1>7 DEF Serving, Fits, Publishing
  <2>3. act' = [act EXCEPT ![c] = a]  BY <1>7 DEF Goto, Shape
  <2> QED BY <2>1, <2>2, <2>3
<1>8. Done(c) => \E a \in Serving : Fits(a, calls, Ids) /\ act' = [act EXCEPT ![c] = a]
  BY <1>1 DEF Done
<1>9. CASE WriteTx(c)
  <2>1. CASE Insert(act[c].of) /\ popularity' = popularity + 1
             /\ Goto(c, IF act[c].kind = "cold" THEN "bump" ELSE "invalidate") /\ UNCHANGED failures
    <3>1. act[c].of \in 1 .. calls
      BY <1>1, <1>9 DEF WriteTx, Fits
    <3>2. /\ inserted' \in Seq(1 .. calls) /\ Ids \subseteq Ids' /\ rows' \subseteq Ids'
          /\ popularity' \in Nat
      BY <2>1, <3>1, Inserted DEF Shape
    <3>3. UNCHANGED <<cached, queue, job, heat, mentioned, calls, failures, lost, accepted, torn, repeated>>
      BY <1>9, <2>1 DEF WriteTx
    <3>4. PICK a \in Serving : Fits(a, calls, Ids) /\ act' = [act EXCEPT ![c] = a]
      BY <1>7, <1>9, <2>1 DEF WriteTx
    <3>5. Fits(a, calls', Ids')
      BY <3>2, <3>3, <3>4 DEF Fits
    <3>6. act' \in [Callers -> Serving] /\ \A d \in Callers : Fits(act'[d], calls', Ids')
      BY <3>2, <3>3, <3>4, <3>5, Moves
    <3> QED BY <3>2, <3>3, <3>6 DEF Shape
  <2>2. CASE Fail /\ Done(c) /\ UNCHANGED table
    <3>1. PICK a \in Serving : Fits(a, calls, Ids) /\ act' = [act EXCEPT ![c] = a]
      BY <1>8, <2>2
    <3> QED BY <1>3, <1>4, <1>5, <1>9, <2>2, <3>1 DEF WriteTx
  <2> QED BY <1>9, <2>1, <2>2 DEF WriteTx
<1>10. CASE BumpHeat(c)
  <2>1. PICK a \in Serving : Fits(a, calls, Ids) /\ act' = [act EXCEPT ![c] = a]
    BY <1>7, <1>10 DEF BumpHeat
  <2>2. /\ heat' \in Nat /\ rows' \subseteq rows /\ failures' \in 0 .. MaxFailures
        /\ UNCHANGED <<inserted, popularity, cached, queue, job, calls, lost, accepted, mentioned, torn, repeated>>
    BY <1>4, <1>5, <1>10 DEF BumpHeat
  <2> QED BY <1>3, <1>5, <2>1, <2>2
<1>11. CASE DeleteRow(c)
  <2>1. PICK a \in Serving : Fits(a, calls, Ids) /\ act' = [act EXCEPT ![c] = a]
    BY <1>7, <1>8, <1>11 DEF DeleteRow
  <2> QED BY <1>3, <1>4, <1>5, <1>11, <2>1 DEF DeleteRow
<1>12. CASE Invalidate(c)
  <2>1. PICK a \in Serving : Fits(a, calls, Ids) /\ act' = [act EXCEPT ![c] = a]
    BY <1>7, <1>8, <1>12 DEF Invalidate
  <2> QED BY <1>3, <1>4, <1>5, <1>12, <2>1 DEF Invalidate
<1>13. CASE Mention(c)
  <2>1. PICK a \in Serving : Fits(a, calls, Ids) /\ act' = [act EXCEPT ![c] = a]
    BY <1>8, <1>13 DEF Mention
  <2>2. act[c].of \in 1 .. calls
    BY <1>1, <1>13 DEF Mention, Fits
  <2> QED BY <1>3, <1>4, <1>5, <1>13, <2>1, <2>2 DEF Mention
<1>14. CASE ListReads(c)
  <2> DEFINE a == [act[c] EXCEPT !.pc = "fill", !.list = rows]
  <2>1. a \in Serving
    <3>1. rows \in SUBSET Nat  BY DEF Shape, Ids
    <3> QED BY <1>1, <3>1 DEF Serving
  <2>2. Fits(a, calls, Ids)  BY <1>1 DEF Serving, Fits, Publishing, Shape
  <2>3. act' = [act EXCEPT ![c] = a]  BY <1>1, <1>14 DEF ListReads, Shape, Serving
  <2> HIDE DEF a
  <2> QED BY <1>3, <1>4, <1>5, <1>14, <2>1, <2>2, <2>3 DEF ListReads
<1>15. CASE ListFills(c)
  <2>1. PICK a \in Serving : Fits(a, calls, Ids) /\ act' = [act EXCEPT ![c] = a]
    BY <1>8, <1>15 DEF ListFills
  <2> QED BY <1>3, <1>4, <1>5, <1>15, <2>1 DEF ListFills
<1> QED BY <1>2, <1>6, <1>9, <1>10, <1>11, <1>12, <1>13, <1>14, <1>15 DEF Request

LEMMA WorkerShape ==
    ASSUME Shape, Worker \/ StepFails
    PROVE  Shape'
<1> USE DEF table, copies, broker, history, Fail
<1>1. CASE Deliver
  <2>1. Head(queue) \in Message /\ Tail(queue) \in Seq(Message)
        /\ \A i \in DOMAIN Tail(queue) : i + 1 \in DOMAIN queue /\ Tail(queue)[i] = queue[i + 1]
    BY <1>1, Removed DEF Shape, Deliver
  <2>2. Head(queue) = queue[1] /\ 1 \in DOMAIN queue
    BY <1>1, Removed DEF Shape, Deliver
  <2>3. job' \in Jobs /\ (job'.action = "publish" => job'.of \in 1 .. calls)
    BY <1>1, <2>1, <2>2 DEF Deliver, Jobs, Message, Shape
  <2>4. \A i \in DOMAIN queue' : queue'[i].action = "publish" => queue'[i].of \in 1 .. calls
    BY <1>1, <2>1 DEF Deliver, Shape
  <2>5. UNCHANGED <<rows, inserted, popularity, cached, act, heat, mentioned, calls,
                    failures, lost, accepted, torn, repeated>> /\ Ids' = Ids
    BY <1>1 DEF Deliver, Ids
  <2> QED BY <1>1, <2>1, <2>3, <2>4, <2>5 DEF Deliver, Shape
<1>2. CASE InsertRow
  <2>1. job.of \in 1 .. calls /\ job' \in Jobs /\ job'.of = job.of /\ job'.action = job.action
    BY <1>2 DEF InsertRow, Work, Shape, Jobs, NoJob
  <2>2. inserted' \in Seq(1 .. calls) /\ Ids \subseteq Ids' /\ rows' \subseteq Ids'
    BY <1>2, <2>1, Inserted DEF InsertRow
  <2>3. UNCHANGED <<popularity, cached, queue, act, heat, mentioned, calls, failures, history>>
    BY <1>2 DEF InsertRow
  <2>4. \A d \in Callers : Fits(act'[d], calls', Ids')
    BY <2>2, <2>3 DEF Fits, Shape
  <2> QED BY <2>1, <2>2, <2>3, <2>4 DEF Shape
<1>3. ASSUME job' \in Jobs, job'.action = "publish" => job'.of \in 1 .. calls, rows' \subseteq rows,
             popularity' \in Nat,
             UNCHANGED <<inserted, cached, queue, act, heat, mentioned, calls, failures, history>>
      PROVE  Shape'
  <2>1. Ids' = Ids  BY <1>3 DEF Ids
  <2>2. act' \in [Callers -> Serving] /\ \A d \in Callers : Fits(act'[d], calls', Ids')
    BY <1>3, <2>1 DEF Shape
  <2>3. queue' \in Seq(Message) /\ \A i \in DOMAIN queue' : queue'[i].action = "publish" => queue'[i].of \in 1 .. calls'
    BY <1>3 DEF Shape
  <2>4. /\ rows' \subseteq Ids' /\ inserted' \in Seq(1 .. calls') /\ calls' \in 0 .. MaxCalls
        /\ cached'.list \subseteq Ids' /\ (~cached'.there => cached' = Absent)
    BY <1>3, <2>1 DEF Shape
  <2>5. /\ heat' \in Nat /\ failures' \in 0 .. MaxFailures
        /\ mentioned' \cup lost' \cup accepted' \subseteq 1 .. calls'
        /\ {torn', repeated'} \subseteq Nat
    BY <1>3 DEF Shape
  <2>6. /\ job' \in Jobs /\ (job'.action = "publish" => job'.of \in 1 .. calls')
        /\ popularity' \in Nat
    BY <1>3
  <2> QED BY <2>2, <2>3, <2>4, <2>5, <2>6 DEF Shape
<1>4. CASE ChangePopularity
  <2>1. job' \in Jobs /\ (job'.action = "publish" => job'.of \in 1 .. calls)
    BY <1>4 DEF ChangePopularity, Work, Jobs, NoJob, Shape
  <2>2. popularity' \in Nat
    BY <1>4 DEF ChangePopularity, Shape
  <2> QED BY <1>3, <1>4, <2>1, <2>2 DEF ChangePopularity
<1>5. CASE FindRow
  BY <1>3, <1>5 DEF FindRow, Work, Jobs, NoJob, Shape
<1>6. CASE RemoveRow
  BY <1>3, <1>6 DEF RemoveRow, Work, Jobs, NoJob, Shape
<1>7. CASE Ack
  BY <1>3, <1>7 DEF Ack, Jobs, NoJob, Shape
<1>8. CASE StepFails
  <2> DEFINE m == [action |-> job.action, of |-> job.of]
  <2>1. m \in Message /\ (m.action = "publish" => m.of \in 1 .. calls)
    BY <1>8 DEF StepFails, Shape, Jobs, Message
  <2>2. queue' \in Seq(Message) /\ \A i \in DOMAIN queue' : queue'[i].action = "publish" => queue'[i].of \in 1 .. calls
    BY <1>8, <2>1, Returned DEF StepFails, Shape
  <2>3. job' = NoJob /\ NoJob \in Jobs /\ NoJob.action # "publish"
    BY <1>8 DEF StepFails, Jobs, NoJob
  <2>4. failures' \in 0 .. MaxFailures /\ {torn', repeated'} \subseteq Nat
    BY <1>8, Outcomes DEF StepFails, Shape
  <2>5. UNCHANGED <<rows, inserted, popularity, cached, act, heat, mentioned, calls, lost, accepted>>
        /\ Ids' = Ids
    BY <1>8 DEF StepFails, Ids
  <2> QED BY <2>2, <2>3, <2>4, <2>5 DEF Shape
<1> QED BY <1>1, <1>2, <1>4, <1>5, <1>6, <1>7, <1>8 DEF Worker

LEMMA ShapeKept == ASSUME Shape, [Next]_vars PROVE Shape'
<1>1. CASE Expire
  <2>1. Ids' = Ids  BY <1>1 DEF Expire, table, Ids
  <2> QED BY <1>1, <2>1 DEF Expire, Shape, Absent, table, broker, history
<1>2. CASE UNCHANGED vars
  <2>1. Ids' = Ids  BY <1>2 DEF vars, table, Ids
  <2> QED BY <1>2, <2>1 DEF vars, Shape, table, copies, broker, history
<1> QED BY <1>1, <1>2, WorkerShape, BeginsShape, RequestShape DEF Next

\* The change of a publication is counted once, by its request.
LEMMA HeatKept ==
    ASSUME Shape, HeatBound, [Next]_vars
    PROVE  HeatBound'
<1> USE DEF table, copies, broker, history
<1>1. IsFiniteSet(HeatDue) /\ Cardinality(HeatDue) \in Nat /\ heat \in Nat /\ calls \in Nat
  BY Outcomes, FS_Subset, FS_CardinalityType DEF HeatDue, Shape
<1>2. ASSUME NEW c \in Callers, HeatDue' = HeatDue \cup {c}, heat' = heat, calls' = calls + 1
      PROVE  HeatBound'
  <2>1. Cardinality(HeatDue') \in Nat /\ Cardinality(HeatDue') <= Cardinality(HeatDue) + 1
    BY ONLY <1>1, <1>2, FS_AddElement
  <2> QED BY <1>1, <1>2, <2>1 DEF HeatBound
<1>3. ASSUME NEW c \in HeatDue, HeatDue' = HeatDue \ {c}, heat' = heat + 1, calls' = calls
      PROVE  HeatBound'
  BY <1>1, <1>3, FS_RemoveElement DEF HeatBound
<1>4. ASSUME HeatDue' \subseteq HeatDue, heat' = heat, calls' \in {calls, calls + 1}
      PROVE  HeatBound'
  BY <1>1, <1>4, FS_Subset, FS_CardinalityType DEF HeatBound
<1>5. ASSUME NEW c \in Callers, Request(c) PROVE HeatBound'
  <2>1. act[c] \in Serving /\ Fits(act[c], calls, Ids)
    BY DEF Shape
  <2>2. \A d \in Callers \ {c} : act'[d] = act[d]
    BY <1>5 DEF Request, SendEvent, SendHeat, WriteTx, BumpHeat, DeleteRow, Invalidate,
                Mention, ListReads, ListFills, Goto, Done, Shape
  <2>3. calls' = calls
    BY <1>5 DEF Request, SendEvent, SendHeat, WriteTx, BumpHeat, DeleteRow, Invalidate,
                Mention, ListReads, ListFills, Goto, Done
  <2>4. CASE SendHeat(c)
    <3>1. PICK o \in HeatPublish :
            /\ heat' = IF o = "queued" THEN heat + 1 ELSE heat
            /\ act' = [act EXCEPT ![c].pc = IF ~act[c].queued THEN "write"
                                            ELSE IF o = "queued" THEN "invalidate" ELSE "bump",
                                  ![c].list = {}, ![c].kind = IF o = "queued" THEN "publish" ELSE "cold"]
      BY <2>4 DEF SendHeat
    <3>2. c \in HeatDue
      BY <2>1, <2>4 DEF SendHeat, HeatDue, Fits
    <3>3. /\ act'[c].pc = IF ~act[c].queued THEN "write" ELSE IF o = "queued" THEN "invalidate" ELSE "bump"
          /\ act'[c].kind = IF o = "queued" THEN "publish" ELSE "cold"
      BY <2>1, <3>1 DEF Shape, Serving
    <3>4. CASE o = "queued"
      <4>1. HeatDue' = HeatDue \ {c}
        BY <2>2, <3>3, <3>4 DEF HeatDue
      <4> QED BY <1>3, <2>3, <3>1, <3>2, <3>4, <4>1
    <3>5. CASE o # "queued"
      <4>1. HeatDue' \subseteq HeatDue
        BY <2>2, <3>2 DEF HeatDue
      <4> QED BY <1>4, <2>3, <3>1, <3>5, <4>1
    <3> QED BY <3>4, <3>5
  <2>5. CASE BumpHeat(c)
    <3>1. act'[c].pc = "invalidate"
      BY <2>1, <2>5 DEF BumpHeat, Goto, Shape, Serving
    <3>2. HeatDue' = HeatDue \ {c}
      BY <2>2, <3>1 DEF HeatDue
    <3>3. c \in HeatDue  BY <2>1, <2>5 DEF BumpHeat, HeatDue, Fits
    <3> QED BY <1>3, <2>3, <2>5, <3>2, <3>3 DEF BumpHeat
  <2>6. CASE ~SendHeat(c) /\ ~BumpHeat(c)
    <3>1. heat' = heat
      BY <1>5, <2>6 DEF Request, SendEvent, WriteTx, DeleteRow, Invalidate, Mention, ListReads, ListFills
    <3>2. c \in HeatDue' => c \in HeatDue
      <4>1. CASE SendEvent(c)
        <5>1. act'[c].kind = act[c].kind /\ act[c].pc = "event" /\ act[c].kind \in {"publish", "delete"}
          BY <2>1, <4>1 DEF SendEvent, Fits, Shape, Serving
        <5> QED BY <5>1 DEF HeatDue, Publishing
      <4>2. CASE WriteTx(c)
        <5>1. CASE Done(c)
          BY <5>1 DEF Done, Quiet, HeatDue, Shape, Publishing
        <5>2. CASE Goto(c, IF act[c].kind = "cold" THEN "bump" ELSE "invalidate")
          <6>1. act'[c].kind = act[c].kind
                /\ act'[c].pc = IF act[c].kind = "cold" THEN "bump" ELSE "invalidate"
            BY <2>1, <5>2 DEF Goto, Shape, Serving
          <6> QED BY <4>2, <6>1 DEF WriteTx, HeatDue
        <5> QED BY <4>2, <5>1, <5>2 DEF WriteTx
      <4>3. CASE DeleteRow(c) \/ Invalidate(c)
        BY <2>1, <4>3 DEF DeleteRow, Invalidate, Goto, Done, Quiet, HeatDue, Shape, Serving, Publishing
      <4>4. CASE Mention(c) \/ ListFills(c)
        BY <2>1, <4>4 DEF Mention, ListFills, Done, Quiet, HeatDue, Shape, Serving, Publishing
      <4>5. CASE ListReads(c)
        BY <2>1, <4>5 DEF ListReads, HeatDue, Shape, Serving, Publishing
      <4> QED BY <1>5, <2>6, <4>1, <4>2, <4>3, <4>4, <4>5 DEF Request
    <3>3. HeatDue' \subseteq HeatDue
      BY <2>2, <3>2 DEF HeatDue
    <3> QED BY <1>4, <2>3, <3>1, <3>3
  <2> QED BY <2>4, <2>5, <2>6
<1>6. ASSUME NEW c \in Callers, BeginPublish(c) PROVE HeatBound'
  <2>1. \A d \in Callers \ {c} : act'[d] = act[d]
    BY <1>6 DEF BeginPublish, Begin, Shape
  <2>2. act'[c].kind = "publish" /\ act'[c].pc = "event" /\ heat' = heat /\ calls' = calls + 1
    BY <1>6 DEF BeginPublish, Begin, Shape, Quiet
  <2>3. HeatDue' = HeatDue \cup {c}
    BY <2>1, <2>2 DEF HeatDue, Publishing
  <2> QED BY <1>2, <2>2, <2>3
<1>7. ASSUME NEW c \in Callers, NEW kind \in {"delete", "list"}, NEW pc, NEW of, Begin(c, kind, pc, of)
      PROVE  HeatBound'
  <2>1. \A d \in Callers \ {c} : act'[d] = act[d]
    BY <1>7 DEF Begin, Shape
  <2>2. act'[c].kind = kind /\ heat' = heat /\ calls' = calls + 1
    BY <1>7 DEF Begin, Shape, Quiet
  <2>3. HeatDue' \subseteq HeatDue
    BY <2>1, <2>2 DEF HeatDue, Publishing
  <2> QED BY <1>4, <2>2, <2>3
<1>8. ASSUME UNCHANGED <<act, heat, calls>> PROVE HeatBound'
  BY <1>8 DEF HeatBound, HeatDue
<1>9. CASE Worker \/ StepFails \/ Expire \/ UNCHANGED vars
  <2>1. UNCHANGED <<act, heat, calls>>
    BY <1>9 DEF Worker, StepFails, Expire, vars, Deliver, InsertRow, ChangePopularity, FindRow, RemoveRow, Ack
  <2> QED BY <1>8, <2>1
<1> QED BY <1>5, <1>6, <1>7, <1>9 DEF Next, BeginDelete, BeginList

-----------------------------------------------------------------------------
(* The cached list.                                                          *)

LateTyped == late \in [cached : BOOLEAN, read : SUBSET Callers] /\ cached.there \in BOOLEAN

\* What holds of the cached list holds of the lists about to be cached.
ReadExplained ==
    \A d \in Callers : act[d].pc = "fill" /\ d \notin late.read
                          => act[d].list = rows \/ Dropping # {}

ListInv == LateTyped /\ StaleListExplained /\ ReadExplained

LEMMA ListInit == Init => ListInv
  BY DEF Init, ListInv, LateTyped, StaleListExplained, ReadExplained, OnTime, Absent, Quiet

\* Neither the rows nor a list changes, and who is about to drop one still is.
LEMMA ListQuiet ==
    ASSUME ListInv, UNCHANGED <<rows, cached, late>>,
           \A d \in Callers : act'[d].pc = "fill" => act'[d] = act[d],
           Dropping \subseteq Dropping'
    PROVE  ListInv'
<1>1. LateTyped' /\ StaleListExplained'
  BY DEF ListInv, LateTyped, StaleListExplained
<1>2. ReadExplained'
  BY DEF ListInv, ReadExplained
<1> QED BY <1>1, <1>2 DEF ListInv

\* The step of a request that has not written the table, or is still to drop
\* the list.
LEMMA ListMoves ==
    ASSUME Shape, ListInv, NEW c \in Callers, NEW a, act' = [act EXCEPT ![c] = a],
           UNCHANGED <<rows, cached, late>>, a.pc # "fill",
           c \in Dropping => a.pc \in {"bump", "invalidate"} /\ ~a.queued
    PROVE  ListInv'
<1>1. \A d \in Callers : act'[d] = IF d = c THEN a ELSE act[d]
  BY DEF Shape
<1>2. Dropping \subseteq Dropping'
  BY <1>1 DEF Dropping
<1> QED BY <1>1, <1>2, ListQuiet

\* A request has written the table and is about to drop the list.
LEMMA ListWritten ==
    ASSUME ListInv, NEW c \in Callers, UNCHANGED <<cached, late>>, c \in Dropping'
    PROVE  ListInv'
  BY DEF ListInv, LateTyped, StaleListExplained, ReadExplained

\* The worker has written the table.
LEMMA ListOutrun ==
    ASSUME ListInv, UNCHANGED <<cached, act>>, Outrun
    PROVE  ListInv'
<1>1. late'.cached = cached.there /\ late'.read = Held
  BY DEF Outrun
<1>2. LateTyped'
  BY DEF ListInv, LateTyped, Outrun, Held
<1>3. StaleListExplained' /\ ReadExplained'
  BY <1>1 DEF StaleListExplained, ReadExplained, Held
<1> QED BY <1>2, <1>3 DEF ListInv

LEMMA ListRequest ==
    ASSUME Shape, ListInv, NEW c \in Callers, Request(c)
    PROVE  ListInv'
<1> USE DEF copies, table
<1>1. act[c] \in Serving /\ Fits(act[c], calls, Ids)
  BY DEF Shape
<1>2. \A d \in Callers : d \in Dropping <=> act[d].pc \in {"bump", "invalidate"} /\ ~act[d].queued
  BY DEF Dropping
<1>3. CASE SendEvent(c)
  <2>1. PICK o \in CommentPublish :
          act' = [act EXCEPT ![c].queued = (o # "refused"),
                             ![c].pc = IF act[c].kind = "publish" THEN "heat"
                                       ELSE IF o = "refused" THEN "delete" ELSE "invalidate"]
    BY <1>3 DEF SendEvent
  <2> DEFINE a == [act[c] EXCEPT !.queued = (o # "refused"),
                                 !.pc = IF act[c].kind = "publish" THEN "heat"
                                        ELSE IF o = "refused" THEN "delete" ELSE "invalidate"]
  <2>2. act' = [act EXCEPT ![c] = a]
    BY <2>1 DEF Shape
  <2>3. a.pc # "fill"
    BY <1>1 DEF Serving
  <2>4. c \notin Dropping /\ UNCHANGED <<rows, cached, late>>
    BY <1>2, <1>3 DEF SendEvent
  <2> HIDE DEF a
  <2> QED BY <2>2, <2>3, <2>4, ListMoves
<1>4. CASE SendHeat(c)
  <2>1. PICK o \in HeatPublish :
          act' = [act EXCEPT ![c].pc = IF ~act[c].queued THEN "write"
                                       ELSE IF o = "queued" THEN "invalidate" ELSE "bump",
                             ![c].list = {}, ![c].kind = IF o = "queued" THEN "publish" ELSE "cold"]
    BY <1>4 DEF SendHeat
  <2> DEFINE a == [act[c] EXCEPT !.pc = IF ~act[c].queued THEN "write"
                                        ELSE IF o = "queued" THEN "invalidate" ELSE "bump",
                                 !.list = {}, !.kind = IF o = "queued" THEN "publish" ELSE "cold"]
  <2>2. act' = [act EXCEPT ![c] = a]
    BY <1>1, <2>1 DEF Shape, Serving
  <2>3. a.pc # "fill"
    BY <1>1 DEF Serving
  <2>4. c \notin Dropping /\ UNCHANGED <<rows, cached, late>>
    BY <1>2, <1>4 DEF SendHeat
  <2> HIDE DEF a
  <2> QED BY <2>2, <2>3, <2>4, ListMoves
<1>5. CASE WriteTx(c)
  <2>1. act[c].pc = "write" /\ ~act[c].queued /\ UNCHANGED <<cached, late>> /\ c \notin Dropping
    BY <1>1, <1>2, <1>5 DEF WriteTx, Fits
  <2>2. CASE Goto(c, IF act[c].kind = "cold" THEN "bump" ELSE "invalidate")
    <3>1. act'[c].pc \in {"bump", "invalidate"} /\ ~act'[c].queued
      BY <1>1, <2>1, <2>2 DEF Goto, Shape, Serving
    <3>2. c \in Dropping'
      BY <3>1 DEF Dropping
    <3> QED BY <2>1, <3>2, ListWritten
  <2>3. CASE Done(c) /\ UNCHANGED table
    <3>1. Quiet.pc # "fill"  BY DEF Quiet
    <3> QED BY <2>1, <2>3, <3>1, ListMoves DEF Done
  <2> QED BY <1>5, <2>2, <2>3 DEF WriteTx
<1>6. CASE BumpHeat(c)
  <2> DEFINE a == [act[c] EXCEPT !.pc = "invalidate"]
  <2>1. act' = [act EXCEPT ![c] = a] /\ UNCHANGED <<rows, cached, late>>
    BY <1>6 DEF BumpHeat, Goto, Shape
  <2>2. a.pc = "invalidate" /\ a.queued = act[c].queued
    BY <1>1 DEF Serving
  <2> HIDE DEF a
  <2> QED BY <1>2, <2>1, <2>2, ListMoves
<1>7. CASE DeleteRow(c)
  <2>1. act[c].pc = "delete" /\ ~act[c].queued /\ UNCHANGED <<cached, late>> /\ c \notin Dropping
    BY <1>1, <1>2, <1>7 DEF DeleteRow, Fits
  <2>2. CASE Goto(c, "invalidate")
    <3>1. act'[c].pc \in {"bump", "invalidate"} /\ ~act'[c].queued
      BY <1>1, <2>1, <2>2 DEF Goto, Shape, Serving
    <3>2. c \in Dropping'
      BY <3>1 DEF Dropping
    <3> QED BY <2>1, <3>2, ListWritten
  <2>3. CASE Done(c) /\ UNCHANGED rows
    <3>1. Quiet.pc # "fill"  BY DEF Quiet
    <3> QED BY <2>1, <2>3, <3>1, ListMoves DEF Done
  <2> QED BY <1>7, <2>2, <2>3 DEF DeleteRow
<1>8. CASE Invalidate(c)
  <2>1. /\ act[c].pc = "invalidate" /\ (cached' = Absent \/ cached' = cached) /\ rows' = rows
        /\ late' = [cached |-> cached'.there /\ (late.cached \/ c \in Dropping),
                    read   |-> IF c \in Dropping THEN Held ELSE late.read]
        /\ \/ act' = [act EXCEPT ![c] = Quiet]
           \/ act' = [act EXCEPT ![c].pc = "mentions"]
    BY <1>8 DEF Invalidate, Done, Goto
  <2>2. \A d \in Callers : act'[d].pc = "fill" => d # c /\ act'[d] = act[d]
    <3>1. act'[c].pc # "fill"
      BY <1>1, <2>1 DEF Shape, Quiet, Serving
    <3>2. \A d \in Callers \ {c} : act'[d] = act[d]
      BY <2>1 DEF Shape
    <3> QED BY <3>1, <3>2
  <2>3. \A d \in Callers \ {c} : act'[d] = act[d]
    BY <2>1 DEF Shape
  <2>4. Dropping \ {c} \subseteq Dropping'
    BY <2>3 DEF Dropping
  <2>5. /\ late'.cached = (cached'.there /\ (late.cached \/ c \in Dropping))
        /\ late'.read = IF c \in Dropping THEN Held ELSE late.read
    BY <2>1
  <2>6. LateTyped'
    <3>1. cached'.there \in BOOLEAN
      <4>1. Absent.there \in BOOLEAN  BY DEF Absent
      <4>2. cached.there \in BOOLEAN  BY DEF ListInv, LateTyped
      <4>3. CASE cached' = Absent  BY <4>1, <4>3
      <4>4. CASE cached' = cached  BY <4>2, <4>4
      <4> QED BY <2>1, <4>3, <4>4
    <3>2. (IF c \in Dropping THEN Held ELSE late.read) \subseteq Callers
      BY DEF LateTyped, ListInv, Held
    <3>3. (cached'.there /\ (late.cached \/ c \in Dropping)) \in BOOLEAN
      OBVIOUS
    <3> QED BY <2>1, <3>1, <3>2, <3>3 DEF LateTyped
  <2>7. StaleListExplained'
    <3> SUFFICES ASSUME cached'.there, ~late'.cached PROVE cached'.list = rows' \/ Dropping' # {}
      BY DEF StaleListExplained
    <3>1. c \notin Dropping /\ ~late.cached /\ cached' = cached
      <4>1. c \notin Dropping /\ ~late.cached  BY <2>5
      <4>2. ~Absent.there  BY DEF Absent
      <4>3. cached' # Absent  BY <4>2
      <4> QED BY <2>1, <4>1, <4>3
    <3>2. cached.list = rows \/ Dropping # {}
      BY <3>1 DEF ListInv, StaleListExplained
    <3> QED BY <2>1, <2>4, <3>1, <3>2
  <2>8. ReadExplained'
    <3> SUFFICES ASSUME NEW d \in Callers, act'[d].pc = "fill", d \notin late'.read
                 PROVE  act'[d].list = rows' \/ Dropping' # {}
      BY DEF ReadExplained
    <3>1. act'[d] = act[d] /\ d # c
      BY <2>2
    <3>2. c \notin Dropping /\ d \notin late.read
      BY <2>5, <3>1 DEF Held
    <3>3. act[d].list = rows \/ Dropping # {}
      BY <3>1, <3>2 DEF ListInv, ReadExplained
    <3> QED BY <2>1, <2>4, <3>1, <3>2, <3>3
  <2> QED BY <2>6, <2>7, <2>8 DEF ListInv
<1>9. CASE Mention(c)
  <2>1. act' = [act EXCEPT ![c] = Quiet] /\ UNCHANGED <<rows, cached, late>> /\ act[c].pc = "mentions"
    BY <1>9 DEF Mention, Done
  <2>2. Quiet.pc # "fill" /\ c \notin Dropping
    BY <1>2, <2>1 DEF Quiet
  <2> QED BY <2>1, <2>2, ListMoves
<1>10. CASE ListReads(c) \/ ListFills(c)
  <2>1. /\ rows' = rows /\ \A d \in Callers \ {c} : act'[d] = act[d]
        /\ act[c].pc \in {"read", "fill"}
    BY <1>10 DEF ListReads, ListFills, Done, Shape
  <2>2. Dropping \subseteq Dropping'
    BY <1>2, <2>1 DEF Dropping
  <2>3. CASE ListReads(c)
    <3>1. act'[c].list = rows /\ cached' = cached /\ late' = [late EXCEPT !.read = @ \ {c}]
      BY <1>1, <2>3 DEF ListReads, Shape, Serving
    <3>2. late'.cached = late.cached /\ late'.read = late.read \ {c} /\ LateTyped'
      BY <3>1 DEF ListInv, LateTyped
    <3>3. StaleListExplained'
      BY <2>1, <2>2, <3>1, <3>2 DEF ListInv, StaleListExplained
    <3>4. ReadExplained'
      <4> SUFFICES ASSUME NEW d \in Callers, act'[d].pc = "fill", d \notin late'.read
                   PROVE  act'[d].list = rows' \/ Dropping' # {}
        BY DEF ReadExplained
      <4>1. CASE d = c
        BY <2>1, <3>1, <4>1
      <4>2. CASE d # c
        BY <2>1, <2>2, <3>2, <4>2 DEF ListInv, ReadExplained
      <4> QED BY <4>1, <4>2
    <3> QED BY <3>2, <3>3, <3>4 DEF ListInv
  <2>4. CASE ListFills(c)
    <3>1. /\ act[c].pc = "fill" /\ act'[c].pc = "idle"
          /\ cached' = [there |-> TRUE, list |-> act[c].list]
          /\ late' = [cached |-> c \in late.read, read |-> late.read \ {c}]
      BY <1>1, <2>4 DEF ListFills, Done, Shape, Quiet
    <3>2. late'.cached = (c \in late.read) /\ late'.read = late.read \ {c} /\ LateTyped'
      BY <3>1 DEF ListInv, LateTyped
    <3>3. StaleListExplained'
      BY <2>1, <2>2, <3>1, <3>2 DEF ListInv, StaleListExplained, ReadExplained
    <3>4. ReadExplained'
      BY <2>1, <2>2, <3>1, <3>2 DEF ListInv, ReadExplained
    <3> QED BY <3>2, <3>3, <3>4 DEF ListInv
  <2> QED BY <1>10, <2>3, <2>4
<1> QED BY <1>3, <1>4, <1>5, <1>6, <1>7, <1>8, <1>9, <1>10 DEF Request

LEMMA ListKept == ASSUME Shape, ListInv, [Next]_vars PROVE ListInv'
<1>1. CASE Expire
  <2>1. cached' = Absent /\ late' = [late EXCEPT !.cached = FALSE] /\ UNCHANGED <<rows, act>>
    BY <1>1 DEF Expire, table
  <2>2. late'.read = late.read /\ LateTyped' /\ ~cached'.there
    BY <2>1 DEF ListInv, LateTyped, Absent
  <2>3. Dropping' = Dropping
    BY <2>1 DEF Dropping
  <2> QED BY <2>1, <2>2, <2>3 DEF ListInv, StaleListExplained, ReadExplained
<1>2. CASE UNCHANGED vars
  <2>1. UNCHANGED <<rows, cached, late, act>>
    BY <1>2 DEF vars, table, copies
  <2>2. Dropping' = Dropping
    BY <2>1 DEF Dropping
  <2> QED BY <2>1, <2>2, ListQuiet
<1>3. CASE Worker \/ StepFails
  <2>1. UNCHANGED act
    BY <1>3 DEF Worker, Deliver, InsertRow, ChangePopularity, FindRow, RemoveRow, Ack, StepFails
  <2>2. Dropping' = Dropping
    BY <2>1 DEF Dropping
  <2>3. CASE InsertRow
    BY <2>1, <2>3, ListOutrun DEF InsertRow
  <2>4. CASE RemoveRow /\ job.of \in rows
    BY <2>1, <2>4, ListOutrun DEF RemoveRow
  <2>5. CASE \/ RemoveRow /\ job.of \notin rows
             \/ Deliver \/ ChangePopularity \/ FindRow \/ Ack \/ StepFails
    <3>1. UNCHANGED <<rows, cached, late>>
      BY <2>5 DEF Deliver, ChangePopularity, FindRow, RemoveRow, Ack, StepFails, table, copies
    <3> QED BY <2>1, <2>2, <3>1, ListQuiet
  <2> QED BY <1>3, <2>3, <2>4, <2>5 DEF Worker
<1>4. ASSUME NEW c \in Callers, BeginPublish(c) \/ BeginDelete(c) \/ BeginList(c)
      PROVE  ListInv'
  <2>1. PICK kind, pc, of : Begin(c, kind, pc, of) /\ pc \in {"event", "read"}
    BY <1>4 DEF BeginPublish, BeginDelete, BeginList
  <2> DEFINE a == [Quiet EXCEPT !.kind = kind, !.pc = pc, !.of = of]
  <2>2. act' = [act EXCEPT ![c] = a] /\ UNCHANGED <<rows, cached, late>> /\ act[c] = Quiet
    BY <2>1 DEF Begin, table, copies
  <2>3. a.pc # "fill"
    BY <2>1 DEF Quiet
  <2>4. c \notin Dropping
    BY <2>2 DEF Dropping, Quiet
  <2> HIDE DEF a
  <2> QED BY <2>2, <2>3, <2>4, ListMoves
<1> QED BY <1>1, <1>2, <1>3, <1>4, ListRequest DEF Next

\* Every state of Comments is well typed.
THEOREM TypeCorrect == Spec => []TypeOK
<1>1. Shape /\ ListInv /\ HeatBound => TypeOK
  <2> SUFFICES ASSUME Shape, ListInv, HeatBound PROVE TypeOK  OBVIOUS
  <2>1. inserted \in Seq(1 .. MaxCalls) /\ calls <= MaxCalls /\ Len(inserted) \in Nat
    BY Outcomes DEF Shape
  <2>2. \A i \in DOMAIN queue : queue[i].action \in {"publish", "delete"}
    <3>1. \A i \in DOMAIN queue : queue[i] \in Message
      BY DEF Shape
    <3> QED BY <3>1 DEF Message
  <2>3. job.pc \in {"idle", "insert", "popularity", "find", "delete", "ack"}
    BY DEF Shape, Jobs, NoJob
  <2>4. \A c \in Callers : act[c].list \subseteq Ids /\ act[c].of \in 0 .. MaxCalls + Len(inserted)
    <3> SUFFICES ASSUME NEW c \in Callers
                 PROVE  act[c].list \subseteq Ids /\ act[c].of \in 0 .. MaxCalls + Len(inserted)
      OBVIOUS
    <3>1. act[c] \in Serving /\ Fits(act[c], calls, Ids)
      BY DEF Shape
    <3>2. act[c].of \in 1 .. calls \/ act[c].of \in {0} \cup Ids
      BY <3>1 DEF Fits, Serving, Publishing
    <3>3. act[c].of \in 0 .. MaxCalls + Len(inserted)
      BY <2>1, <3>2, Outcomes DEF Ids, Shape
    <3> QED BY <3>1, <3>3 DEF Fits
  <2>5. heat \in 0 .. MaxCalls
    <3>1. Cardinality(HeatDue) \in Nat
      BY Outcomes, FS_Subset, FS_CardinalityType DEF HeatDue
    <3> QED BY <3>1, Outcomes DEF HeatBound, Shape
  <2>6. mentioned \subseteq 1 .. MaxCalls /\ lost \cup accepted \subseteq 1 .. MaxCalls
    BY Outcomes DEF Shape
  <2>7. late.cached \in BOOLEAN /\ late.read \subseteq Callers
    BY DEF ListInv, LateTyped
  <2> QED BY <2>1, <2>2, <2>3, <2>4, <2>5, <2>6, <2>7, Outcomes DEF Shape, TypeOK
<1>2. Init => HeatBound
  <2> SUFFICES ASSUME Init PROVE HeatBound  OBVIOUS
  <2>1. HeatDue = {} /\ heat = 0 /\ calls = 0
    BY DEF Init, HeatDue, Quiet, Publishing
  <2> QED BY <2>1, FS_EmptySet DEF HeatBound
<1> QED BY <1>1, <1>2, ShapeInit, ShapeKept, ListInit, ListKept, HeatKept, PTL DEF Spec

\* Whoever reads, caches, writes and fails beside it, the cached list is the
\* table's, or a request is about to drop it, or it is late.
THEOREM StaleListHolds == Spec => []StaleListExplained
<1>1. ListInv => StaleListExplained
  BY DEF ListInv
<1> QED BY <1>1, ShapeInit, ShapeKept, ListInit, ListKept, PTL DEF Spec

-----------------------------------------------------------------------------
(* Where a publication is.                                                   *)

LEMMA RowsAfter ==
    ASSUME Shape, NEW k \in 1 .. calls, Insert(k)
    PROVE  \A j : Rows(j)' # {} <=> Rows(j) # {} \/ j = k
<1> SUFFICES ASSUME NEW j PROVE (\E i \in Ids' : inserted'[i] = j) <=> (\E i \in Ids : inserted[i] = j) \/ j = k
  BY DEF Rows
<1>1. Len(inserted) + 1 \in Ids' /\ Ids' = Ids \cup {Len(inserted) + 1} /\ inserted'[Len(inserted) + 1] = k
  BY Inserted
<1> QED BY <1>1, Inserted

LEMMA QueueAfterAppend ==
    ASSUME Shape, NEW m \in Message, queue' = Append(queue, m)
    PROVE  \A j : InQueue(j)' <=> InQueue(j) \/ m = [action |-> "publish", of |-> j]
<1> TAKE j
<1> DEFINE e == [action |-> "publish", of |-> j]
<1>1. /\ \A i \in DOMAIN queue : i \in DOMAIN queue' /\ queue'[i] = queue[i]
      /\ Len(queue) + 1 \in DOMAIN queue' /\ queue'[Len(queue) + 1] = m
      /\ \A i \in DOMAIN queue' : i \in DOMAIN queue \/ i = Len(queue) + 1
  BY Appended DEF Shape
<1> HIDE DEF e
<1>2. (\E i \in DOMAIN queue' : queue'[i] = e) <=> (\E i \in DOMAIN queue : queue[i] = e) \/ m = e
  BY <1>1
<1> QED BY <1>2 DEF InQueue, e

LEMMA QueueAfterReturn ==
    ASSUME Shape, NEW m \in Message, queue' = <<m>> \o queue
    PROVE  \A j : InQueue(j)' <=> InQueue(j) \/ m = [action |-> "publish", of |-> j]
<1> TAKE j
<1> DEFINE e == [action |-> "publish", of |-> j]
<1>1. /\ \A i \in DOMAIN queue : i + 1 \in DOMAIN queue' /\ queue'[i + 1] = queue[i]
      /\ 1 \in DOMAIN queue' /\ queue'[1] = m
      /\ \A i \in DOMAIN queue' : i # 1 => i - 1 \in DOMAIN queue /\ queue'[i] = queue[i - 1]
  BY Returned DEF Shape
<1> HIDE DEF e
<1>2. ASSUME NEW i \in DOMAIN queue', queue'[i] = e
      PROVE  (\E n \in DOMAIN queue : queue[n] = e) \/ m = e
  <2>1. CASE i = 1  BY <1>1, <1>2, <2>1
  <2>2. CASE i # 1
    <3>1. i - 1 \in DOMAIN queue /\ queue[i - 1] = e  BY <1>1, <1>2, <2>2
    <3> QED BY <3>1
  <2> QED BY <2>1, <2>2
<1>3. ASSUME NEW i \in DOMAIN queue, queue[i] = e PROVE \E n \in DOMAIN queue' : queue'[n] = e
  <2>1. i + 1 \in DOMAIN queue' /\ queue'[i + 1] = e  BY <1>1, <1>3
  <2> QED BY <2>1
<1> QED BY <1>1, <1>2, <1>3 DEF InQueue, e

LEMMA QueueAfterTail ==
    ASSUME Shape, OnePlace, queue # <<>>, queue' = Tail(queue)
    PROVE  \A j : InQueue(j)' <=> InQueue(j) /\ Head(queue) # [action |-> "publish", of |-> j]
<1> TAKE j
<1> DEFINE e == [action |-> "publish", of |-> j]
<1>1. /\ Head(queue) = queue[1] /\ 1 \in DOMAIN queue
      /\ \A i \in DOMAIN queue' : i + 1 \in DOMAIN queue /\ queue'[i] = queue[i + 1] /\ i + 1 # 1
      /\ \A i \in DOMAIN queue : i # 1 => i - 1 \in DOMAIN queue' /\ queue'[i - 1] = queue[i]
  BY Removed DEF Shape
<1>2. \A i \in DOMAIN queue : i # 1 /\ queue[i] = e => queue[1] # e
  BY <1>1 DEF OnePlace, Distinct
<1> HIDE DEF e
<1>3. ASSUME NEW i \in DOMAIN queue', queue'[i] = e
      PROVE  (\E n \in DOMAIN queue : queue[n] = e) /\ Head(queue) # e
  <2>1. i + 1 \in DOMAIN queue /\ queue[i + 1] = e /\ i + 1 # 1  BY <1>1, <1>3
  <2> QED BY <1>1, <1>2, <2>1
<1>4. ASSUME NEW i \in DOMAIN queue, queue[i] = e, Head(queue) # e
      PROVE  \E n \in DOMAIN queue' : queue'[n] = e
  <2>1. i - 1 \in DOMAIN queue' /\ queue'[i - 1] = e  BY <1>1, <1>4
  <2> QED BY <2>1
<1> QED BY <1>3, <1>4 DEF InQueue, e

LEMMA DistinctAfter ==
    ASSUME Shape, Distinct(queue), NEW m \in Message,
           m.action = "publish" => ~InQueue(m.of)
    PROVE  /\ Distinct(Append(queue, m)) /\ Distinct(<<m>> \o queue)
           /\ queue # <<>> => Distinct(Tail(queue))
<1>1. ASSUME NEW i \in DOMAIN queue, queue[i].action = "publish", m.action = "publish"
      PROVE  queue[i].of # m.of
  <2>1. queue[i] \in Message
    BY DEF Shape
  <2>2. queue[i] = [action |-> "publish", of |-> queue[i].of]
    BY <1>1, <2>1 DEF Message
  <2> QED BY <1>1, <2>2 DEF InQueue
<1>2. Distinct(Append(queue, m))
  <2> DEFINE q == Append(queue, m)
  <2>1. \A i \in DOMAIN q : \/ i \in DOMAIN queue /\ q[i] = queue[i]
                            \/ i = Len(queue) + 1 /\ q[i] = m
    BY Appended DEF Shape
  <2> HIDE DEF q
  <2> QED BY <1>1, <2>1 DEF Distinct
<1>3. Distinct(<<m>> \o queue)
  <2> DEFINE q == <<m>> \o queue
  <2>1. \A i \in DOMAIN q : IF i = 1 THEN q[i] = m
                            ELSE i - 1 \in DOMAIN queue /\ q[i] = queue[i - 1]
    BY Returned DEF Shape
  <2>2. \A i, j \in DOMAIN q : i # j => i - 1 # j - 1
    BY Returned DEF Shape
  <2> HIDE DEF q
  <2> SUFFICES ASSUME NEW i \in DOMAIN q, NEW j \in DOMAIN q, i # j,
                      q[i].action = "publish", q[j].action = "publish"
               PROVE  q[i].of # q[j].of
    BY DEF Distinct, q
  <2>3. CASE i = 1
    <3>1. q[i] = m /\ j - 1 \in DOMAIN queue /\ q[j] = queue[j - 1]
      BY <2>1, <2>3 DEF Shape
    <3> QED BY <1>1, <3>1
  <2>4. CASE j = 1
    <3>1. q[j] = m /\ i - 1 \in DOMAIN queue /\ q[i] = queue[i - 1]
      BY <2>1, <2>4 DEF Shape
    <3> QED BY <1>1, <3>1
  <2>5. CASE i # 1 /\ j # 1
    <3>1. /\ i - 1 \in DOMAIN queue /\ q[i] = queue[i - 1]
          /\ j - 1 \in DOMAIN queue /\ q[j] = queue[j - 1] /\ i - 1 # j - 1
      BY <2>1, <2>2, <2>5
    <3> QED BY <3>1 DEF Distinct
  <2> QED BY <2>3, <2>4, <2>5
<1>4. queue # <<>> => Distinct(Tail(queue))
  <2> SUFFICES ASSUME queue # <<>> PROVE Distinct(Tail(queue))
    OBVIOUS
  <2> DEFINE q == Tail(queue)
  <2>1. \A i \in DOMAIN q : i + 1 \in DOMAIN queue /\ q[i] = queue[i + 1]
    BY Removed DEF Shape
  <2>2. \A i, j \in DOMAIN q : i # j => i + 1 # j + 1
    BY Removed DEF Shape
  <2> HIDE DEF q
  <2> SUFFICES ASSUME NEW i \in DOMAIN q, NEW j \in DOMAIN q, i # j,
                      q[i].action = "publish", q[j].action = "publish"
               PROVE  q[i].of # q[j].of
    BY DEF Distinct, q
  <2> QED BY <2>1, <2>2 DEF Distinct
<1> QED BY <1>2, <1>3, <1>4

\* A request that only moves on with its publication, or answers.
LEMMA Carried ==
    ASSUME Shape, OnePlace, Written, NEW c \in Callers,
           \A d \in Callers \ {c} : act'[d] = act[d],
           UNCHANGED <<inserted, queue, job, lost>>,
           Publishing(act'[c].kind) => Publishing(act[c].kind) /\ act'[c].of = act[c].of,
           Owes(c)' => Owes(c), Later(c)' => Later(c),
           accepted' = accepted \/ (Later(c) /\ accepted' = accepted \cup {act[c].of})
    PROVE  OnePlace' /\ Written'
<1>1. /\ \A k : (Rows(k) # {} => Rows(k)' # {}) /\ (Unsent(k) => Unsent(k)') /\ (Kept(k) => Kept(k)')
      /\ job'.action = "publish" => ~InQueue(job.of)'
  BY DEF OnePlace, Rows, Ids, InHand, InQueue, Unsent, Kept
<1>2. \A d \in Callers : /\ Publishing(act'[d].kind) => Publishing(act[d].kind) /\ act'[d].of = act[d].of
                         /\ (Owes(d)' => Owes(d)) /\ (Later(d)' => Later(d))
  BY DEF Owes, Later
<1>3. OnePlace'
  <2>1. ASSUME NEW d \in Callers, Owes(d)' PROVE Unsent(act[d].of)'
    <3>1. PICK k : k = act[d].of /\ k = act'[d].of
      BY <1>2, <2>1 DEF Owes
    <3>2. Unsent(k)  BY <1>2, <2>1, <3>1 DEF OnePlace
    <3>3. Unsent(k)' BY <1>1, <3>2
    <3> QED BY <3>1, <3>3
  <2>2. \A d, e \in Callers : d # e /\ Publishing(act'[d].kind) /\ Publishing(act'[e].kind)
                                => act'[d].of # act'[e].of
    BY <1>2 DEF OnePlace
  <2>3. Distinct(queue')
    BY DEF OnePlace
  <2> QED BY <1>1, <2>1, <2>2, <2>3 DEF OnePlace
<1>4. Written'
  <2>1. ASSUME NEW d \in Callers, Later(d)' PROVE Kept(act[d].of)'
    <3>1. PICK k : k = act[d].of /\ k = act'[d].of
      BY <1>2, <2>1 DEF Later
    <3>2. Kept(k)  BY <1>2, <2>1, <3>1 DEF Written
    <3>3. Kept(k)'  BY <1>1, <3>2
    <3> QED BY <3>1, <3>3
  <2>2. ASSUME NEW k \in accepted' PROVE Kept(k)'
    <3>1. Kept(k)  BY <2>2 DEF Written
    <3> QED BY <1>1, <3>1
  <2>3. job'.action = "publish" /\ job'.pc \in {"popularity", "ack"} => Rows(job.of)' # {}
    BY <1>1 DEF Written, Rows, Ids
  <2> QED BY <2>1, <2>2, <2>3 DEF Written
<1> QED BY <1>3, <1>4

\* A step of the worker: no request moves.
LEMMA Worked ==
    ASSUME Shape, OnePlace, Written, UNCHANGED <<act, lost, accepted>>,
           \A k : Unsent(k) => Unsent(k)', \A k : Kept(k) => Kept(k)',
           job'.action = "publish" => ~InQueue(job.of)', Distinct(queue'),
           job'.action = "publish" /\ job'.pc \in {"popularity", "ack"} => Rows(job.of)' # {}
    PROVE  OnePlace' /\ Written'
<1>1. ASSUME NEW d \in Callers, Owes(d)' PROVE Unsent(act[d].of)'
  <2>1. PICK k : k = act[d].of  OBVIOUS
  <2>2. Unsent(k)
    BY <1>1, <2>1 DEF OnePlace, Owes
  <2>3. Unsent(k)'  BY <2>2
  <2> QED BY <2>1, <2>3
<1>2. ASSUME NEW d \in Callers, Later(d)' PROVE Kept(act[d].of)'
  <2>1. PICK k : k = act[d].of  OBVIOUS
  <2>2. Kept(k)
    BY <1>2, <2>1 DEF Written, Later
  <2>3. Kept(k)'  BY <2>2
  <2> QED BY <2>1, <2>3
<1>3. ASSUME NEW k \in accepted' PROVE Kept(k)'
  <2>1. Kept(k)  BY <1>3 DEF Written
  <2> QED BY <2>1
<1>4. OnePlace'
  BY <1>1 DEF OnePlace
<1>5. Written'
  BY <1>2, <1>3 DEF Written
<1> QED BY <1>4, <1>5

\* A request that hands its publication over, loses or writes it.
LEMMA Settled ==
    ASSUME Shape, OnePlace, Written, NEW c \in Callers, NEW k, k = act[c].of, Owes(c),
           \A d \in Callers \ {c} : act'[d] = act[d],
           Publishing(act'[c].kind) => act'[c].of = k, ~Owes(c)',
           UNCHANGED <<job, accepted>>,
           \A j : j # k /\ Unsent(j) => Unsent(j)', \A j : Kept(j) => Kept(j)', Kept(k)',
           job.action = "publish" => ~InQueue(job.of)', Distinct(queue'),
           \A j : Rows(j) # {} => Rows(j)' # {}
    PROVE  OnePlace' /\ Written'
<1>1. \A d \in Callers : /\ Publishing(act'[d].kind) => Publishing(act[d].kind) /\ act'[d].of = act[d].of
                         /\ d # c => (Owes(d)' => Owes(d)) /\ (Later(d)' => Later(d))
  BY DEF Owes, Later
<1>2. ASSUME NEW d \in Callers, Owes(d)' PROVE Unsent(act[d].of)'
  <2>1. d # c  BY <1>2
  <2>2. PICK j : j = act[d].of /\ j = act'[d].of
    BY <2>1
  <2>3. Unsent(j)  BY <1>1, <1>2, <2>1, <2>2 DEF OnePlace
  <2>4. j # k
    BY <1>1, <1>2, <2>1, <2>2 DEF OnePlace, Owes
  <2>5. Unsent(j)'  BY <2>3, <2>4
  <2> QED BY <2>2, <2>5
<1>3. ASSUME NEW d \in Callers, Later(d)' PROVE Kept(act[d].of)'
  <2>1. PICK j : j = act[d].of /\ j = act'[d].of
    BY <1>1, <1>3 DEF Later
  <2>2. CASE d = c
    <3>1. j = k  BY <2>1, <2>2
    <3>2. Kept(j)'  BY <3>1
    <3> QED BY <2>1, <3>2
  <2>3. CASE d # c
    <3>1. Kept(j)  BY <1>1, <1>3, <2>1, <2>3 DEF Written
    <3>2. Kept(j)' BY <3>1
    <3> QED BY <2>1, <3>2
  <2> QED BY <2>2, <2>3
<1>4. ASSUME NEW j \in accepted' PROVE Kept(j)'
  <2>1. Kept(j)  BY <1>4 DEF Written
  <2> QED BY <2>1
<1>5. job'.action = "publish" /\ job'.pc \in {"popularity", "ack"} => Rows(job.of)' # {}
  <2>1. PICK j : j = job.of  OBVIOUS
  <2>2. job.action = "publish" /\ job.pc \in {"popularity", "ack"} => Rows(j)' # {}
    BY <2>1 DEF Written
  <2> QED BY <2>1, <2>2
<1>6. \A d, e \in Callers : d # e /\ Publishing(act'[d].kind) /\ Publishing(act'[e].kind)
                              => act'[d].of # act'[e].of
  BY <1>1 DEF OnePlace
<1>7. job'.action = "publish" => ~InQueue(job.of)'
  BY DEF InQueue
<1>8. OnePlace'
  BY <1>2, <1>6, <1>7 DEF OnePlace
<1>9. Written'
  BY <1>3, <1>4, <1>5 DEF Written
<1> QED BY <1>8, <1>9

LEMMA BeginPlaces ==
    ASSUME Shape, OnePlace, Written, NEW c \in Callers,
           BeginPublish(c) \/ BeginDelete(c) \/ BeginList(c)
    PROVE  OnePlace' /\ Written'
<1>1. ASSUME NEW kind \in {"delete", "list"}, NEW pc, NEW of, Begin(c, kind, pc, of)
      PROVE  OnePlace' /\ Written'
  <2>1. /\ \A d \in Callers \ {c} : act'[d] = act[d]
        /\ act'[c].kind = kind
    BY <1>1 DEF Begin, Quiet, Shape
  <2>2. ~Publishing(act'[c].kind) /\ ~Owes(c)' /\ ~Later(c)'
    BY <2>1 DEF Publishing, Owes, Later
  <2>3. UNCHANGED <<inserted, queue, job, lost, accepted>>
    BY <1>1 DEF Begin, table, broker, history
  <2> QED BY <2>1, <2>2, <2>3, Carried
<1>2. CASE BeginPublish(c)
  <2>1. /\ \A d \in Callers \ {c} : act'[d] = act[d]
        /\ act'[c].kind = "publish" /\ act'[c].pc = "event" /\ act'[c].of = calls + 1 /\ ~act'[c].queued
    BY <1>2 DEF BeginPublish, Begin, Quiet, Shape
  <2>2. UNCHANGED <<inserted, queue, job, lost, accepted>> /\ Ids' = Ids
    BY <1>2 DEF BeginPublish, Begin, table, broker, history, Ids
  <2>3. PICK k : k = calls + 1  OBVIOUS
  <2>4. \A j \in 1 .. calls : j # k
    BY <2>3 DEF Shape
  <2>5. Unsent(k)
    <3>1. Rows(k) = {}
      BY <2>4 DEF Rows, Ids, Shape
    <3>2. ~InHand(k)
      BY <2>4 DEF InHand, Shape
    <3>3. ~InQueue(k)
      BY <2>4, SMTT(30) DEF InQueue, Shape
    <3> QED BY <3>1, <3>2, <3>3 DEF Unsent
  <2>6. \A d \in Callers : Publishing(act[d].kind) => act[d].of # k
    BY <2>4 DEF Shape, Fits
  <2>7. \A j : (Unsent(j)' <=> Unsent(j)) /\ (Kept(j)' <=> Kept(j)) /\ (Rows(j)' = Rows(j))
    BY <2>2 DEF Unsent, Kept, Rows, InHand, InQueue
  <2>8. ASSUME NEW d \in Callers, Owes(d)' PROVE Unsent(act[d].of)'
    <3>1. PICK j : j = act'[d].of  OBVIOUS
    <3>2. Unsent(j)
      <4>1. CASE d = c  BY <2>1, <2>3, <2>5, <3>1, <4>1
      <4>2. CASE d # c
        <5>1. Owes(d) /\ j = act[d].of
          BY <2>1, <2>8, <3>1, <4>2 DEF Owes
        <5> QED BY <5>1 DEF OnePlace
      <4> QED BY <4>1, <4>2
    <3>3. Unsent(j)'  BY <2>7, <3>2
    <3> QED BY <3>1, <3>3
  <2>9. ASSUME NEW d \in Callers, Later(d)' PROVE Kept(act[d].of)'
    <3>1. d # c
      BY <2>1, <2>9 DEF Later
    <3>2. PICK j : j = act[d].of /\ j = act'[d].of
      BY <2>1, <3>1
    <3>3. Kept(j)
      BY <2>1, <2>9, <3>1, <3>2 DEF Written, Later
    <3>4. Kept(j)'  BY <2>7, <3>3
    <3> QED BY <3>2, <3>4
  <2>10. \A d, e \in Callers : d # e /\ Publishing(act'[d].kind) /\ Publishing(act'[e].kind)
                                => act'[d].of # act'[e].of
    BY <2>1, <2>3, <2>6 DEF OnePlace
  <2>11. (job'.action = "publish" => ~InQueue(job.of)') /\ Distinct(queue')
    BY <2>2 DEF OnePlace, InQueue
  <2>12. OnePlace'
    BY <2>8, <2>10, <2>11 DEF OnePlace
  <2>13. \A k1 \in accepted' : Kept(k1)'
    BY <2>2, <2>7 DEF Written
  <2>14. job'.action = "publish" /\ job'.pc \in {"popularity", "ack"} => Rows(job.of)' # {}
    BY <2>2 DEF Written, Rows
  <2> QED BY <2>9, <2>12, <2>13, <2>14 DEF Written
<1> QED BY <1>1, <1>2 DEF BeginDelete, BeginList

LEMMA SendEventPlaces ==
    ASSUME Shape, OnePlace, Written, NEW c \in Callers, SendEvent(c)
    PROVE  OnePlace' /\ Written'
<1>1. act[c] \in Serving /\ Fits(act[c], calls, Ids)
  BY DEF Shape
<1>2. PICK o \in CommentPublish :
          /\ queue' = IF o = "queued"
                        THEN Append(queue, [action |-> act[c].kind, of |-> act[c].of])
                        ELSE queue
          /\ lost' = IF o = "dropped" /\ act[c].kind = "publish"
                       THEN lost \cup {act[c].of} ELSE lost
          /\ act' = [act EXCEPT
                ![c].queued = (o # "refused"),
                ![c].pc = IF act[c].kind = "publish" THEN "heat"
                          ELSE IF o = "refused" THEN "delete" ELSE "invalidate"]
  BY DEF SendEvent
<1>3. act[c].kind \in {"publish", "delete"} /\ act[c].pc = "event" /\ ~act[c].queued
  BY <1>1 DEF SendEvent, Fits
<1>4. UNCHANGED <<inserted, job, accepted>> /\ Ids' = Ids
  BY DEF SendEvent, table, Ids
<1>5. /\ \A d \in Callers \ {c} : act'[d] = act[d]
      /\ act'[c].kind = act[c].kind /\ act'[c].of = act[c].of
      /\ act'[c].queued = (o # "refused")
      /\ act[c].kind = "publish" => act'[c].pc = "heat"
  <2>1. \A d \in Callers \ {c} : act'[d] = act[d]
    BY <1>2 DEF Shape
  <2>2. /\ act'[c].kind = act[c].kind /\ act'[c].of = act[c].of
        /\ act'[c].queued = (o # "refused")
        /\ act[c].kind = "publish" => act'[c].pc = "heat"
    BY <1>1, <1>2 DEF Shape, Serving
  <2> QED BY <2>1, <2>2
<1> DEFINE m == [action |-> act[c].kind, of |-> act[c].of]
<1>6. m \in Message /\ m.action = act[c].kind /\ m.of = act[c].of
  BY <1>1, <1>3 DEF Message, Serving
<1>7. PICK k : k = act[c].of  OBVIOUS
<1>8. ASSUME act[c].kind = "publish" PROVE Owes(c) /\ Unsent(k)
  BY <1>3, <1>7, <1>8 DEF Owes, Publishing, OnePlace
<1>9. o = "queued" => \A j : InQueue(j)' <=> InQueue(j) \/ m = [action |-> "publish", of |-> j]
  BY <1>2, <1>6, QueueAfterAppend
<1>10. /\ \A j : Rows(j)' = Rows(j) /\ (InHand(j)' <=> InHand(j))
       /\ o # "queued" => \A j : InQueue(j)' <=> InQueue(j)
  BY <1>2, <1>4 DEF Rows, InHand, InQueue
<1>11. m.action = "publish" => ~InQueue(m.of)
  BY <1>6, <1>7, <1>8 DEF Unsent
<1>12. Distinct(queue')
  <2>1. Distinct(queue) BY DEF OnePlace
  <2> QED BY <1>2, <1>6, <1>11, <2>1, DistinctAfter
<1>13. lost \subseteq lost'
  BY <1>2
<1>14. \A j : InQueue(j) => InQueue(j)'
  BY <1>9, <1>10
<1>15. \A j : Kept(j) => Kept(j)'
  BY <1>10, <1>13, <1>14 DEF Kept
<1>16. PICK h : h = job.of  OBVIOUS
<1>17. job.action = "publish" => InHand(h) /\ ~InQueue(h)
  BY <1>16 DEF InHand, OnePlace
<1>18. CASE act[c].kind = "publish" /\ o # "refused"
  <2>1. Publishing(act'[c].kind) => act'[c].of = k
    BY <1>5, <1>7
  <2>2. ~Owes(c)'
    BY <1>5, <1>18 DEF Owes
  <2>3. \A j : j # k => m # [action |-> "publish", of |-> j]
    BY <1>7
  <2> HIDE DEF m
  <2>4. \A j : j # k /\ Unsent(j) => Unsent(j)'
    BY <1>9, <1>10, <2>3 DEF Unsent
  <2>5. Kept(k)'
    <3>1. CASE o = "queued"
      <4>1. m = [action |-> "publish", of |-> k]
        BY <1>7, <1>18 DEF m
      <4>2. InQueue(k)'  BY <1>9, <3>1, <4>1
      <4> QED BY <4>2 DEF Kept
    <3>2. CASE o = "dropped"
      BY <1>2, <1>7, <1>18, <3>2 DEF Kept
    <3> QED BY <1>18, <3>1, <3>2, Outcomes
  <2>6. job.action = "publish" => ~InQueue(h)'
    <3>1. job.action = "publish" => h # k
      BY <1>8, <1>17, <1>18 DEF Unsent
    <3> QED BY <1>9, <1>10, <1>17, <2>3, <3>1
  <2>7. job.action = "publish" => ~InQueue(job.of)'
    BY <1>4, <1>16, <2>6 DEF InQueue
  <2>8. \A j : Rows(j) # {} => Rows(j)' # {}
    BY <1>10
  <2>9. Owes(c) /\ \A d \in Callers \ {c} : act'[d] = act[d]
    BY <1>5, <1>8, <1>18
  <2> QED BY <1>4, <1>7, <1>12, <1>15, <2>1, <2>2, <2>4, <2>5, <2>7, <2>8, <2>9, Settled
<1>19. CASE act[c].kind = "publish" /\ o = "refused"
  <2>1. UNCHANGED <<inserted, queue, job, lost, accepted>>
    BY <1>2, <1>4, <1>19
  <2>2. (Owes(c)' => Owes(c)) /\ ~Later(c)'
    BY <1>5, <1>8, <1>19 DEF Later
  <2>3. Publishing(act'[c].kind) => Publishing(act[c].kind) /\ act'[c].of = act[c].of
    BY <1>5
  <2> QED BY <1>5, <2>1, <2>2, <2>3, Carried
<1>20. CASE act[c].kind = "delete"
  <2>1. ~Publishing(act'[c].kind) /\ ~Owes(c)' /\ ~Later(c)'
    BY <1>5, <1>20 DEF Publishing, Owes, Later
  <2>2. lost' = lost
    BY <1>2, <1>20
  <2>3. \A j : InQueue(j)' <=> InQueue(j)
    <3>1. \A j : m # [action |-> "publish", of |-> j]
      BY <1>20
    <3> HIDE DEF m
    <3> QED BY <1>9, <1>10, <3>1
  <2>4. \A j : (Unsent(j)' <=> Unsent(j)) /\ (Kept(j)' <=> Kept(j))
    BY <1>10, <2>2, <2>3 DEF Unsent, Kept
  <2>5. ASSUME NEW d \in Callers, Owes(d)' PROVE Unsent(act[d].of)'
    <3>1. d # c  BY <2>1, <2>5
    <3>2. PICK j : j = act[d].of /\ j = act'[d].of  BY <1>5, <3>1
    <3>3. Unsent(j)  BY <1>5, <2>5, <3>1, <3>2 DEF OnePlace, Owes
    <3>4. Unsent(j)'  BY <2>4, <3>3
    <3> QED BY <3>2, <3>4
  <2>6. ASSUME NEW d \in Callers, Later(d)' PROVE Kept(act[d].of)'
    <3>1. d # c  BY <2>1, <2>6
    <3>2. PICK j : j = act[d].of /\ j = act'[d].of  BY <1>5, <3>1
    <3>3. Kept(j)  BY <1>5, <2>6, <3>1, <3>2 DEF Written, Later
    <3>4. Kept(j)'  BY <2>4, <3>3
    <3> QED BY <3>2, <3>4
  <2>7. ASSUME NEW j \in accepted' PROVE Kept(j)'
    <3>1. Kept(j)  BY <1>4, <2>7 DEF Written
    <3> QED BY <2>4, <3>1
  <2>8. \A d, e \in Callers : d # e /\ Publishing(act'[d].kind) /\ Publishing(act'[e].kind)
                                => act'[d].of # act'[e].of
    BY <1>5, <2>1 DEF OnePlace
  <2>9. job'.action = "publish" => ~InQueue(job.of)'
    <3>1. job.action = "publish" => ~InQueue(h)'  BY <1>17, <2>3
    <3> QED BY <1>4, <1>16, <3>1 DEF InQueue
  <2>10. job'.action = "publish" /\ job'.pc \in {"popularity", "ack"} => Rows(job.of)' # {}
    BY <1>4 DEF Written, Rows
  <2>11. OnePlace'  BY <1>12, <2>5, <2>8, <2>9 DEF OnePlace
  <2>12. Written'  BY <2>6, <2>7, <2>10 DEF Written
  <2> QED BY <2>11, <2>12
<1> QED BY <1>3, <1>18, <1>19, <1>20

LEMMA WriteTxPlaces ==
    ASSUME Shape, OnePlace, Written, NEW c \in Callers, WriteTx(c)
    PROVE  OnePlace' /\ Written'
<1>1. act[c] \in Serving /\ Fits(act[c], calls, Ids)
  BY DEF Shape
<1>2. UNCHANGED <<queue, job, lost, accepted>>
  BY DEF WriteTx, broker, history
<1>3. PICK k : k = act[c].of  OBVIOUS
<1>4. Publishing(act[c].kind) /\ ~act[c].queued /\ k \in 1 .. calls /\ Owes(c)
  BY <1>1, <1>3 DEF WriteTx, Fits, Owes
<1>5. CASE /\ Insert(act[c].of) /\ popularity' = popularity + 1
           /\ Goto(c, IF act[c].kind = "cold" THEN "bump" ELSE "invalidate")
  <2>1. Insert(k)  BY <1>3, <1>5
  <2>2. /\ \A d \in Callers \ {c} : act'[d] = act[d]
        /\ act'[c].of = k /\ act'[c].pc \in {"bump", "invalidate"}
    BY <1>1, <1>3, <1>5 DEF Goto, Shape, Serving
  <2>3. ~Owes(c)'
    BY <2>2 DEF Owes
  <2>4. \A j : /\ Rows(j)' # {} <=> Rows(j) # {} \/ j = k
               /\ (InHand(j)' <=> InHand(j)) /\ (InQueue(j)' <=> InQueue(j))
    BY <1>2, <1>4, <2>1, RowsAfter DEF InHand, InQueue
  <2>5. /\ \A j : j # k /\ Unsent(j) => Unsent(j)'
        /\ \A j : Kept(j) => Kept(j)'
        /\ Kept(k)'
        /\ \A j : Rows(j) # {} => Rows(j)' # {}
    BY <1>2, <2>4 DEF Unsent, Kept
  <2>6. (job.action = "publish" => ~InQueue(job.of)') /\ Distinct(queue')
    BY <1>2 DEF OnePlace, InQueue
  <2> QED BY <1>2, <1>3, <1>4, <2>2, <2>3, <2>5, <2>6, Settled
<1>6. CASE Fail /\ Done(c) /\ UNCHANGED table
  <2>1. act'[c] = Quiet /\ (\A d \in Callers \ {c} : act'[d] = act[d]) /\ inserted' = inserted
    BY <1>6 DEF Done, Shape, table
  <2>2. ~Publishing(act'[c].kind) /\ ~Owes(c)' /\ ~Later(c)'
    BY <2>1 DEF Publishing, Owes, Later, Quiet
  <2> QED BY <1>2, <2>1, <2>2, Carried
<1> QED BY <1>5, <1>6 DEF WriteTx

LEMMA RequestPlaces ==
    ASSUME Shape, OnePlace, Written, NEW c \in Callers, Request(c)
    PROVE  OnePlace' /\ Written'
<1>1. act[c] \in Serving /\ Fits(act[c], calls, Ids)
  BY DEF Shape
<1>2. CASE SendHeat(c)
  <2>1. PICK o \in HeatPublish :
          act' = [act EXCEPT ![c].pc = IF ~act[c].queued THEN "write"
                                          ELSE IF o = "queued" THEN "invalidate" ELSE "bump",
                                ![c].list = {}, ![c].kind = IF o = "queued" THEN "publish" ELSE "cold"]
    BY <1>2 DEF SendHeat
  <2>2. UNCHANGED <<inserted, queue, job, lost, accepted>>
    BY <1>2 DEF SendHeat, table, broker, history
  <2>3. \A d \in Callers \ {c} : act'[d] = act[d]
    BY <2>1 DEF Shape
  <2>4. /\ act'[c].of = act[c].of /\ act'[c].queued = act[c].queued
        /\ act'[c].pc = IF ~act[c].queued THEN "write"
                        ELSE IF o = "queued" THEN "invalidate" ELSE "bump"
    BY <1>1, <2>1 DEF Shape, Serving
  <2>5. Publishing(act[c].kind) /\ act[c].pc = "heat"
    BY <1>1, <1>2 DEF SendHeat, Fits
  <2>6. (Owes(c)' => Owes(c)) /\ (Later(c)' => Later(c))
    BY <2>4, <2>5 DEF Owes, Later
  <2> QED BY <2>2, <2>3, <2>4, <2>5, <2>6, Carried
<1>3. ASSUME UNCHANGED <<inserted, queue, job, lost>>, NEW pc \in {"invalidate", "mentions"},
             Goto(c, pc), act[c].pc \in {"bump", "invalidate", "delete"}, accepted' = accepted
      PROVE  OnePlace' /\ Written'
  <2>1. /\ \A d \in Callers \ {c} : act'[d] = act[d]
        /\ act'[c].of = act[c].of /\ act'[c].kind = act[c].kind
        /\ act'[c].pc = pc /\ act'[c].queued = act[c].queued
    BY <1>1, <1>3 DEF Goto, Shape, Serving
  <2>2. act[c].pc = "delete" => ~Publishing(act[c].kind)
    BY <1>1 DEF Fits, Publishing
  <2>3. ~Owes(c)' /\ (Later(c)' => Later(c))
    BY <1>3, <2>1, <2>2 DEF Owes, Later
  <2> QED BY <1>3, <2>1, <2>3, Carried
<1>4. ASSUME UNCHANGED <<inserted, queue, job, lost>>, Done(c),
             accepted' = accepted \/ (Later(c) /\ accepted' = accepted \cup {act[c].of})
      PROVE  OnePlace' /\ Written'
  <2>1. act'[c] = Quiet /\ \A d \in Callers \ {c} : act'[d] = act[d]
    BY <1>4 DEF Done, Shape
  <2>2. ~Publishing(act'[c].kind) /\ ~Owes(c)' /\ ~Later(c)'
    BY <2>1 DEF Publishing, Owes, Later, Quiet
  <2> QED BY <1>4, <2>1, <2>2, Carried
<1>5. CASE BumpHeat(c)
  <2>1. UNCHANGED <<inserted, queue, job, lost, accepted>> /\ Goto(c, "invalidate") /\ act[c].pc = "bump"
    BY <1>5 DEF BumpHeat, table, broker, history
  <2> QED BY <2>1, <1>3
<1>6. CASE DeleteRow(c)
  <2>1. UNCHANGED <<inserted, queue, job, lost, accepted>> /\ act[c].pc = "delete"
        /\ (Goto(c, "invalidate") \/ Done(c))
    BY <1>6 DEF DeleteRow, table, broker, history
  <2> QED BY <2>1, <1>3, <1>4
<1>7. CASE Invalidate(c)
  <2>1. UNCHANGED <<inserted, queue, job, lost, accepted>> /\ act[c].pc = "invalidate"
        /\ (Goto(c, "mentions") \/ Done(c))
    BY <1>7 DEF Invalidate, table, broker, history
  <2> QED BY <2>1, <1>3, <1>4
<1>8. CASE Mention(c)
  <2>1. UNCHANGED <<inserted, queue, job, lost>> /\ act[c].pc = "mentions" /\ Done(c)
        /\ accepted' = accepted \cup {act[c].of}
    BY <1>8 DEF Mention, table, broker
  <2>2. Later(c)
    BY <1>1, <2>1 DEF Fits, Later
  <2> QED BY <2>1, <2>2, <1>4
<1>9. CASE ListReads(c)
  <2>1. UNCHANGED <<inserted, queue, job, lost, accepted>> /\ act[c].pc = "read"
        /\ act' = [act EXCEPT ![c].pc = "fill", ![c].list = rows]
    BY <1>9 DEF ListReads, table, broker, history
  <2>2. \A d \in Callers \ {c} : act'[d] = act[d]
    BY <2>1 DEF Shape
  <2>3. /\ act'[c].of = act[c].of /\ act'[c].kind = act[c].kind
        /\ act'[c].pc = "fill" /\ act'[c].queued = act[c].queued
    BY <1>1, <2>1 DEF Shape, Serving
  <2>4. ~Owes(c)' /\ (Later(c)' => Later(c))
    BY <2>3 DEF Owes, Later
  <2> QED BY <2>1, <2>2, <2>3, <2>4, Carried
<1>10. CASE ListFills(c)
  <2>1. UNCHANGED <<inserted, queue, job, lost, accepted>> /\ Done(c)
    BY <1>10 DEF ListFills, table, broker, history
  <2> QED BY <2>1, <1>4
<1> QED BY <1>2, <1>5, <1>6, <1>7, <1>8, <1>9, <1>10, SendEventPlaces, WriteTxPlaces DEF Request

LEMMA WorkerPlaces ==
    ASSUME Shape, OnePlace, Written, Worker \/ StepFails
    PROVE  OnePlace' /\ Written'
<1>1. job \in Jobs /\ UNCHANGED <<act, lost, accepted>>
  BY DEF Worker, StepFails, Deliver, InsertRow, ChangePopularity, FindRow, RemoveRow, Ack, Shape, history
<1>2. PICK h : h = job.of /\ (job.action = "publish" => InHand(h) /\ ~InQueue(h))
  BY DEF InHand, OnePlace
<1>3. CASE Deliver
  <2>1. /\ queue # <<>> /\ queue' = Tail(queue) /\ job = NoJob
        /\ job'.action = Head(queue).action /\ job'.of = Head(queue).of
        /\ job'.pc \in {"insert", "find"} /\ inserted' = inserted
    BY <1>3 DEF Deliver, table
  <2>2. Head(queue) \in Message
    BY <2>1, Removed DEF Shape
  <2>3. \A j : (Head(queue) = [action |-> "publish", of |-> j])
                 <=> Head(queue).action = "publish" /\ Head(queue).of = j
    BY <2>2 DEF Message
  <2>4. \A j : /\ InQueue(j)' <=> InQueue(j) /\ ~(Head(queue).action = "publish" /\ Head(queue).of = j)
               /\ InHand(j)' <=> Head(queue).action = "publish" /\ Head(queue).of = j
               /\ ~InHand(j) /\ Rows(j)' = Rows(j)
               /\ Head(queue).action = "publish" /\ Head(queue).of = j => InQueue(j)
    <3>1. \A j : /\ InQueue(j)' <=> InQueue(j) /\ ~(Head(queue).action = "publish" /\ Head(queue).of = j)
      BY <2>1, <2>3, QueueAfterTail
    <3>2. \A j : /\ InHand(j)' <=> Head(queue).action = "publish" /\ Head(queue).of = j
                 /\ ~InHand(j) /\ Rows(j)' = Rows(j)
      BY <2>1 DEF InHand, NoJob, Rows, Ids
    <3>3. \A j : Head(queue).action = "publish" /\ Head(queue).of = j => InQueue(j)
      <4>1. 1 \in DOMAIN queue /\ queue[1] = Head(queue)
        BY <2>1, Removed DEF Shape
      <4> QED BY <2>3, <4>1 DEF InQueue
    <3> QED BY <3>1, <3>2, <3>3
  <2>5. (\A j : Unsent(j) => Unsent(j)') /\ (\A j : Kept(j) => Kept(j)')
    BY <1>1, <2>4 DEF Unsent, Kept
  <2>6. PICK g : g = job'.of  OBVIOUS
  <2>7. job'.action = "publish" => ~InQueue(g)'
    BY <2>1, <2>4, <2>6
  <2>8. job'.action = "publish" => ~InQueue(job.of)'
    BY <2>6, <2>7 DEF InQueue
  <2>9. Distinct(queue')
    <3>1. [action |-> "delete", of |-> 0] \in Message  BY DEF Message
    <3>2. PICK m \in Message : m.action # "publish"
      BY <3>1
    <3> QED BY <2>1, <3>2, DistinctAfter DEF OnePlace
  <2> QED BY <1>1, <2>1, <2>5, <2>8, <2>9, Worked
<1>4. CASE InsertRow
  <2>1. /\ job.pc = "insert" /\ Insert(job.of) /\ job' = [job EXCEPT !.pc = "popularity"] /\ queue' = queue
    BY <1>4 DEF InsertRow, Work
  <2>2. job.action = "publish" /\ h \in 1 .. calls /\ Insert(h)
    BY <1>1, <1>2, <2>1 DEF Jobs, NoJob, Shape
  <2>3. job'.action = job.action /\ job'.of = job.of
    BY <1>1, <2>1 DEF Jobs, NoJob
  <2>4. \A j : /\ Rows(j)' # {} <=> Rows(j) # {} \/ j = h
               /\ (InHand(j)' <=> InHand(j)) /\ (InQueue(j)' <=> InQueue(j))
    BY <2>1, <2>2, <2>3, RowsAfter DEF InHand, InQueue
  <2>5. (\A j : Unsent(j) => Unsent(j)') /\ (\A j : Kept(j) => Kept(j)')
    BY <1>1, <1>2, <2>2, <2>4 DEF Unsent, Kept, InHand
  <2>6. ~InQueue(h)' /\ Rows(h)' # {}
    BY <1>2, <2>2, <2>4
  <2>7. ~InQueue(job.of)' /\ Rows(job.of)' # {}
    BY <1>2, <2>3, <2>6 DEF InQueue, Rows, Ids
  <2>8. Distinct(queue')
    BY <2>1 DEF OnePlace
  <2> QED BY <1>1, <2>5, <2>7, <2>8, Worked
<1>5. ASSUME UNCHANGED <<inserted, queue>>, job'.action = job.action, job'.of = job.of,
             job.action = "publish" => job.pc = "popularity"
      PROVE  OnePlace' /\ Written'
  <2>1. \A j : (Rows(j)' = Rows(j)) /\ (InHand(j)' <=> InHand(j)) /\ (InQueue(j)' <=> InQueue(j))
    BY <1>5 DEF Rows, Ids, InHand, InQueue
  <2>2. (\A j : Unsent(j) => Unsent(j)') /\ (\A j : Kept(j) => Kept(j)')
    BY <1>1, <2>1 DEF Unsent, Kept
  <2>3. job'.action = "publish" => ~InQueue(job.of)' /\ Rows(job.of)' # {}
    BY <1>5 DEF OnePlace, Written, InQueue, Rows, Ids
  <2>4. Distinct(queue')
    BY <1>5 DEF OnePlace
  <2> QED BY <1>1, <2>2, <2>3, <2>4, Worked
<1>6. CASE ChangePopularity \/ FindRow \/ RemoveRow
  <2>1. UNCHANGED <<inserted, queue>> /\ job'.action = job.action /\ job'.of = job.of
    BY <1>1, <1>6 DEF ChangePopularity, FindRow, RemoveRow, Work, table, Jobs, NoJob
  <2>2. job.action = "publish" => job.pc = "popularity"
    BY <1>1, <1>6 DEF ChangePopularity, FindRow, RemoveRow, Jobs, NoJob
  <2> QED BY <1>5, <2>1, <2>2
<1>7. CASE Ack
  <2>1. job.pc = "ack" /\ job' = NoJob /\ UNCHANGED <<inserted, queue>>
    BY <1>7 DEF Ack, table
  <2>2. \A j : /\ (Rows(j)' = Rows(j)) /\ (InQueue(j)' <=> InQueue(j)) /\ ~InHand(j)'
               /\ InHand(j) => Rows(j) # {}
    BY <2>1 DEF Rows, Ids, InHand, InQueue, NoJob, Written
  <2>3. (\A j : Unsent(j) => Unsent(j)') /\ (\A j : Kept(j) => Kept(j)')
    BY <1>1, <2>2 DEF Unsent, Kept
  <2>4. job'.action # "publish" /\ Distinct(queue')
    BY <2>1 DEF NoJob, OnePlace
  <2> QED BY <1>1, <2>3, <2>4, Worked
<1>8. CASE StepFails
  <2> DEFINE m == [action |-> job.action, of |-> job.of]
  <2>1. queue' = <<m>> \o queue /\ job' = NoJob /\ inserted' = inserted
    BY <1>8 DEF StepFails, table
  <2>2. m \in Message
    BY <1>1, <1>8 DEF StepFails, Jobs, NoJob, Message
  <2>3. \A j : InHand(j) <=> m = [action |-> "publish", of |-> j]
    BY DEF InHand
  <2>4. m.action = "publish" => ~InQueue(m.of)
    BY <1>2
  <2> HIDE DEF m
  <2>5. \A j : InQueue(j)' <=> InQueue(j) \/ InHand(j)
    BY <2>1, <2>2, <2>3, QueueAfterReturn
  <2>6. \A j : ~InHand(j)' /\ Rows(j)' = Rows(j)
    BY <2>1 DEF InHand, NoJob, Rows, Ids
  <2>7. (\A j : Unsent(j) => Unsent(j)') /\ (\A j : Kept(j) => Kept(j)')
    BY <1>1, <2>5, <2>6 DEF Unsent, Kept
  <2>8. job'.action # "publish" /\ Distinct(queue')
    BY <2>1, <2>2, <2>4, DistinctAfter DEF NoJob, OnePlace
  <2> QED BY <1>1, <2>7, <2>8, Worked
<1> QED BY <1>3, <1>4, <1>6, <1>7, <1>8 DEF Worker

LEMMA PlacesKept ==
    ASSUME Shape, OnePlace, Written, [Next]_vars
    PROVE  OnePlace' /\ Written'
<1>1. CASE Expire \/ UNCHANGED vars
  <2>1. UNCHANGED <<act, inserted, queue, job, lost, accepted>>
    BY <1>1 DEF Expire, vars, table, broker, history
  <2> QED BY <2>1 DEF OnePlace, Written, Owes, Later, Unsent, Kept, Rows, Ids, InHand, InQueue
<1> QED BY <1>1, BeginPlaces, RequestPlaces, WorkerPlaces DEF Next

-----------------------------------------------------------------------------
(* Accounts.                                                                 *)

LEMMA PopularityKept ==
    ASSUME Shape, PopularityAccounts, [Next]_vars
    PROVE  PopularityAccounts'
<1> USE DEF table, copies, broker, history
<1>1. popularity \in Nat /\ torn \in Nat /\ Len(inserted) \in Nat /\ job \in Jobs
  BY DEF Shape
<1>2. ASSUME UNCHANGED <<inserted, popularity, job, torn>> PROVE PopularityAccounts'
  BY <1>2 DEF PopularityAccounts
<1>3. CASE Expire \/ UNCHANGED vars \/ Deliver \/ FindRow \/ RemoveRow \/ Ack
  <2>1. UNCHANGED <<inserted, popularity, torn>>
    BY <1>3 DEF Expire, vars, Deliver, FindRow, RemoveRow, Ack
  <2>2. job'.pc = "popularity" <=> job.pc = "popularity"
    BY <1>1, <1>3 DEF Expire, vars, Deliver, FindRow, RemoveRow, Ack, Work, NoJob, Jobs
  <2> QED BY <2>1, <2>2 DEF PopularityAccounts
<1>4. CASE InsertRow
  <2>1. job.of \in 1 .. calls
    BY <1>1, <1>4 DEF InsertRow, Shape, Jobs, NoJob
  <2>2. Len(inserted') = Len(inserted) + 1
    BY <1>4, <2>1, Inserted DEF InsertRow
  <2>3. job.pc = "insert" /\ job'.pc = "popularity" /\ UNCHANGED <<popularity, torn>>
    BY <1>1, <1>4 DEF InsertRow, Work, Jobs, NoJob
  <2> QED BY <1>1, <2>2, <2>3 DEF PopularityAccounts
<1>5. CASE ChangePopularity
  <2>1. job.pc = "popularity" /\ job'.pc = "ack" /\ UNCHANGED <<inserted, torn>>
        /\ popularity' = popularity + 1
    BY <1>1, <1>5 DEF ChangePopularity, Work, Jobs, NoJob
  <2> QED BY <1>1, <2>1 DEF PopularityAccounts
<1>6. CASE StepFails
  <2>1. job'.pc = "idle" /\ UNCHANGED <<inserted, popularity>>
        /\ torn' = IF job.pc = "popularity" THEN torn + 1 ELSE torn
    BY <1>6 DEF StepFails, NoJob
  <2> QED BY <1>1, <2>1 DEF PopularityAccounts
<1>7. ASSUME NEW c \in Callers, WriteTx(c) PROVE PopularityAccounts'
  <2>1. act[c].of \in 1 .. calls
    BY <1>7 DEF WriteTx, Shape, Fits
  <2>2. CASE Insert(act[c].of) /\ popularity' = popularity + 1
    <3>1. Len(inserted') = Len(inserted) + 1 /\ UNCHANGED <<job, torn>>
      BY <1>7, <2>1, <2>2, Inserted DEF WriteTx
    <3> QED BY <1>1, <2>2, <3>1 DEF PopularityAccounts
  <2>3. CASE UNCHANGED table
    BY <1>2, <1>7, <2>3 DEF WriteTx
  <2> QED BY <1>7, <2>2, <2>3 DEF WriteTx
<1>8. ASSUME NEW c \in Callers, Request(c), ~WriteTx(c) PROVE PopularityAccounts'
  <2>1. UNCHANGED <<inserted, popularity, job, torn>>
    BY <1>8 DEF Request, SendEvent, SendHeat, BumpHeat, DeleteRow, Invalidate, Mention, ListReads, ListFills
  <2> QED BY <1>2, <2>1
<1>9. ASSUME NEW c \in Callers, BeginPublish(c) \/ BeginDelete(c) \/ BeginList(c)
      PROVE  PopularityAccounts'
  <2>1. UNCHANGED <<inserted, popularity, job, torn>>
    BY <1>9 DEF BeginPublish, BeginDelete, BeginList, Begin
  <2> QED BY <1>2, <2>1
<1> QED BY <1>3, <1>4, <1>5, <1>6, <1>7, <1>8, <1>9 DEF Next, Worker

LEMMA Sizes ==
    ASSUME NEW S, IsFiniteSet(S), NEW T, NEW k
    PROVE  /\ Cardinality(S) \in Nat
           /\ T \subseteq S => /\ IsFiniteSet(T) /\ Cardinality(T) \in Nat
                               /\ Cardinality(T) <= Cardinality(S)
           /\ T \subseteq S \cup {k} => /\ Cardinality(T) \in Nat
                                        /\ Cardinality(T) <= Cardinality(S) + 1
           /\ k \in S /\ T \subseteq S \ {k} => /\ Cardinality(T) \in Nat
                                                /\ Cardinality(T) <= Cardinality(S) - 1
           /\ k \notin S => Cardinality(S \cup {k}) = Cardinality(S) + 1
<1>1. Cardinality(S) \in Nat
  BY FS_CardinalityType
<1>2. ASSUME NEW U, IsFiniteSet(U), T \subseteq U
      PROVE  IsFiniteSet(T) /\ Cardinality(T) \in Nat /\ Cardinality(T) <= Cardinality(U)
  BY <1>2, FS_Subset, FS_CardinalityType
<1>3. /\ IsFiniteSet(S \cup {k})
      /\ k \notin S => Cardinality(S \cup {k}) = Cardinality(S) + 1
      /\ k \in S => S \cup {k} = S
  BY FS_AddElement
<1>4. T \subseteq S \cup {k} => /\ Cardinality(T) \in Nat
                                /\ Cardinality(T) <= Cardinality(S) + 1
  <2>1. Cardinality(S \cup {k}) <= Cardinality(S) + 1
    <3>1. PICK U : U = S \cup {k}  OBVIOUS
    <3>2. Cardinality(U) <= Cardinality(S) + 1
      <4>1. CASE U = S
        BY <1>1, <4>1
      <4>2. CASE k \notin S
        BY <1>1, <1>3, <3>1, <4>2
      <4> QED BY <1>3, <3>1, <4>1, <4>2
    <3> QED BY <3>1, <3>2
  <2>2. Cardinality(S \cup {k}) \in Nat
    BY <1>3, FS_CardinalityType
  <2> SUFFICES ASSUME T \subseteq S \cup {k}
               PROVE  Cardinality(T) \in Nat /\ Cardinality(T) <= Cardinality(S) + 1
    OBVIOUS
  <2>3. Cardinality(T) \in Nat /\ Cardinality(T) <= Cardinality(S \cup {k})
    BY <1>2, <1>3
  <2> QED BY <1>1, <2>1, <2>2, <2>3
<1>5. ASSUME k \in S, T \subseteq S \ {k}
      PROVE  Cardinality(T) \in Nat /\ Cardinality(T) <= Cardinality(S) - 1
  <2>1. IsFiniteSet(S \ {k}) /\ Cardinality(S \ {k}) = Cardinality(S) - 1
    BY <1>5, FS_RemoveElement
  <2> QED BY <1>2, <1>5, <2>1
<1> QED BY <1>1, <1>2, <1>3, <1>4, <1>5

LEMMA Finite ==
    ASSUME Shape
    PROVE  /\ IsFiniteSet(Calls) /\ Cardinality(Calls) \in Nat
           /\ IsFiniteSet(Again) /\ Cardinality(Again) \in Nat
           /\ Len(inserted) \in Nat /\ torn \in Nat /\ repeated \in Nat
           /\ \A k : Rows(k) # {} <=> k \in Calls
           /\ \A k : Rows(k) # {} => k \in 1 .. MaxCalls
<1>1. calls \in Nat /\ MaxCalls \in Nat /\ Calls \subseteq 1 .. calls /\ Again \subseteq 1 .. MaxCalls
  BY Outcomes, SMTT(30) DEF Shape, Calls, Again, Ids
<1>2. IsFiniteSet(1 .. calls) /\ IsFiniteSet(1 .. MaxCalls)
  BY <1>1, FS_Interval
<1>3. IsFiniteSet(Calls) /\ IsFiniteSet(Again)
  BY <1>1, <1>2, FS_Subset
<1>4. \A k : Rows(k) # {} <=> k \in Calls
  BY DEF Rows, Calls
<1>5. \A k \in 1 .. calls : k \in 1 .. MaxCalls
  BY <1>1 DEF Shape
<1>6. Cardinality(Calls) \in Nat /\ Cardinality(Again) \in Nat
  BY <1>3, FS_CardinalityType
<1>7. Len(inserted) \in Nat /\ torn \in Nat /\ repeated \in Nat
  BY DEF Shape
<1>8. \A k : Rows(k) # {} => k \in 1 .. MaxCalls
  BY <1>1, <1>4, <1>5
<1> QED BY <1>3, <1>4, <1>6, <1>7, <1>8

LEMMA Balance ==
    ASSUME NEW l \in Nat, NEW x \in Nat, NEW m \in Nat, NEW m1 \in Nat, NEW n \in Nat,
           NEW t \in Nat, NEW t1 \in Nat, NEW r \in Nat, NEW r1 \in Nat,
           l - x + m <= t + r, m1 <= m + n, t + r + n <= t1 + r1
    PROVE  l - x + m1 <= t1 + r1
  OBVIOUS

\* No row: the copies still to come may only become fewer, or are paid for.
LEMMA CopiesSame ==
    ASSUME Shape, Shape', Copies, inserted' = inserted,
           \/ Again' \subseteq Again /\ UNCHANGED <<torn, repeated>>
           \/ /\ \E k : Again' \subseteq Again \cup {k}
              /\ torn + repeated + 1 <= torn' + repeated'
    PROVE  Copies'
<1>1. /\ IsFiniteSet(Again) /\ Cardinality(Again) \in Nat
      /\ Len(inserted) \in Nat /\ torn \in Nat /\ repeated \in Nat /\ Cardinality(Calls) \in Nat
  BY Finite
<1>2. Calls' = Calls /\ Cardinality(Calls') = Cardinality(Calls)
  BY DEF Calls, Ids
<1>3. torn' \in Nat /\ repeated' \in Nat
  BY DEF Shape
<1>4. CASE Again' \subseteq Again /\ UNCHANGED <<torn, repeated>>
  <2>1. Cardinality(Again') \in Nat /\ Cardinality(Again') <= Cardinality(Again)
    BY <1>1, <1>4, Sizes
  <2> QED BY <1>1, <1>2, <1>4, <2>1 DEF Copies
<1>5. ASSUME NEW k, Again' \subseteq Again \cup {k}, torn + repeated + 1 <= torn' + repeated'
      PROVE  Copies'
  <2>1. Cardinality(Again') \in Nat /\ Cardinality(Again') <= Cardinality(Again) + 1
    BY <1>1, <1>5, Sizes
  <2> QED BY <1>1, <1>2, <1>3, <1>5, <2>1, Balance DEF Copies
<1> QED BY <1>4, <1>5

\* A row of the publication k: its first, or the copy that was to come.
LEMMA CopiesInsert ==
    ASSUME Shape, Shape', Copies, NEW k \in 1 .. calls, Insert(k),
           UNCHANGED <<torn, repeated>>,
           Again' \subseteq Again, Rows(k) # {} => k \in Again \ Again'
    PROVE  Copies'
<1>1. /\ IsFiniteSet(Again) /\ Cardinality(Again) \in Nat /\ IsFiniteSet(Calls)
      /\ Len(inserted) \in Nat /\ torn \in Nat /\ repeated \in Nat /\ Cardinality(Calls) \in Nat
      /\ Rows(k) # {} <=> k \in Calls
  BY Finite
<1>2. Len(inserted') = Len(inserted) + 1
  BY Inserted
<1>3. Calls' = Calls \cup {k}
  <2>1. /\ Ids' = Ids \cup {Len(inserted) + 1} /\ inserted'[Len(inserted) + 1] = k
        /\ \A i \in Ids : inserted'[i] = inserted[i]
    BY Inserted
  <2> QED BY <2>1 DEF Calls
<1>4. CASE k \in Calls
  <2>1. Cardinality(Calls') = Cardinality(Calls)
    <3>1. Calls' = Calls  BY <1>3, <1>4
    <3> QED BY <3>1
  <2>2. Cardinality(Again') <= Cardinality(Again) - 1 /\ Cardinality(Again') \in Nat
    <3>1. k \in Again /\ Again' \subseteq Again \ {k}
      BY <1>1, <1>4
    <3> QED BY <1>1, <3>1, Sizes
  <2> QED BY <1>1, <1>2, <2>1, <2>2 DEF Copies
<1>5. CASE k \notin Calls
  <2>1. Cardinality(Calls') = Cardinality(Calls) + 1
    BY <1>1, <1>3, <1>5, Sizes
  <2>2. Cardinality(Again') <= Cardinality(Again) /\ Cardinality(Again') \in Nat
    BY <1>1, Sizes
  <2> QED BY <1>1, <1>2, <2>1, <2>2 DEF Copies
<1> QED BY <1>4, <1>5

LEMMA CopiesKept ==
    ASSUME Shape, Shape', OnePlace, Written, Copies, [Next]_vars
    PROVE  Copies'
<1> USE DEF table, copies, broker, history
<1>1. /\ \A k : Rows(k) # {} => k \in 1 .. MaxCalls
      /\ \A k : Rows(k)' # {} => k \in 1 .. MaxCalls
      /\ \A k : k \in Again <=> Rows(k) # {} /\ (InQueue(k) \/ (InHand(k) /\ job.pc = "insert"))
      /\ \A k : k \in Again' <=> Rows(k)' # {} /\ (InQueue(k)' \/ (InHand(k)' /\ job'.pc = "insert"))
  <2>1. \A k : Rows(k) # {} => k \in 1 .. MaxCalls
    BY Finite
  <2>2. \A k : Rows(k)' # {} => k \in 1 .. MaxCalls
    <3>1. calls' \in 0 .. MaxCalls /\ MaxCalls \in Nat /\ inserted' \in Seq(1 .. calls')
      BY Outcomes DEF Shape
    <3>2. \A i \in Ids' : inserted'[i] \in 1 .. calls'
      BY <3>1 DEF Ids
    <3>3. \A k \in 1 .. calls' : k \in 1 .. MaxCalls
      BY <3>1
    <3> QED BY <3>2, <3>3 DEF Rows
  <2> QED BY <2>1, <2>2 DEF Again
<1>2. ASSUME UNCHANGED <<inserted, queue, torn, repeated>>,
             \A k : InHand(k)' /\ job'.pc = "insert" => InHand(k) /\ job.pc = "insert"
      PROVE  Copies'
  <2>1. \A k : Rows(k)' = Rows(k) /\ (InQueue(k)' <=> InQueue(k))
    BY <1>2 DEF Rows, Ids, InQueue
  <2>2. Again' \subseteq Again
    BY <1>1, <1>2, <2>1
  <2> QED BY <1>2, <2>2, CopiesSame
<1>3. CASE Expire \/ UNCHANGED vars \/ \E c \in Callers :
             \/ BeginPublish(c) \/ BeginDelete(c) \/ BeginList(c)
             \/ Request(c) /\ ~SendEvent(c) /\ ~WriteTx(c)
  <2>1. UNCHANGED <<inserted, queue, job, torn, repeated>>
    BY <1>3 DEF Expire, vars, BeginPublish, BeginDelete, BeginList, Begin, Request, SendHeat,
                BumpHeat, DeleteRow, Invalidate, Mention, ListReads, ListFills
  <2> QED BY <1>2, <2>1 DEF InHand
<1>4. ASSUME NEW c \in Callers, SendEvent(c) PROVE Copies'
  <2>1. PICK m : m = [action |-> act[c].kind, of |-> act[c].of]  OBVIOUS
  <2>2. act[c] \in Serving /\ Fits(act[c], calls, Ids) /\ act[c].pc = "event"
    BY <1>4 DEF Shape, SendEvent
  <2>3. m \in Message
    BY <2>1, <2>2 DEF Message, Serving, Fits
  <2>4. (queue' = queue \/ queue' = Append(queue, m)) /\ UNCHANGED <<inserted, job, torn, repeated>>
    BY <1>4, <2>1 DEF SendEvent
  <2>5. \A k : m = [action |-> "publish", of |-> k] => Rows(k) = {}
    <3> SUFFICES ASSUME NEW k, m = [action |-> "publish", of |-> k] PROVE Rows(k) = {}
      OBVIOUS
    <3>1. act[c].kind = "publish" /\ act[c].of = k
      BY <2>1
    <3>2. Owes(c)
      BY <2>2, <3>1 DEF Owes, Publishing, Fits
    <3> QED BY <3>1, <3>2 DEF OnePlace, Unsent
  <2>6. \A k : /\ Rows(k)' = Rows(k) /\ (InHand(k)' <=> InHand(k))
               /\ InQueue(k)' => InQueue(k) \/ Rows(k) = {}
    <3>1. CASE queue' = queue
      BY <2>4, <3>1 DEF Rows, Ids, InHand, InQueue
    <3>2. CASE queue' = Append(queue, m)
      <4>1. \A k : InQueue(k)' <=> InQueue(k) \/ m = [action |-> "publish", of |-> k]
        BY <2>3, <3>2, QueueAfterAppend
      <4>2. \A k : Rows(k)' = Rows(k) /\ (InHand(k)' <=> InHand(k))
        BY <2>4 DEF Rows, Ids, InHand
      <4> QED BY <2>5, <4>1, <4>2
    <3> QED BY <2>4, <3>1, <3>2
  <2>7. Again' \subseteq Again
    BY <1>1, <2>4, <2>6
  <2> QED BY <2>4, <2>7, CopiesSame
<1>5. ASSUME NEW c \in Callers, WriteTx(c) PROVE Copies'
  <2>1. PICK k : k = act[c].of  OBVIOUS
  <2>2. Owes(c) /\ k \in 1 .. calls
    BY <1>5, <2>1 DEF WriteTx, Shape, Fits, Owes
  <2>3. Unsent(k)
    BY <2>1, <2>2 DEF OnePlace
  <2>4. UNCHANGED <<queue, job, torn, repeated>>
    BY <1>5 DEF WriteTx
  <2>5. CASE Insert(act[c].of)
    <3>1. Insert(k)  BY <2>1, <2>5
    <3>2. \A j : /\ Rows(j)' # {} <=> Rows(j) # {} \/ j = k
                 /\ (InHand(j)' <=> InHand(j)) /\ (InQueue(j)' <=> InQueue(j))
      BY <2>2, <2>4, <3>1, RowsAfter DEF InHand, InQueue
    <3>3. Again' \subseteq Again /\ Rows(k) = {}
      BY <1>1, <2>3, <2>4, <3>2 DEF Unsent
    <3> QED BY <2>2, <2>4, <3>1, <3>3, CopiesInsert
  <2>6. CASE UNCHANGED table
    BY <1>2, <2>4, <2>6 DEF InHand
  <2> QED BY <1>5, <2>5, <2>6 DEF WriteTx
<1>6. CASE Deliver
  <2>1. /\ queue # <<>> /\ queue' = Tail(queue) /\ job = NoJob
        /\ job'.action = Head(queue).action /\ job'.of = Head(queue).of
        /\ UNCHANGED <<inserted, torn, repeated>>
    BY <1>6 DEF Deliver
  <2>2. Head(queue) \in Message /\ Head(queue) = queue[1] /\ 1 \in DOMAIN queue
    BY <2>1, Removed DEF Shape
  <2>3. \A k : InHand(k)' => InQueue(k)
    <3>1. \A k : InHand(k)' => Head(queue) = [action |-> "publish", of |-> k]
      BY <2>1, <2>2 DEF InHand, Message
    <3> QED BY <2>2, <3>1 DEF InQueue
  <2>4. \A k : (InQueue(k)' => InQueue(k)) /\ Rows(k)' = Rows(k)
    <3>1. \A k : InQueue(k)' => InQueue(k)
      BY <2>1, QueueAfterTail
    <3> QED BY <2>1, <3>1 DEF Rows, Ids
  <2>5. Again' \subseteq Again
    BY <1>1, <2>3, <2>4
  <2> QED BY <2>1, <2>5, CopiesSame
<1>7. CASE InsertRow
  <2>1. /\ job.pc = "insert" /\ Insert(job.of) /\ job' = [job EXCEPT !.pc = "popularity"]
        /\ UNCHANGED <<queue, torn, repeated>>
    BY <1>7 DEF InsertRow, Work
  <2>2. job \in Jobs  BY DEF Shape
  <2>3. PICK k : k = job.of  OBVIOUS
  <2>4. InHand(k) /\ k \in 1 .. calls /\ Insert(k) /\ ~InQueue(k)
    BY <2>1, <2>2, <2>3 DEF Jobs, NoJob, Shape, InHand, OnePlace
  <2>5. job'.pc # "insert"
    BY <2>1, <2>2 DEF Jobs, NoJob
  <2>6. \A j : /\ Rows(j)' # {} <=> Rows(j) # {} \/ j = k
               /\ (InQueue(j)' <=> InQueue(j))
    BY <2>1, <2>4, RowsAfter DEF InQueue
  <2>7. Again' \subseteq Again /\ (Rows(k) # {} => k \in Again \ Again')
    BY <1>1, <2>1, <2>4, <2>5, <2>6
  <2> QED BY <2>1, <2>4, <2>7, CopiesInsert
<1>8. CASE ChangePopularity \/ FindRow \/ RemoveRow \/ Ack
  <2>1. job \in Jobs  BY DEF Shape
  <2>2. UNCHANGED <<inserted, queue, torn, repeated>>
    BY <1>8 DEF ChangePopularity, FindRow, RemoveRow, Ack
  <2>3. job'.pc # "insert"
    BY <1>8, <2>1 DEF ChangePopularity, FindRow, RemoveRow, Ack, Work, NoJob, Jobs
  <2> QED BY <1>2, <2>2, <2>3
<1>9. CASE StepFails
  <2> DEFINE m == [action |-> job.action, of |-> job.of]
  <2>1. /\ queue' = <<m>> \o queue /\ job' = NoJob /\ inserted' = inserted /\ job # NoJob
        /\ torn' = IF job.pc = "popularity" THEN torn + 1 ELSE torn
        /\ repeated' = IF job.pc = "ack" /\ job.action = "publish" THEN repeated + 1 ELSE repeated
    BY <1>9 DEF StepFails
  <2>2. job \in Jobs /\ torn \in Nat /\ repeated \in Nat
    BY DEF Shape
  <2>3. m \in Message
    BY <2>1, <2>2 DEF Jobs, NoJob, Message
  <2>4. \A j : InHand(j) <=> m = [action |-> "publish", of |-> j]
    BY DEF InHand
  <2> HIDE DEF m
  <2>5. \A j : /\ InQueue(j)' <=> InQueue(j) \/ InHand(j)
               /\ ~InHand(j)' /\ Rows(j)' = Rows(j)
    <3>1. \A j : InQueue(j)' <=> InQueue(j) \/ InHand(j)
      BY <2>1, <2>3, <2>4, QueueAfterReturn
    <3>2. \A j : ~InHand(j)' /\ Rows(j)' = Rows(j)
      BY <2>1 DEF InHand, NoJob, Rows, Ids
    <3> QED BY <3>1, <3>2
  <2>6. PICK k : k = job.of  OBVIOUS
  <2>7. \A j : InHand(j) => j = k /\ job.action = "publish"
    BY <2>6 DEF InHand
  <2>8. CASE job.action = "publish" /\ job.pc \in {"popularity", "ack"}
    <3>1. Again' \subseteq Again \cup {k}
      BY <1>1, <2>5, <2>7
    <3>2. torn + repeated + 1 <= torn' + repeated'
      BY <2>1, <2>2, <2>8
    <3> QED BY <2>1, <3>1, <3>2, CopiesSame
  <2>9. CASE ~(job.action = "publish" /\ job.pc \in {"popularity", "ack"})
    <3>1. UNCHANGED <<torn, repeated>>
      BY <2>1, <2>2, <2>9 DEF Jobs, NoJob
    <3>2. \A j : InHand(j) => job.pc = "insert"
      BY <2>2, <2>7, <2>9 DEF Jobs, NoJob
    <3>3. Again' \subseteq Again
      BY <1>1, <2>5, <3>2
    <3> QED BY <2>1, <3>1, <3>3, CopiesSame
  <2> QED BY <2>8, <2>9
<1> QED BY <1>3, <1>4, <1>5, <1>6, <1>7, <1>8, <1>9 DEF Next, Worker

LEMMA IInvInit == Init => IInv
<1> SUFFICES ASSUME Init PROVE IInv
  OBVIOUS
<1>1. Shape /\ inserted = <<>> /\ queue = <<>> /\ accepted = {} /\ job = NoJob
      /\ popularity = 0 /\ torn = 0 /\ repeated = 0
  BY ShapeInit DEF Init
<1>2. \A c \in Callers : act[c] = Quiet
  BY DEF Init
<1>3. OnePlace
  BY <1>1, <1>2 DEF OnePlace, Owes, Quiet, Publishing, Distinct, NoJob
<1>4. Written
  BY <1>1, <1>2 DEF Written, Later, Quiet, Publishing, NoJob
<1>5. PopularityAccounts
  BY <1>1 DEF PopularityAccounts, NoJob
<1>6. Calls = {} /\ Again = {} /\ Len(inserted) = 0
  BY <1>1 DEF Calls, Again, Rows, Ids
<1>7. Copies
  BY <1>1, <1>6, FS_EmptySet DEF Copies
<1> QED BY <1>1, <1>3, <1>4, <1>5, <1>7 DEF IInv

LEMMA IInvInvariant == Spec => []IInv
<1>1. IInv /\ [Next]_vars => IInv'
  BY ShapeKept, PlacesKept, PopularityKept, CopiesKept DEF IInv
<1> QED BY <1>1, IInvInit, PTL DEF Spec

\* The popularity is the number of rows ever inserted, less the increments of
\* the delivery in hand and of the deliveries that ended before theirs.
THEOREM PopularityHolds == Spec => []PopularityAccounts
<1>1. IInv => PopularityAccounts
  BY DEF IInv
<1> QED BY <1>1, IInvInvariant, PTL

\* A comment whose request was answered with success has or had its row, or
\* its event is queued or in hand, unless the broker dropped the event.
THEOREM AcceptedKeptHolds == Spec => []AcceptedIsKept
<1>1. IInv => AcceptedIsKept
  BY DEF IInv, Written, Kept, InQueue, AcceptedIsKept
<1> QED BY <1>1, IInvInvariant, PTL

\* Each row beyond the first of a publication was left by a delivery that
\* ended after its insert and before its acknowledgement.
THEOREM CopiesExplained == Spec => []NoUnexplainedCopies
<1>1. IInv => NoUnexplainedCopies
  <2> SUFFICES ASSUME IInv PROVE NoUnexplainedCopies
    OBVIOUS
  <2>1. /\ Len(inserted) \in Nat /\ Cardinality(Calls) \in Nat /\ Cardinality(Again) \in Nat
        /\ torn \in Nat /\ repeated \in Nat
    BY Finite DEF IInv
  <2>2. Len(inserted) - Cardinality(Calls) <= torn + repeated
    BY <2>1 DEF IInv, Copies
  <2> QED BY <2>2 DEF NoUnexplainedCopies, Calls
<1> QED BY <1>1, IInvInvariant, PTL
=============================================================================
