------------------------------- MODULE Relay -------------------------------
(***************************************************************************)
(* What is left of the transactional outbox's promise                       *)
(* (面试版_中间件与存储设计详解.md, lines 676-691) when the broker confirms   *)
(* nothing: an item that was committed is handed over at least once or has  *)
(* been lost on the way, nothing is handed over that was not committed, and *)
(* nothing is lost that was not committed.                                  *)
(***************************************************************************)
CONSTANT Items

VARIABLES
    committed,  \* items whose transaction has committed
    handed,     \* items that have been handed over at least once
    lost        \* items a copy of which was lost on the way

vars == <<committed, handed, lost>>

Init == /\ committed = {}
        /\ handed = {}
        /\ lost = {}

Commit(i) == /\ i \notin committed
             /\ committed' = committed \cup {i}
             /\ UNCHANGED <<handed, lost>>

\* Handing over the same item again is a stuttering step.
HandOver(i) == /\ i \in committed
               /\ handed' = handed \cup {i}
               /\ UNCHANGED <<committed, lost>>

\* Publishing without confirmation: the item's row goes, and perhaps nothing
\* comes.
Lose(i) == /\ i \in committed
           /\ lost' = lost \cup {i}
           /\ UNCHANGED <<committed, handed>>

Next == \E i \in Items : Commit(i) \/ HandOver(i) \/ Lose(i)

SafeSpec == Init /\ [][Next]_vars

\* An item of which nothing is known is dealt with.
Settle(i) == /\ i \notin handed \cup lost
             /\ HandOver(i) \/ Lose(i)

Spec == SafeSpec /\ \A i \in Items : WF_vars(Settle(i))
=============================================================================
