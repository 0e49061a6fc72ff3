------------------------------ MODULE MCFeeds ------------------------------
(***************************************************************************)
(* The feeds of FeedPages and the hot ranking of HotRank share no variable. *)
(* One run checks both, and each behaviour is about one of them, so that    *)
(* their states add up instead of multiplying.                              *)
(***************************************************************************)
EXTENDS FeedPages, HotRank, TLC

VARIABLE focus   \* what a behaviour is about

\* The last two videos share a millisecond, the second and third a second.
CreationTimes == (1 :> 1) @@ (2 :> 2) @@ (3 :> 4) @@ (4 :> 4)

\* What a behaviour about the ranking has: two readers and no faults, one
\* reader and one fault, or none and two faults.
Bounds == [pages   |-> [readers |-> 0, faults |-> 0],
           readers |-> [readers |-> 2, faults |-> 0],
           reader  |-> [readers |-> 1, faults |-> 1],
           heat    |-> [readers |-> 0, faults |-> 2]]

\* The feeds and the ranking are well typed.
TypeOK == PagesType /\ RankType

Readers == {c \in Clients : view[c].pc # "new" \/ view[c].pages > 0}
Bounded == Cardinality(Readers) <= Bounds[focus].readers

\* The feed by likes has three videos, two pages of them.
Short == kind = "likes" => stored # Videos

Init == /\ PagesInit /\ RankInit /\ focus \in DOMAIN Bounds
        /\ rankFaults = MaxRankFaults - Bounds[focus].faults
        /\ focus # "pages" => kind = "latest"

Next == /\ UNCHANGED focus
        /\ \/ focus = "pages" /\ PagesNext /\ Short' /\ UNCHANGED rankVars
           \/ focus # "pages" /\ RankNext /\ Bounded' /\ UNCHANGED pageVars

Spec == Init /\ [][Next]_<<pageVars, rankVars, focus>>

Symmetry == Permutations(Clients)
=============================================================================
