--------------------------- MODULE MCNotifications ---------------------------
(* Small instances of Notifications for TLC. *)
EXTENDS Notifications, TLC

Symmetry == Permutations(Streams)

\* Mentions, which are counted and not pushed, are explored beside events that
\* are counted and pushed, and not beside messages.
MentionsApart ==
    (\E i \in DOMAIN rows : rows[i].type = "mention") =>
        /\ \A i \in DOMAIN rows : rows[i].type # "message"
        /\ \A e \in DOMAIN arrived : arrived[e] \in {"like", "missed"}
=============================================================================
