-------------------------- MODULE MCLikePipeline --------------------------
(* Instances of LikePipeline for TLC. *)
EXTENDS LikePipeline, TLC

Symmetry == Permutations(Users) \cup Permutations(Workers)
                \cup Permutations(Clients)

\* The broker takes every event of a behaviour, or none of them.
BrokerSteady ==
    \/ /\ \A c \in Clients : rpc[c] \in {"idle", "like", "heat"}
       /\ published = calls - Cardinality({c \in Clients : rpc[c] = "like"})
    \/ published = 0 /\ \A c \in Clients : sent[c] = {}
=============================================================================
