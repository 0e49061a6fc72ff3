---------------------------- MODULE MCFollowing ----------------------------
(* Small instances of Following for TLC. *)
EXTENDS Following, TLC

\* Many follows and failures while no page grows old, or few of them while
\* pages are cached, expire and are read again.
Apart == \/ now = 0 /\ feeds <= 2
         \/ calls <= 2 /\ failures <= 1
=============================================================================
