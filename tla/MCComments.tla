----------------------------- MODULE MCComments -----------------------------
(* Small instances of Comments for TLC. *)
EXTENDS Comments, TLC
=============================================================================
