--------------------------- MODULE MCMinimalDpdk ---------------------------
(* Three buffers, a ring of two and bursts of two. *)
EXTENDS MinimalDpdk
=============================================================================
