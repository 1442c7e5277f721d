--------------------------- MODULE MCInputSession ---------------------------
(* Small instances of InputSession for TLC. *)
EXTENDS InputSession
=============================================================================
