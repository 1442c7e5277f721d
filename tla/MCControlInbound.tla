-------------------------- MODULE MCControlInbound --------------------------
(* Small instances of ControlInbound for TLC. *)
EXTENDS ControlInbound
=============================================================================
