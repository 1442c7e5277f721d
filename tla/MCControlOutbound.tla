-------------------------- MODULE MCControlOutbound --------------------------
(* Instances of ControlOutbound for TLC; the constants are in the cfgs.    *)
EXTENDS ControlOutbound
=============================================================================
