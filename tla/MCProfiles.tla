----------------------------- MODULE MCProfiles -----------------------------
(* A small instance of Profiles for TLC. *)
EXTENDS Profiles

CONSTANTS mac1, mac2, pw1, pw2

\* A client before this one has left a destination with "connect on launch"
\* and a password that is not bound to it.
LeftBehind ==
  {[is |-> "whole", dest |-> mac1, auto |-> TRUE,
    enc |-> [kind |-> "legacy", dest |-> NoDest, pw |-> pw1]]}
=============================================================================
