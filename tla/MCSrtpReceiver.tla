--------------------------- MODULE MCSrtpReceiver ---------------------------
(* Small instances of SrtpReceiver for TLC. *)
EXTENDS SrtpReceiver, TLC

\* Sources are interchangeable.
Symmetry == Permutations(Sources)
=============================================================================
