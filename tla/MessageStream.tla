---------------------------- MODULE MessageStream ----------------------------
(***************************************************************************)
(* What one direction of the encrypted control channel promises its user:  *)
(* the messages handed over arrive whole, once each and in order, as far   *)
(* as they arrive at all; after the channel has closed no more are taken;  *)
(* and the other side never takes the channel for broken.                  *)
(***************************************************************************)
EXTENDS Naturals, Sequences

CONSTANT Messages

VARIABLES
  sent,   \* messages taken from the caller
  got,    \* messages the other side has
  open,   \* the channel still takes messages
  inStep  \* the other side can tell where a message starts and which it is

Init == sent = <<>> /\ got = <<>> /\ open = TRUE /\ inStep = TRUE

Send ==
  /\ open
  /\ \E m \in Messages : sent' = Append(sent, m)
  /\ UNCHANGED <<got, open, inStep>>

Deliver ==
  /\ \E n \in Len(got) + 1..Len(sent) : got' = got \o SubSeq(sent, Len(got) + 1, n)
  /\ UNCHANGED <<sent, open, inStep>>

Close == open /\ open' = FALSE /\ UNCHANGED <<sent, got, inStep>>

Next == Send \/ Deliver \/ Close

Spec == Init /\ [][Next]_<<sent, got, open, inStep>>
=============================================================================
