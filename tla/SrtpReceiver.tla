---------------------------- MODULE SrtpReceiver ----------------------------
(***************************************************************************)
(* The receiving side of the media stream (hp-media, srtp.rs): the packet  *)
(* index is rebuilt from 16 bits of sequence number and a guess at the     *)
(* rollover counter, replays are refused with a sliding window, and only   *)
(* then is the packet authenticated and handed on.                         *)
(*                                                                         *)
(* The network may lose, duplicate, reorder and damage datagrams.  A       *)
(* source numbers its packets as SrtpSender does.  Bytes and keys are left *)
(* out: authentication succeeds exactly when the receiver's guess is the   *)
(* rollover counter the packet was protected under.  The u128 `seen` is    *)
(* the set of the positions of its bits.                                   *)
(***************************************************************************)
EXTENDS Integers, FiniteSets

CONSTANTS
  Sources,     \* SSRCs
  Half,        \* half the sequence numbers (32768)
  Window,      \* width of the replay window (128)
  MaxRoc,      \* largest rollover counter (u32::MAX)
  MaxSources   \* receive states kept (32)

ASSUME SrtpAssumption ==
  /\ {Half, MaxSources} \subseteq Nat \ {0} /\ MaxRoc \in Nat
  /\ Window \in 1..Half

SeqSpace == 2 * Half
Sequence == 0..SeqSpace - 1
Ages     == 0..Window - 1

VARIABLES
  sent,     \* [Sources -> Nat], SrtpSender.index
  known,    \* the sources that have a ReceiveState
  highest,  \* [Sources -> Nat], ReceiveState.highest
  seen,     \* [Sources -> SUBSET Ages], ReceiveState.seen
  handed,   \* indexes handed on, per source (history)
  again     \* <<source, index>> handed on more than once (history)

vars == <<sent, known, highest, seen, handed, again>>

TypeOK ==
  /\ sent \in [Sources -> Nat]
  /\ known \subseteq Sources
  /\ highest \in [Sources -> Nat]
  /\ seen \in [Sources -> SUBSET Ages]
  /\ handed \in [Sources -> SUBSET Nat]
  /\ again \subseteq Sources \X Nat

Init ==
  /\ sent = [s \in Sources |-> 0]
  /\ known = {}
  /\ highest = [s \in Sources |-> 0]
  /\ seen = [s \in Sources |-> {}]
  /\ handed = [s \in Sources |-> {}]
  /\ again = {}

-----------------------------------------------------------------------------
(* Datagrams.  roc is the counter the authentication tag was computed with;  *)
(* -1 stands for every datagram no counter authenticates: damaged, too short *)
(* or too long, or with a header or padding that does not parse.             *)

Datagram(s, i) ==
  [src |-> s, seq |-> i % SeqSpace, roc |-> i \div SeqSpace]

Noise == [src : Sources, seq : Sequence, roc : {-1}]

\* SrtpSender::protect: an index is used once, and runs out with the counter.
Protect(s) ==
  /\ sent[s] < (MaxRoc + 1) * SeqSpace
  /\ sent' = [sent EXCEPT ![s] = @ + 1]
  /\ UNCHANGED <<known, highest, seen, handed, again>>

-----------------------------------------------------------------------------
(* SrtpReceiver::unprotect *)

\* The counter of the packet numbered seq, the one closest to index v.
Guess(v, seq) ==
  LET roc   == v \div SeqSpace
      delta == seq - (v % SeqSpace)
  IN IF delta < -Half THEN roc + 1
     ELSE IF delta > Half /\ roc > 0 THEN roc - 1
     ELSE roc

GuessFor(p) == IF p.src \in known THEN Guess(highest[p.src], p.seq) ELSE 0
IndexFor(p) == GuessFor(p) * SeqSpace + p.seq

\* Too old for the window, or marked in it.
Replayed(p) ==
  /\ p.src \in known
  /\ IndexFor(p) <= highest[p.src]
  /\ LET age == highest[p.src] - IndexFor(p)
     IN age >= Window \/ age \in seen[p.src]

\* Not a replay, authenticated under the guessed counter, and not one source
\* too many.
Accepts(p) ==
  /\ GuessFor(p) <= MaxRoc
  /\ ~Replayed(p)
  /\ GuessFor(p) = p.roc
  /\ p.src \in known \/ Cardinality(known) < MaxSources

\* a seen with more than 128 bits
SlideUncut(bits, delta) == {a + delta : a \in bits}

\* a window that starts anew each time it moves
SlideDropped(bits, delta) == IF delta = 0 THEN bits ELSE {}

\* the shift a release build performs without the test for delta >= 128
SlideWrapping(bits, delta) == {a + (delta % Window) : a \in bits} \cap Ages

\* seen << delta, and 0 when everything is shifted out.
Slide(bits, delta) ==
  IF delta >= Window THEN {} ELSE {a + delta : a \in bits} \cap Ages

\* The window moves up to index i of source s, if i is new, and marks it.
Mark(s, i) ==
  LET fresh == s \notin known
      top   == IF fresh \/ i > highest[s] THEN i ELSE highest[s]
      bits  == IF fresh THEN {} ELSE Slide(seen[s], top - highest[s])
  IN /\ known' = known \cup {s}
     /\ highest' = [highest EXCEPT ![s] = top]
     /\ seen' = [seen EXCEPT ![s] = bits \cup {top - i}]

Accept(p) ==
  LET s == p.src
      i == IndexFor(p)
  IN /\ Accepts(p)
     /\ Mark(s, i)
     /\ handed' = [handed EXCEPT ![s] = @ \cup {i}]
     /\ again' = IF i \in handed[s] THEN again \cup {<<s, i>>} ELSE again
     /\ UNCHANGED sent

\* moving the window before the packet is authenticated
RefuseMarking(p) ==
  /\ ~Accepts(p) /\ p.src \in known /\ IndexFor(p) > highest[p.src]
  /\ Mark(p.src, IndexFor(p))
  /\ UNCHANGED <<sent, handed, again>>

\* A datagram that is refused leaves no trace.
Refuse(p) == ~Accepts(p) /\ UNCHANGED vars

Receive(p) == Accept(p) \/ Refuse(p)

\* Whatever was sent may arrive, now or later, any number of times.
OnTheWire ==
  Noise \cup UNION {{Datagram(s, i) : i \in 0..sent[s] - 1} : s \in Sources}

Arrive == \E p \in OnTheWire : Receive(p)

Next == Arrive \/ \E s \in Sources : Protect(s)

Spec == Init /\ [][Next]_vars

-----------------------------------------------------------------------------
(* Safety *)

\* No packet is handed on twice, however often and in whatever order the
\* network repeats it, across wraps of the sequence number.
NoReplay == again = {}

\* What is handed on was sent: the index the payload is decrypted under is the
\* sender's, although only its low bits were transmitted.
IndexesGenuine == \A s \in Sources : handed[s] \subseteq 0..sent[s] - 1

\* Every packet handed on is one the sender sent, under its index, and is
\* handed on once.
OnceAsSent == NoReplay /\ IndexesGenuine

\* The window tells the truth about every index it covers, and nothing above
\* the highest was handed on.
WindowExact ==
  /\ \A s \in known :
       /\ highest[s] \in handed[s]
       /\ \A i \in handed[s] : i <= highest[s]
       /\ \A a \in Ages : a \in seen[s] <=> highest[s] - a \in handed[s]
  /\ \A s \in Sources \ known : handed[s] = {}

\* Neither the window nor the guess loses a packet: one that was sent, is no
\* older than the window and less than half the sequence numbers ahead, and
\* was not handed on yet, is accepted when it arrives.
InReachAccepted ==
  \A s \in known : \A i \in 0..sent[s] - 1 :
    highest[s] - i < Window /\ i - highest[s] < Half /\ i \notin handed[s]
      => Accepts(Datagram(s, i))
=============================================================================
