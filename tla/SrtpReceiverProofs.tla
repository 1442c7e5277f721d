------------------------- MODULE SrtpReceiverProofs -------------------------
(***************************************************************************)
(* Proofs about SrtpReceiver, for every number of sources, window, size of *)
(* the sequence space and largest rollover counter.                        *)
(*                                                                         *)
(* The inductive invariant joins the parts of Inv: `seen` and `highest`     *)
(* say exactly what was handed on (WindowExact), which was sent            *)
(* (IndexesGenuine).  NoReplay is not inductive without WindowExact: only  *)
(* that makes an index that is refused by nobody one that is new.          *)
(***************************************************************************)
EXTENDS SrtpReceiver, TLAPS

-----------------------------------------------------------------------------
(* Arithmetic of the packet index                                           *)

\* An index is its rollover counter and its sequence number.
LEMMA Divides ==
  ASSUME NEW i \in Nat
  PROVE  /\ i = SeqSpace * (i \div SeqSpace) + (i % SeqSpace)
         /\ i % SeqSpace \in Sequence
         /\ i \div SeqSpace \in Nat
         /\ SeqSpace \in Nat \ {0}
<1>1. SeqSpace \in Nat \ {0}
  BY SrtpAssumption DEF SeqSpace
<1> QED
  BY <1>1 DEF Sequence

\* One turn of the sequence number is SeqSpace indexes, and so are two.
LEMMA Turns ==
  ASSUME NEW r \in Int
  PROVE  /\ SeqSpace * (r + 1) = SeqSpace * r + SeqSpace
         /\ \A q \in Int : q >= r + 2 => SeqSpace * q >= SeqSpace * r + 2 * SeqSpace
<1>1. SeqSpace \in Nat
  BY SrtpAssumption DEF SeqSpace
<1> QED
  BY <1>1

\* The guess is right for every index less than half the sequence numbers away
\* from the highest one, across a wrap in either direction.
LEMMA GuessRight ==
  ASSUME NEW v \in Nat, NEW i \in Nat, i - v < Half, v - i < Half
  PROVE  Guess(v, i % SeqSpace) = i \div SeqSpace
<1> DEFINE q == v \div SeqSpace
           r == v % SeqSpace
           c == i \div SeqSpace
           d == i % SeqSpace
<1>1. v = SeqSpace * q + r /\ r \in Sequence /\ q \in Nat
  BY Divides
<1>2. i = SeqSpace * c + d /\ d \in Sequence /\ c \in Nat
  BY Divides
<1>3. Half \in Nat \ {0} /\ SeqSpace = 2 * Half
  BY SrtpAssumption DEF SeqSpace
<1>4. Guess(v, d) = IF d - r < -Half THEN q + 1
                    ELSE IF d - r > Half /\ q > 0 THEN q - 1 ELSE q
  BY DEF Guess
<1> HIDE DEF q, r, c, d
<1>5. SeqSpace * (q + 1) = SeqSpace * q + SeqSpace
  BY <1>1, Turns
<1>6. c <= q + 1
  <2>1. c >= q + 2 => SeqSpace * c >= SeqSpace * q + 2 * SeqSpace
    BY <1>1, <1>2, Turns
  <2>2. SeqSpace * c \in Int /\ SeqSpace * q \in Int
    BY <1>1, <1>2, <1>3
  <2> QED
    BY <2>1, <2>2, <1>1, <1>2, <1>3 DEF Sequence
<1>7. q <= c + 1
  <2>1. q >= c + 2 => SeqSpace * q >= SeqSpace * c + 2 * SeqSpace
    BY <1>1, <1>2, Turns
  <2>2. SeqSpace * c \in Int /\ SeqSpace * q \in Int
    BY <1>1, <1>2, <1>3
  <2> QED
    BY <2>1, <2>2, <1>1, <1>2, <1>3 DEF Sequence
<1>8. SeqSpace * (c + 1) = SeqSpace * c + SeqSpace
  BY <1>2, Turns
<1>9. c = q + 1 => Guess(v, d) = c
  BY <1>1, <1>2, <1>3, <1>4, <1>5 DEF Sequence
<1>10. c = q => Guess(v, d) = c
  BY <1>1, <1>2, <1>3, <1>4 DEF Sequence
<1>11. q = c + 1 => Guess(v, d) = c
  BY <1>1, <1>2, <1>3, <1>4, <1>8 DEF Sequence
<1>12. Guess(v, d) = c
  BY <1>1, <1>2, <1>6, <1>7, <1>9, <1>10, <1>11
<1> QED
  BY <1>12 DEF c, d

-----------------------------------------------------------------------------
(* Datagrams                                                                *)

\* unprotect guesses a natural number, hence never a counter below zero.
LEMMA GuessType ==
  ASSUME NEW v \in Nat, NEW seq \in Sequence
  PROVE  Guess(v, seq) \in Nat
BY Divides DEF Guess

\* So the index it rebuilds for a datagram is a natural number as well.
LEMMA IndexType ==
  ASSUME TypeOK, NEW p, p.src \in Sources, p.seq \in Sequence
  PROVE  GuessFor(p) \in Nat /\ IndexFor(p) \in Nat
<1>1. GuessFor(p) \in Nat
  BY GuessType DEF GuessFor, TypeOK
<1>2. SeqSpace \in Nat
  BY SrtpAssumption DEF SeqSpace
<1> QED
  BY <1>1, <1>2 DEF IndexFor, Sequence

\* The fields of the datagram that carries the packet with index i.
LEMMA DatagramType ==
  ASSUME NEW s \in Sources, NEW i \in Nat
  PROVE  /\ Datagram(s, i).src = s
         /\ Datagram(s, i).seq = i % SeqSpace
         /\ Datagram(s, i).roc = i \div SeqSpace
         /\ Datagram(s, i).seq \in Sequence
BY Divides DEF Datagram

\* Nothing that no counter authenticates is accepted.
LEMMA NoiseRefused ==
  ASSUME TypeOK, NEW p \in Noise
  PROVE  ~Accepts(p)
<1>1. p.src \in Sources /\ p.seq \in Sequence /\ p.roc = -1
  BY DEF Noise
<1>2. GuessFor(p) \in Nat
  BY <1>1, IndexType
<1> QED
  BY <1>1, <1>2 DEF Accepts

\* What is accepted is accepted under its sender's index.
LEMMA AcceptedIndex ==
  ASSUME TypeOK, NEW s \in Sources, NEW i \in Nat, Accepts(Datagram(s, i))
  PROVE  IndexFor(Datagram(s, i)) = i
<1> DEFINE p == Datagram(s, i)
<1>1. p.seq = i % SeqSpace /\ GuessFor(p) = i \div SeqSpace
  BY DatagramType DEF Accepts
<1>2. IndexFor(p) = (i \div SeqSpace) * SeqSpace + (i % SeqSpace)
  BY <1>1 DEF IndexFor
<1>3. /\ i = SeqSpace * (i \div SeqSpace) + (i % SeqSpace)
      /\ i \div SeqSpace \in Nat /\ SeqSpace \in Nat
  BY Divides
<1>4. (i \div SeqSpace) * SeqSpace = SeqSpace * (i \div SeqSpace)
  BY <1>3
<1> QED
  BY <1>2, <1>3, <1>4

-----------------------------------------------------------------------------
(* The invariant                                                            *)

\* A sender's key is exhausted before its rollover counter overflows.
SentInRange == \A s \in Sources : sent[s] <= (MaxRoc + 1) * SeqSpace

\* The inductive invariant.
Inv == TypeOK /\ IndexesGenuine /\ WindowExact /\ NoReplay /\ SentInRange

\* An index that is accepted is new, and inside the window if it is old.
LEMMA AcceptedIsNew ==
  ASSUME Inv, NEW s \in Sources, NEW i \in 0..sent[s] - 1,
         Accepts(Datagram(s, i))
  PROVE  /\ i \in Nat /\ i \notin handed[s]
         /\ s \in known /\ i <= highest[s] =>
              highest[s] - i \in Ages /\ highest[s] - i \notin seen[s]
<1> DEFINE p == Datagram(s, i)
<1>1. i \in Nat /\ p.src = s /\ IndexFor(p) = i /\ ~Replayed(p)
  BY AcceptedIndex, DatagramType DEF Inv, TypeOK, Accepts
<1>2. ASSUME s \in known, i <= highest[s]
      PROVE  highest[s] - i \in Ages /\ highest[s] - i \notin seen[s]
  BY <1>1, <1>2, SrtpAssumption DEF Replayed, Inv, TypeOK, Ages
<1>3. i \notin handed[s]
  <2>1. CASE s \notin known
    BY <2>1 DEF Inv, WindowExact
  <2>2. CASE s \in known /\ i > highest[s]
    BY <2>2, <1>1 DEF Inv, WindowExact, TypeOK
  <2>3. CASE s \in known /\ i <= highest[s]
    <3>1. highest[s] - (highest[s] - i) = i
      BY <1>1 DEF Inv, TypeOK
    <3> QED
      BY <2>3, <1>2, <3>1 DEF Inv, WindowExact
  <2> QED
    BY <2>1, <2>2, <2>3, <1>1 DEF Inv, TypeOK
<1> QED
  BY <1>1, <1>2, <1>3

\* A new SrtpReceiver knows no source and has handed nothing on.
LEMMA InitInv == Init => Inv
<1> SUFFICES ASSUME Init PROVE Inv
  OBVIOUS
<1>1. TypeOK /\ IndexesGenuine /\ WindowExact /\ NoReplay
  BY SrtpAssumption DEF Init, TypeOK, IndexesGenuine, WindowExact, NoReplay, Ages
<1>2. SentInRange
  BY SrtpAssumption DEF Init, SentInRange, SeqSpace
<1> QED
  BY <1>1, <1>2 DEF Inv

\* protect only uses a further index.
LEMMA ProtectInv ==
  ASSUME Inv, NEW s \in Sources, Protect(s)
  PROVE  Inv'
<1>1. TypeOK'
  BY DEF Protect, Inv, TypeOK
<1>2. IndexesGenuine'
  BY DEF Protect, Inv, TypeOK, IndexesGenuine
<1>3. WindowExact' /\ NoReplay'
  BY DEF Protect, Inv, WindowExact, NoReplay
<1>4. SentInRange'
  <2>1. \A t \in Sources : sent'[t] = IF t = s THEN sent[s] + 1 ELSE sent[t]
    BY DEF Protect, Inv, TypeOK
  <2>2. (MaxRoc + 1) * SeqSpace \in Nat
    BY SrtpAssumption DEF SeqSpace
  <2>3. sent[s] < (MaxRoc + 1) * SeqSpace /\ sent[s] \in Nat
    BY DEF Protect, Inv, TypeOK
  <2> QED
    BY <2>1, <2>2, <2>3 DEF Inv, SentInRange
<1> QED
  BY <1>1, <1>2, <1>3, <1>4 DEF Inv

\* unprotect handing on a packet that was sent: the index is new, and the
\* window after it slid and was marked still says what was handed on.
LEMMA AcceptInv ==
  ASSUME Inv, NEW s \in Sources, NEW i \in 0..sent[s] - 1,
         Accept(Datagram(s, i))
  PROVE  Inv'
<1> DEFINE top  == IF s \notin known \/ i > highest[s] THEN i ELSE highest[s]
           bits == IF s \notin known THEN {} ELSE Slide(seen[s], top - highest[s])
<1>1. /\ i \in Nat /\ i \notin handed[s]
      /\ s \in known /\ i <= highest[s] => highest[s] - i \in Ages
  BY AcceptedIsNew DEF Accept
<1>2. IndexFor(Datagram(s, i)) = i
  BY <1>1, AcceptedIndex DEF Accept, Inv
<1>3. /\ known' = known \cup {s}
      /\ highest' = [highest EXCEPT ![s] = top]
      /\ seen' = [seen EXCEPT ![s] = bits \cup {top - i}]
      /\ handed' = [handed EXCEPT ![s] = @ \cup {i}]
      /\ again' = again
      /\ sent' = sent
  BY <1>1, <1>2, DatagramType DEF Accept, Mark
<1>4. TypeOK
  BY DEF Inv
<1>5. top \in Nat /\ top - i \in Ages /\ bits \subseteq Ages
  BY <1>1, <1>4, SrtpAssumption DEF TypeOK, Ages, Slide
<1>6. TypeOK'
  BY <1>1, <1>3, <1>4, <1>5 DEF TypeOK
<1>7. IndexesGenuine'
  BY <1>1, <1>3, <1>4 DEF IndexesGenuine, TypeOK, Inv
<1>8. \A t \in Sources \ {s} : /\ highest'[t] = highest[t] /\ seen'[t] = seen[t]
                              /\ handed'[t] = handed[t]
  BY <1>3, <1>4 DEF TypeOK
<1>9. highest'[s] = top /\ seen'[s] = bits \cup {top - i} /\ handed'[s] = handed[s] \cup {i}
  BY <1>3, <1>4 DEF TypeOK
<1>10. top \in handed'[s] /\ \A j \in handed'[s] : j <= top
  BY <1>1, <1>4, <1>9 DEF TypeOK, Inv, WindowExact
<1>11. ASSUME NEW a \in Ages
       PROVE  a \in bits <=> top - a \in handed[s]
  <2>1. a \in Nat /\ Window \in Nat /\ a < Window
    BY <1>11, SrtpAssumption DEF Ages
  <2>2. CASE s \notin known
    BY <2>2 DEF Inv, WindowExact
  <2>3. CASE s \in known /\ i <= highest[s]
    <3>1. top = highest[s] /\ top - highest[s] = 0
      BY <2>3, <1>1, <1>4 DEF TypeOK
    <3>2. bits = {b + 0 : b \in seen[s]} \cap Ages
      BY <2>1, <2>3, <3>1 DEF Slide
    <3>3. a \in bits <=> a \in seen[s]
      <4>1. \A b \in seen[s] : b \in Ages /\ b + 0 = b
        BY <1>4, SrtpAssumption DEF TypeOK, Ages
      <4> QED
        BY <3>2, <4>1
    <3> QED
      BY <2>3, <3>1, <3>3 DEF Inv, WindowExact
  <2>4. CASE s \in known /\ i > highest[s]
    <3> DEFINE delta == top - highest[s]
    <3>1. top = i /\ delta \in Nat /\ delta > 0 /\ highest[s] \in Nat
      BY <2>4, <1>1, <1>4 DEF TypeOK
    <3>2. CASE a < delta
      <4>1. top - a > highest[s]
        BY <2>1, <3>1, <3>2
      <4>2. top - a \notin handed[s]
        BY <2>4, <4>1, <1>4, <3>1, <2>1 DEF TypeOK, Inv, WindowExact
      <4>3. a \notin bits
        BY <2>4, <2>1, <3>1, <3>2, <1>4, SrtpAssumption DEF Slide, TypeOK, Ages
      <4> QED
        BY <4>2, <4>3
    <3>3. CASE a >= delta
      <4>1. a - delta \in Ages /\ delta < Window
        BY <2>1, <3>1, <3>3, SrtpAssumption DEF Ages
      <4>2. top - a = highest[s] - (a - delta)
        BY <2>1, <3>1
      <4>3. bits = {b + delta : b \in seen[s]} \cap Ages
        BY <2>4, <4>1, <2>1, <3>1 DEF Slide
      <4>4. a \in bits <=> a - delta \in seen[s]
        BY <4>3, <4>1, <2>1, <3>1, <1>4, SrtpAssumption DEF TypeOK, Ages
      <4> QED
        BY <2>4, <4>1, <4>2, <4>4 DEF Inv, WindowExact
    <3> QED
      BY <2>1, <3>1, <3>2, <3>3
  <2> QED
    BY <2>2, <2>3, <2>4, <1>1, <1>4 DEF TypeOK
<1>12. ASSUME NEW a \in Ages
       PROVE  a \in seen'[s] <=> top - a \in handed'[s]
  <2>1. a = top - i <=> top - a = i
    BY <1>1, <1>5, <1>12, SrtpAssumption DEF Ages
  <2> QED
    BY <2>1, <1>9, <1>11
<1>13. WindowExact'
  BY <1>3, <1>8, <1>9, <1>10, <1>12 DEF Inv, WindowExact
<1> QED
  BY <1>3, <1>6, <1>7, <1>13 DEF Inv, NoReplay, SentInRange

\* Every step: sending, accepting, refusing, and noise, which is refused.
LEMMA StepInv == Inv /\ [Next]_vars => Inv'
<1> SUFFICES ASSUME Inv, [Next]_vars PROVE Inv'
  OBVIOUS
<1>1. ASSUME NEW s \in Sources, Protect(s) PROVE Inv'
  BY <1>1, ProtectInv
<1>2. ASSUME NEW s \in Sources, NEW i \in 0..sent[s] - 1, Accept(Datagram(s, i))
      PROVE  Inv'
  BY <1>2, AcceptInv
<1>3. ASSUME NEW p \in Noise, Accept(p) PROVE Inv'
  BY <1>3, NoiseRefused DEF Inv, Accept
<1>5. ASSUME NEW p \in OnTheWire, Accept(p) PROVE Inv'
  BY <1>2, <1>3, <1>5 DEF OnTheWire
<1>4. CASE UNCHANGED vars
  BY <1>4 DEF vars, Inv, TypeOK, IndexesGenuine, WindowExact, NoReplay,
             SentInRange
<1> QED
  BY <1>1, <1>4, <1>5 DEF Next, Arrive, Receive, Refuse

-----------------------------------------------------------------------------
(* The theorems                                                             *)

\* unprotect keeps its state well formed: seen never has a bit beyond the
\* window, whatever arrives.
THEOREM TypeCorrect == Spec => []TypeOK
<1>1. Inv => TypeOK
  BY DEF Inv
<1> QED
  BY <1>1, InitInv, StepInv, PTL DEF Spec

\* open never hands the same packet on twice, and the index it decrypts under
\* is one the sender used.
THEOREM HandedOnceAsSent == Spec => []OnceAsSent
<1>1. Inv => OnceAsSent
  BY DEF Inv, OnceAsSent
<1> QED
  BY <1>1, InitInv, StepInv, PTL DEF Spec

\* seen and highest are exactly the recent history of the source.
THEOREM WindowIsHistory == Spec => []WindowExact
<1>1. Inv => WindowExact
  BY DEF Inv
<1> QED
  BY <1>1, InitInv, StepInv, PTL DEF Spec

\* A packet the window covers or is near is never lost to a wrong guess at the
\* rollover counter or to a wrong bit: sent and not handed on means accepted.
THEOREM InReachIsAccepted == Spec => []InReachAccepted
<1>1. ASSUME Inv PROVE InReachAccepted
  <2> SUFFICES ASSUME NEW s \in known, NEW i \in 0..sent[s] - 1,
                      highest[s] - i < Window, i - highest[s] < Half,
                      i \notin handed[s]
               PROVE  Accepts(Datagram(s, i))
    BY DEF InReachAccepted
  <2> DEFINE p == Datagram(s, i)
             c == i \div SeqSpace
  <2>1. /\ s \in Sources /\ i \in Nat /\ sent[s] \in Nat
        /\ highest[s] \in Nat /\ seen[s] \subseteq Ages
    BY <1>1 DEF Inv, TypeOK
  <2>2. GuessFor(p) = c
    BY <2>1, GuessRight, DatagramType, SrtpAssumption DEF GuessFor
  <2>3. c <= MaxRoc
    <3>1. /\ c \in Nat /\ SeqSpace \in Nat \ {0}
          /\ i >= SeqSpace * c /\ SeqSpace * c \in Nat
      <4>1. c \in Nat /\ SeqSpace \in Nat \ {0} /\ i % SeqSpace >= 0
        BY <2>1, Divides DEF Sequence
      <4>2. SeqSpace * c \in Nat
        BY <4>1
      <4> QED
        BY <4>1, <4>2, <2>1, Divides DEF Sequence
    <3>2. i < (MaxRoc + 1) * SeqSpace
      BY <1>1, <2>1, SrtpAssumption DEF Inv, SentInRange, SeqSpace
    <3> HIDE DEF c
    <3>3. c > MaxRoc => SeqSpace * c >= (MaxRoc + 1) * SeqSpace
      BY <3>1, SrtpAssumption
    <3>4. (MaxRoc + 1) * SeqSpace \in Nat /\ MaxRoc \in Nat
      BY <3>1, SrtpAssumption
    <3> QED
      BY <2>1, <3>1, <3>2, <3>3, <3>4
  <2>4. IndexFor(p) = i
    <3>1. /\ i = SeqSpace * c + (i % SeqSpace)
          /\ SeqSpace * c = c * SeqSpace
      BY <2>1, Divides
    <3> QED
      BY <2>1, <2>2, <3>1, DatagramType DEF IndexFor
  <2>5. ~Replayed(p)
    <3> SUFFICES ASSUME i <= highest[s]
                 PROVE  highest[s] - i \in Ages /\ highest[s] - i \notin seen[s]
      BY <2>1, <2>4, DatagramType, SrtpAssumption DEF Replayed, Ages
    <3>1. highest[s] - i \in Ages /\ highest[s] - (highest[s] - i) = i
      BY <2>1, SrtpAssumption DEF Ages
    <3> QED
      BY <1>1, <3>1 DEF Inv, WindowExact
  <2> QED
    BY <2>1, <2>2, <2>3, <2>5, DatagramType DEF Accepts
<1> QED
  BY <1>1, InitInv, StepInv, PTL DEF Spec
=============================================================================
