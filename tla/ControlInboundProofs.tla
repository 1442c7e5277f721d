------------------------ MODULE ControlInboundProofs ------------------------
(***************************************************************************)
(* Proofs about ControlInbound, for every number of sizes, of reads and    *)
(* pieces, of units of a record and of messages: the types, that exactly   *)
(* one update request is under way, that the client follows the layout it  *)
(* was told of, and that file messages and updates each form a             *)
(* MessageStream.                                                          *)
(*                                                                         *)
(* The inductive invariant IInv is about what has not been acted on yet:   *)
(* all that the Mac has said is one sequence of units (all), cut into      *)
(* records (cut); the pieces on the wire and in the buffer, the bodies and *)
(* the unit in the decoder are consecutive parts of it (Line), so that     *)
(* what the client has got is the beginning of what was sent.  OneAsked    *)
(* and Tracking then speak of the updates it has not seen.                 *)
(***************************************************************************)
EXTENDS ControlInbound, SequenceTheorems, FiniteSetTheorems, TLAPS

IsUpdate(u) == u.m.k = "update"

\* Unit p is an update, or the first or the second unit of a file message.
WrittenAt(all, nf, nu, p) ==
  \/ /\ IsUpdate(all[p]) /\ all[p].part = 1 /\ all[p].m = sentUpdates[nu[p]]
     /\ nf[p] = nf[p - 1] /\ nu[p] = nu[p - 1] + 1
  \/ /\ IsFile(all[p]) /\ all[p].m = sentFiles[nf[p]]
     /\ p < Len(all) /\ all[p + 1] = [all[p] EXCEPT !.part = 2]
     /\ nf[p] = nf[p - 1] + 1 /\ nu[p] = nu[p - 1]
  \/ /\ all[p].m.k = "file" /\ all[p].part = 2 /\ p > 1 /\ IsFile(all[p - 1])
     /\ nf[p] = nf[p - 1] /\ nu[p] = nu[p - 1]

\* all is what the Mac has said, one message after the other; nf and nu count the
\* file messages and the updates that begin in its first p units.
Written(all, nf, nu) ==
  /\ nf[0] = 0 /\ nu[0] = 0
  /\ nf[Len(all)] = Len(sentFiles) /\ nu[Len(all)] = Len(sentUpdates)
  /\ \A p \in 0..Len(all) : nf[p] <= Len(sentFiles) /\ nu[p] <= Len(sentUpdates)
  /\ \A p \in 1..Len(all) : WrittenAt(all, nf, nu, p)

\* Record r has the units from cut[r] + 1 to cut[r + 1]; an update ends its record.
Records(all, cut) ==
  /\ cut[0] = 0
  /\ \A r \in 0..encSeq - 1 :
       /\ cut[r] < cut[r + 1]
       /\ \A p \in cut[r] + 1..cut[r + 1] - 1 : all[p].m.k = "file"
  /\ plain = SubSeq(all, cut[encSeq] + 1, Len(all))

\* Piece number x of all that were sent.
PieceOf(p, x, all, cut) ==
  /\ {p.seq, p.seq + 1} \subseteq DOMAIN cut /\ 2 * p.seq + p.half = x
  /\ p.body = SubSeq(all, cut[p.seq] + 1, cut[p.seq + 1])

\* No piece is missing between those taken and those under way, and one is damaged
\* only if the Mac did that.
Wire(all, cut) ==
  /\ "damaged" \in faults \/
       /\ \A j \in 1..Len(pending) : pending[j].intact
       /\ \A j \in 1..Len(net) : net[j].intact
  /\ \A j \in 1..Len(pending) : PieceOf(pending[j], 2 * decSeq + j, all, cut)
  /\ \A j \in 1..Len(net) : PieceOf(net[j], 2 * decSeq + Len(pending) + j, all, cut)
  /\ 2 * decSeq + Len(pending) + Len(net) = 2 * encSeq

Fed == decSeq - Len(bodies)     \* records that the decoder has had

\* The bodies are the last records decrypted.
Decrypted(all, cut) ==
  /\ Len(bodies) <= decSeq
  /\ \A i \in 1..Len(bodies) : bodies[i] = SubSeq(all, cut[Fed + i - 1] + 1, cut[Fed + i])

\* What was fed and is not acted on yet is one unit at most: an update in other,
\* or the start of a file message in the decoder.
Kept(all, e) ==
  IF pc = "inspect"
    THEN decoder = <<>> /\ e > 0 /\ other = <<all[e]>> /\ IsUpdate(all[e])
    ELSE /\ other = <<>>
         /\ decoder # <<>> => e > 0 /\ decoder = <<all[e]>> /\ IsFile(all[e]) /\ all[e].m.good

\* All before position c is acted on, and a message begins there.
Seen(all, nf, nu, c) ==
  /\ c \in Nat
  /\ c < Len(all) => all[c + 1].part = 1
  /\ gotFiles = SubSeq(sentFiles, 1, nf[c]) /\ gotUpdates = SubSeq(sentUpdates, 1, nu[c])

Line(all, nf, nu, cut) ==
  /\ all \in Seq(Units) /\ nf \in [0..Len(all) -> Nat] /\ nu \in [0..Len(all) -> Nat]
  /\ cut \in [0..encSeq -> 0..Len(all)]
  /\ Written(all, nf, nu) /\ Records(all, cut) /\ Wire(all, cut) /\ Decrypted(all, cut)
  /\ Kept(all, cut[Fed])
  /\ Seen(all, nf, nu, cut[Fed] - Len(decoder) - Len(other))

Flows == \E all, nf, nu, cut : Line(all, nf, nu, cut)

\* Between the polls less than a record waits, and each read adds MaxChunk at most.
Reading ==
  /\ pc = "read" => Len(pending) <= (Reads - reads) * MaxChunk + 1
  /\ pc \in {"idle", "feed", "inspect", "after"} => Len(pending) <= 1
  /\ pc \in {"idle", "read", "after"} => bodies = <<>>

\* What was sent; an update tells of the display, an answer of the stream.
Said ==
  /\ sentFiles \in Seq(FileMessages) /\ sentUpdates \in Seq(Updates)
  /\ \A i \in 1..Len(sentFiles) : sentFiles[i].good \/ "malformed" \in faults
  /\ \A i \in 1..Len(sentUpdates) :
       IF sentUpdates[i].complete THEN sentUpdates[i].canvas = None
                                  ELSE sentUpdates[i].layout = None

\* Requests in a queue, and complete updates the client has not acted on.
NoAsk(q) == \A i \in 1..Len(q) : q[i] = "offer"
OneAsk(q) ==
  \E i \in 1..Len(q) : q[i] # "offer" /\ \A j \in 1..Len(q) : q[j] # "offer" => j = i
Fresh(i) == i \in Len(gotUpdates) + 1..Len(sentUpdates) /\ sentUpdates[i].complete
NoFresh  == \A i \in 1..Len(sentUpdates) : ~Fresh(i)
OneFresh == \E i \in 1..Len(sentUpdates) :
              Fresh(i) /\ \A j \in 1..Len(sentUpdates) : Fresh(j) => j = i

OneAsked ==
  \/ OneAsk(toMac) /\ macRequest = "none" /\ NoFresh
  \/ NoAsk(toMac) /\ macRequest # "none" /\ NoFresh
  \/ NoAsk(toMac) /\ macRequest = "none" /\ OneFresh

\* Of what the client has not seen: no layout after i.
NoneAfter(i) == \A j \in 1..Len(sentUpdates) :
                  j > i /\ j > Len(gotUpdates) => sentUpdates[j].layout = None
\* The answer that will give connect its configuration.
First(i) == /\ sentUpdates[i].canvas \in Sizes
            /\ \A j \in Len(gotUpdates) + 1..i - 1 : sentUpdates[j].canvas \notin Sizes

\* The last layout on its way is the Mac's; if there is none, the one the client
\* offered for or will; if it has none yet, the one of the answer on its way.
Tracking ==
  /\ config = None => current = None /\ due = None
  /\ config # None => current # None
  /\ told =>
       /\ \A i \in Len(gotUpdates) + 1..Len(sentUpdates) :
            sentUpdates[i].layout # None /\ NoneAfter(i) => sentUpdates[i].layout = macLayout
       /\ config # None /\ NoneAfter(0) => macLayout = IF due = None THEN current ELSE due
       /\ config = None => \A i \in Len(gotUpdates) + 1..Len(sentUpdates) :
            First(i) /\ NoneAfter(i) => sentUpdates[i].canvas = macLayout

IInv ==
  /\ TypeOK /\ Said /\ BlamesRightly
  /\ pc # "over" => Flows /\ Reading /\ OneAsked /\ Tracking

-----------------------------------------------------------------------------
(* Numbers and sequences *)

\* A set of numbers has a least one.
LEMMA LeastNat ==
  ASSUME NEW S \in SUBSET Nat, S # {}
  PROVE  \E n \in S : \A m \in S : n <= m
  <1> DEFINE T == {1..n : n \in S}
  <1>1. T \subseteq FiniteSubsetsOf(Nat)
    <2> SUFFICES ASSUME NEW n \in S PROVE 1..n \in FiniteSubsetsOf(Nat)
      OBVIOUS
    <2>1. IsFiniteSet(1..n) BY FS_Interval
    <2> QED BY <2>1 DEF FiniteSubsetsOf
  <1>2. T # {} OBVIOUS
  <1>3. PICK x \in T : \A y \in T : ~ (<<y, x>> \in StrictSubsetOrdering(Nat))
    <2> HIDE DEF T
    <2> QED BY <1>1, <1>2, FS_StrictSubsetOrderingWellFounded, WFMin
  <1>4. PICK n \in S : x = 1..n BY <1>3
  <1>5. ASSUME NEW m \in S, m < n PROVE FALSE
    <2>1. 1..m \in T /\ 1..m \subseteq Nat /\ 1..n \subseteq Nat OBVIOUS
    <2>2. 1..m \subseteq 1..n BY <1>5
    <2>3. n \in 1..n /\ n \notin 1..m BY <1>5
    <2>4. <<1..m, 1..n>> \in StrictSubsetOrdering(Nat) BY <2>1, <2>2, <2>3 DEF StrictSubsetOrdering
    <2> QED BY <2>1, <2>4, <1>3, <1>4
  <1> QED BY <1>5

\* Induction, for sets.
LEMMA Induct ==
  ASSUME NEW S, 0 \in S, \A n \in Nat : n \in S => n + 1 \in S
  PROVE  Nat \subseteq S
  <1> SUFFICES ASSUME Nat \ S # {} PROVE FALSE OBVIOUS
  <1>1. PICK n \in Nat \ S : \A m \in Nat \ S : n <= m  BY LeastNat
  <1>2. n # 0 /\ n - 1 \in Nat /\ n - 1 < n BY <1>1
  <1>3. n - 1 \in S BY <1>1, <1>2
  <1> QED BY <1>1, <1>2, <1>3

\* A bounded set of numbers that is not empty has a greatest one.
LEMMA MaxIn ==
  ASSUME NEW m \in Nat, NEW S \in SUBSET (0..m), S # {}
  PROVE  Max(S) \in S /\ \A k \in S : k <= Max(S)
  <1> DEFINE D == {m - k : k \in S}
  <1>1. D \in SUBSET Nat OBVIOUS
  <1>2. D # {} OBVIOUS
  <1>3. PICK n \in D : \A j \in D : n <= j
    <2> HIDE DEF D
    <2> QED BY <1>1, <1>2, LeastNat
  <1>4. PICK x \in S : n = m - x BY <1>3
  <1>5. ASSUME NEW k \in S PROVE x >= k
    <2>1. m - k \in D OBVIOUS
    <2>2. n <= m - k BY <2>1, <1>3
    <2> QED BY <2>2, <1>4
  <1>6. S \subseteq Nat OBVIOUS
  <1> QED BY <1>5, <1>6 DEF Max

\* A sequence of length one is its element alone.
LEMMA Lone ==
  ASSUME NEW S, NEW s \in Seq(S), Len(s) = 1
  PROVE  s = <<s[1]>>
  <1>1. s[1] \in S OBVIOUS
  <1> DEFINE t == <<s[1]>>
  <1>2. t \in Seq(S) /\ Len(t) = 1 /\ t[1] = s[1] BY <1>1
  <1> HIDE DEF t
  <1>3. \A i \in 1..Len(s) : s[i] = t[i] BY <1>2
  <1>4. s = t BY <1>2, <1>3, SeqEqual
  <1> QED BY <1>4 DEF t

\* One element is the piece from it to itself.
LEMMA OneUnit ==
  ASSUME NEW S, NEW s \in Seq(S), NEW k \in 1..Len(s)
  PROVE  SubSeq(s, k, k) = <<s[k]>>
  <1> DEFINE t == SubSeq(s, k, k)
  <1>1. t \in Seq(S) /\ Len(t) = 1 /\ t[1] = s[k] OBVIOUS
  <1> HIDE DEF t
  <1>2. t = <<t[1]>> BY <1>1, Lone
  <1> QED BY <1>1, <1>2 DEF t

\* The elements of a part of a sequence, also of one that is empty.
LEMMA Part ==
  ASSUME NEW S, NEW s \in Seq(S), NEW a \in Nat, NEW b \in 0..Len(s), a <= b
  PROVE  /\ SubSeq(s, a + 1, b) \in Seq(S) /\ Len(SubSeq(s, a + 1, b)) = b - a
         /\ \A i \in 1..b - a : SubSeq(s, a + 1, b)[i] = s[a + i]
  <1>1. \A i \in a + 1..b : s[i] \in S
    OBVIOUS
  <1>2. a + 1 \in Int /\ b \in Int
    OBVIOUS
  <1>3. /\ SubSeq(s, a + 1, b) \in Seq(S)
        /\ Len(SubSeq(s, a + 1, b)) = IF a + 1 <= b THEN b - (a + 1) + 1 ELSE 0
        /\ \A i \in 1..b - (a + 1) + 1 : SubSeq(s, a + 1, b)[i] = s[a + 1 + i - 1]
    BY <1>1, <1>2, SubSeqProperties
  <1> QED BY <1>3

\* Two adjacent parts are one part.
LEMMA PartsJoin ==
  ASSUME NEW S, NEW s \in Seq(S), NEW a \in Nat, NEW b \in Nat, NEW c \in 0..Len(s),
         a <= b, b <= c
  PROVE  SubSeq(s, a + 1, b) \o SubSeq(s, b + 1, c) = SubSeq(s, a + 1, c)
  <1>1. a + 1 \in 1..Len(s) + 1 /\ b \in (a + 1) - 1..Len(s) /\ c \in b..Len(s)
    OBVIOUS
  <1> QED BY <1>1, ConcatAdjacentSubSeq

\* A part of a part.
LEMMA PartOfPart ==
  ASSUME NEW S, NEW s \in Seq(S), NEW a \in Nat, NEW b \in 0..Len(s), a <= b,
         NEW m \in Nat, NEW n \in 0..b - a, m <= n
  PROVE  SubSeq(SubSeq(s, a + 1, b), m + 1, n) = SubSeq(s, a + m + 1, a + n)
  <1> DEFINE t == SubSeq(s, a + 1, b)
  <1>1. t \in Seq(S) /\ Len(t) = b - a /\ \A i \in 1..b - a : t[i] = s[a + i]
    BY Part
  <1> HIDE DEF t
  <1>2. /\ SubSeq(t, m + 1, n) \in Seq(S) /\ Len(SubSeq(t, m + 1, n)) = n - m
        /\ \A i \in 1..n - m : SubSeq(t, m + 1, n)[i] = t[m + i]
    BY <1>1, Part
  <1>3. /\ SubSeq(s, (a + m) + 1, a + n) \in Seq(S)
        /\ Len(SubSeq(s, (a + m) + 1, a + n)) = (a + n) - (a + m)
        /\ \A i \in 1..(a + n) - (a + m) : SubSeq(s, (a + m) + 1, a + n)[i] = s[(a + m) + i]
    <2>1. a + m \in Nat /\ a + n \in 0..Len(s) /\ a + m <= a + n
      OBVIOUS
    <2> QED BY <2>1, Part
  <1> DEFINE u == SubSeq(t, m + 1, n)
             v == SubSeq(s, (a + m) + 1, a + n)
  <1>4. u \in Seq(S) /\ v \in Seq(S) /\ Len(u) = n - m /\ Len(v) = n - m
    BY <1>2, <1>3
  <1>5. \A i \in 1..n - m : u[i] = v[i]
    BY <1>1, <1>2, <1>3
  <1> HIDE DEF u, v
  <1>6. u = v
    BY <1>4, <1>5, SeqEqual
  <1> QED BY <1>6 DEF t, u, v

\* The elements of a sequence with another behind it.
LEMMA Joined ==
  ASSUME NEW S, NEW s \in Seq(S), NEW t \in Seq(S)
  PROVE  /\ s \o t \in Seq(S) /\ Len(s \o t) = Len(s) + Len(t)
         /\ \A i \in 1..Len(s) : (s \o t)[i] = s[i]
         /\ \A i \in 1..Len(t) : (s \o t)[Len(s) + i] = t[i]
  BY ConcatProperties

\* A part is the same with more behind it.
LEMMA PartKept ==
  ASSUME NEW S, NEW s \in Seq(S), NEW t \in Seq(S), NEW a \in Nat, NEW b \in 0..Len(s), a <= b
  PROVE  SubSeq(s \o t, a + 1, b) = SubSeq(s, a + 1, b)
  <1> DEFINE u == SubSeq(s \o t, a + 1, b)
             v == SubSeq(s, a + 1, b)
  <1>1. /\ s \o t \in Seq(S) /\ Len(s \o t) = Len(s) + Len(t)
        /\ \A i \in 1..Len(s) : (s \o t)[i] = s[i]
    BY Joined
  <1>2. /\ u \in Seq(S) /\ Len(u) = b - a
        /\ \A i \in 1..b - a : u[i] = (s \o t)[a + i]
    <2>1. b \in 0..Len(s \o t)
      BY <1>1
    <2> QED BY <1>1, <2>1, Part
  <1>3. /\ v \in Seq(S) /\ Len(v) = b - a
        /\ \A i \in 1..b - a : v[i] = s[a + i]
    BY Part
  <1> HIDE DEF u, v
  <1>4. \A i \in 1..b - a : u[i] = v[i]
    BY <1>1, <1>2, <1>3
  <1>5. Len(u) = Len(v) /\ \A i \in 1..Len(u) : u[i] = v[i]
    BY <1>2, <1>3, <1>4
  <1>6. u = v
    BY <1>2, <1>3, <1>5, SeqEqual
  <1> QED BY <1>6 DEF u, v

\* The rest of a sequence, with more behind it.
LEMMA RestJoined ==
  ASSUME NEW S, NEW s \in Seq(S), NEW t \in Seq(S), NEW a \in 0..Len(s)
  PROVE  SubSeq(s \o t, a + 1, Len(s \o t)) = SubSeq(s, a + 1, Len(s)) \o t
  <1> DEFINE u == SubSeq(s, a + 1, Len(s))
             v == SubSeq(s \o t, a + 1, Len(s \o t))
  <1>1. /\ s \o t \in Seq(S) /\ Len(s \o t) = Len(s) + Len(t)
        /\ \A i \in 1..Len(s) : (s \o t)[i] = s[i]
        /\ \A i \in 1..Len(t) : (s \o t)[Len(s) + i] = t[i]
    BY Joined
  <1>2. u \in Seq(S) /\ Len(u) = Len(s) - a /\ \A i \in 1..Len(s) - a : u[i] = s[a + i]
    BY Part
  <1>3. /\ v \in Seq(S) /\ Len(v) = Len(s) + Len(t) - a
        /\ \A i \in 1..Len(s) + Len(t) - a : v[i] = (s \o t)[a + i]
    <2>1. a \in Nat /\ Len(s \o t) \in 0..Len(s \o t) /\ a <= Len(s \o t)
      BY <1>1
    <2> QED BY <1>1, <2>1, Part
  <1> HIDE DEF u, v
  <1>4. /\ u \o t \in Seq(S) /\ Len(u \o t) = Len(u) + Len(t)
        /\ \A i \in 1..Len(u) : (u \o t)[i] = u[i]
        /\ \A i \in 1..Len(t) : (u \o t)[Len(u) + i] = t[i]
    <2>1. u \in Seq(S) /\ t \in Seq(S)
      BY <1>2
    <2> QED BY <2>1, Joined
  <1>5. ASSUME NEW i \in 1..Len(v) PROVE v[i] = (u \o t)[i]
    <2>1. CASE i <= Len(u)
      BY <2>1, <1>1, <1>2, <1>3, <1>4
    <2>2. CASE i > Len(u)
      <3>1. i - Len(u) \in 1..Len(t) /\ Len(u) + (i - Len(u)) = i /\ a + i = Len(s) + (i - Len(u))
        BY <2>2, <1>2, <1>3
      <3>2. (u \o t)[i] = t[i - Len(u)] /\ (s \o t)[a + i] = t[i - Len(u)]
        BY <3>1, <1>1, <1>4
      <3> QED BY <3>2, <1>3
    <2> QED BY <2>1, <2>2, <1>2, <1>3
  <1>6. v = u \o t
    <2>1. Len(v) = Len(u \o t)
      BY <1>2, <1>3, <1>4
    <2> QED BY <2>1, <1>3, <1>4, <1>5, SeqEqual
  <1> QED BY <1>6 DEF u, v

-----------------------------------------------------------------------------
(* The decoder *)

Pairs(us) == {k \in 0..Len(us) \div 2 :
                \A i \in 1..k : IsFile(us[2 * i - 1]) /\ us[2 * i - 1].m.good}

\* d is what the decoder makes of us, with n messages.
DecodedAs(us, d, n) ==
  /\ n \in Nat /\ 2 * n <= Len(us)
  /\ \A i \in 1..n : IsFile(us[2 * i - 1]) /\ us[2 * i - 1].m.good
  /\ 2 * n + 2 <= Len(us) => ~(IsFile(us[2 * n + 1]) /\ us[2 * n + 1].m.good)
  /\ d.messages = [i \in 1..n |-> us[2 * i - 1].m]
  /\ d.sound <=> \A i \in 1..n : us[2 * i] = [us[2 * i - 1] EXCEPT !.part = 2]
  /\ d.failed <=> 2 * n < Len(us) /\ Malformed(us[2 * n + 1])
  /\ 2 * n = Len(us) => d.pending = <<>> /\ d.other = <<>>
  /\ 2 * n < Len(us) /\ IsFile(us[2 * n + 1]) =>
       d.pending = SubSeq(us, 2 * n + 1, Len(us)) /\ d.other = <<>>
  /\ 2 * n < Len(us) /\ ~IsFile(us[2 * n + 1]) =>
       d.pending = <<>> /\ d.other = SubSeq(us, 2 * n + 1, Len(us))

\* The decoder takes as many messages as there are whole ones at the front.
LEMMA DecoderTakes ==
  ASSUME NEW us \in Seq(Units)
  PROVE  \E n \in Nat : DecodedAs(us, Decoded(us), n)
  <1> DEFINE m == Len(us) \div 2
             n == Max(Pairs(us))
             rest == SubSeq(us, 2 * n + 1, Len(us))
             d == Decoded(us)
  <1>1. m \in Nat /\ 2 * m <= Len(us) /\ Len(us) <= 2 * m + 1 /\ Len(us) \in Nat
    OBVIOUS
  <1>2. Pairs(us) \in SUBSET (0..m) /\ 0 \in Pairs(us)
    <2> HIDE DEF m
    <2>1. 0 \in 0..m /\ \A i \in 1..0 : IsFile(us[2 * i - 1]) /\ us[2 * i - 1].m.good
      BY <1>1
    <2> USE DEF m
    <2>2. 0 \in Pairs(us) BY <2>1 DEF Pairs
    <2> QED BY <2>2 DEF Pairs
  <1>3. n \in Pairs(us) /\ \A k \in Pairs(us) : k <= n
    <2> HIDE DEF m
    <2> QED BY <1>1, <1>2, MaxIn
  <1>4. n \in 0..m /\ \A i \in 1..n : IsFile(us[2 * i - 1]) /\ us[2 * i - 1].m.good
    BY <1>3 DEF Pairs
  <1>5. d = [messages |-> [i \in 1..n |-> us[2 * i - 1].m],
             sound |-> \A i \in 1..n : us[2 * i] = [us[2 * i - 1] EXCEPT !.part = 2],
             failed |-> rest # <<>> /\ Malformed(Head(rest)),
             pending |-> IF rest # <<>> /\ IsFile(Head(rest)) THEN rest ELSE <<>>,
             other |-> IF rest # <<>> /\ ~IsFile(Head(rest)) THEN rest ELSE <<>>]
    BY DEF Decoded, Pairs
  <1> HIDE DEF m, n, d
  <1>6. n \in Nat /\ 2 * n <= Len(us)
    BY <1>1, <1>4
  <1>7. rest \in Seq(Units) /\ Len(rest) = Len(us) - 2 * n
        /\ \A i \in 1..Len(us) - 2 * n : rest[i] = us[2 * n + i]
    <2>1. 2 * n \in Nat /\ Len(us) \in 0..Len(us) BY <1>1, <1>6
    <2> QED BY <1>6, <2>1, Part
  <1>8. /\ 2 * n = Len(us) => rest = <<>>
        /\ 2 * n < Len(us) => rest # <<>> /\ Head(rest) = us[2 * n + 1]
    <2>1. 1 \in 1..Len(us) - 2 * n \/ 2 * n = Len(us) BY <1>1, <1>6
    <2> HIDE DEF rest
    <2> QED BY <1>6, <1>7, <2>1
  <1>9. 2 * n + 2 <= Len(us) => ~(IsFile(us[2 * n + 1]) /\ us[2 * n + 1].m.good)
    <2> SUFFICES ASSUME 2 * n + 2 <= Len(us), IsFile(us[2 * n + 1]), us[2 * n + 1].m.good
                 PROVE  FALSE
      OBVIOUS
    <2>1. n + 1 \in 0..m
      BY <1>1, <1>6
    <2>2. \A i \in 1..n + 1 : IsFile(us[2 * i - 1]) /\ us[2 * i - 1].m.good
      <3> SUFFICES ASSUME NEW i \in 1..n + 1
                   PROVE  IsFile(us[2 * i - 1]) /\ us[2 * i - 1].m.good
        OBVIOUS
      <3>1. CASE i = n + 1
        <4>1. 2 * i - 1 = 2 * n + 1 BY <3>1, <1>6
        <4> QED BY <4>1
      <3>2. CASE i # n + 1
        <4>1. i \in 1..n BY <3>2, <1>6
        <4> QED BY <4>1, <1>4
      <3> QED BY <3>1, <3>2
    <2>3. n + 1 \in Pairs(us)
      BY <2>1, <2>2 DEF Pairs, m
    <2> QED BY <2>3, <1>3, <1>6
  <1>10. d.messages = [i \in 1..n |-> us[2 * i - 1].m]
    BY <1>5
  <1>11. d.sound <=> \A i \in 1..n : us[2 * i] = [us[2 * i - 1] EXCEPT !.part = 2]
    BY <1>5
  <1> HIDE DEF rest
  <1>12. d.failed <=> 2 * n < Len(us) /\ Malformed(us[2 * n + 1])
    <2>1. d.failed <=> rest # <<>> /\ Malformed(Head(rest)) BY <1>5
    <2>2. 2 * n = Len(us) \/ 2 * n < Len(us) BY <1>6, <1>1
    <2> QED BY <1>8, <2>1, <2>2, <1>1
  <1>13. d.pending = (IF rest # <<>> /\ IsFile(Head(rest)) THEN rest ELSE <<>>)
         /\ d.other = (IF rest # <<>> /\ ~IsFile(Head(rest)) THEN rest ELSE <<>>)
    BY <1>5
  <1>14. DecodedAs(us, d, n)
    <2>1. 2 * n = Len(us) => d.pending = <<>> /\ d.other = <<>>
      BY <1>8, <1>13
    <2>2. 2 * n < Len(us) /\ IsFile(us[2 * n + 1]) => d.pending = rest /\ d.other = <<>>
      BY <1>8, <1>13
    <2>3. 2 * n < Len(us) /\ ~IsFile(us[2 * n + 1]) => d.pending = <<>> /\ d.other = rest
      BY <1>8, <1>13
    <2> QED BY <1>4, <1>6, <1>9, <1>10, <1>11, <1>12, <2>1, <2>2, <2>3, Zenon DEF DecodedAs, rest
  <1> QED BY <1>6, <1>14 DEF d

\* What the decoder makes is well typed, and it keeps one unit at most.
LEMMA DecodedTyped ==
  ASSUME NEW us \in Seq(Units), NEW d, NEW n, DecodedAs(us, d, n), ~d.failed
  PROVE  /\ d.messages \in Seq(FileMessages) /\ Len(d.messages) = n
         /\ d.pending \in Seq(Units) /\ Len(d.pending) <= 1
         /\ d.other \in Seq(Units)
  <1>1. n \in Nat /\ 2 * n <= Len(us) /\ Len(us) \in Nat
    BY DEF DecodedAs
  <1>2. \A i \in 1..n : us[2 * i - 1].m \in FileMessages
    <2> SUFFICES ASSUME NEW i \in 1..n PROVE us[2 * i - 1].m \in FileMessages
      OBVIOUS
    <2>1. 2 * i - 1 \in 1..Len(us)
      BY <1>1
    <2>2. us[2 * i - 1] \in Units
      BY <2>1
    <2>3. us[2 * i - 1].m \in Messages /\ us[2 * i - 1].m.k = "file"
      BY <2>2 DEF DecodedAs, IsFile, Units
    <2> QED BY <2>3 DEF Messages, Updates
  <1>3. d.messages \in Seq(FileMessages) /\ Len(d.messages) = n
    <2> DEFINE f == [i \in 1..n |-> us[2 * i - 1].m]
    <2>1. f \in [1..n -> FileMessages]
      BY <1>2
    <2>2. d.messages = f
      BY DEF DecodedAs
    <2> HIDE DEF f
    <2>3. f \in Seq(FileMessages) /\ Len(f) = n
      BY <1>1, <2>1
    <2> QED BY <2>2, <2>3
  <1> DEFINE rest == SubSeq(us, 2 * n + 1, Len(us))
  <1>4. rest \in Seq(Units) /\ Len(rest) = Len(us) - 2 * n
    <2>1. 2 * n \in Nat /\ Len(us) \in 0..Len(us) BY <1>1
    <2> QED BY <1>1, <2>1, Part
  <1> HIDE DEF rest
  <1>5. d.pending \in {<<>>, rest} /\ d.other \in {<<>>, rest}
    <2>1. 2 * n = Len(us) \/ 2 * n < Len(us) BY <1>1
    <2> QED BY <2>1 DEF DecodedAs, rest
  <1>6. Len(d.pending) <= 1
    <2>1. CASE 2 * n < Len(us) /\ IsFile(us[2 * n + 1])
      <3>1. us[2 * n + 1].m.good
        BY <2>1 DEF DecodedAs, Malformed
      <3>2. ~(2 * n + 2 <= Len(us))
        BY <2>1, <3>1 DEF DecodedAs
      <3> QED BY <1>1, <1>4, <1>5, <3>2
    <2>2. CASE ~(2 * n < Len(us) /\ IsFile(us[2 * n + 1]))
      <3>1. 2 * n = Len(us) \/ 2 * n < Len(us) BY <1>1
      <3>2. d.pending = <<>>
        BY <2>2, <3>1 DEF DecodedAs
      <3> QED BY <3>2
    <2> QED BY <2>1, <2>2
  <1>7. <<>> \in Seq(Units)
    OBVIOUS
  <1> QED BY <1>3, <1>4, <1>5, <1>6, <1>7

-----------------------------------------------------------------------------
(* Types *)

\* What the assumption says of each constant.
LEMMA Constants ==
  /\ Reads \in Nat /\ Reads > 0 /\ MaxChunk \in Nat /\ MaxChunk > 0
  /\ FileBacklog \in Nat /\ FileBacklog > 0 /\ Deadline \in Nat /\ Deadline > 0
  /\ MaxUnits \in Nat /\ MaxUnits > 0
  /\ Stabilise \in Nat /\ OfferAgain \in Nat /\ MaxRequeries \in Nat /\ MaxNet \in Nat
  /\ MaxFiles \in Nat
  /\ PendingLimit \in Nat /\ Reads * MaxChunk + 1 <= PendingLimit
  /\ Never = Stabilise + 1
  /\ FirstSize \in Sizes /\ None \notin Sizes /\ Unusable \notin Sizes /\ Refused \notin Sizes
  BY ConstantsAssumption DEF Never

\* What concerns the connection's thread, and the rest.
ThreadOK ==
  /\ pc \in {"idle", "read", "feed", "inspect", "after", "over"}
  /\ cause \in {"none", "closed", "record", "file", "limit", "answer", "timeout", "send"}
  /\ inSession \in BOOLEAN
BuffersOK ==
  /\ reads \in 0..Reads
  /\ pending \in Seq(Pieces) /\ Len(pending) <= Reads * MaxChunk + 1
  /\ bodies \in Seq(Seq(Units)) /\ other \in Seq(Units) /\ decSeq \in Nat
  /\ decoder \in Seq(Units) /\ Len(decoder) <= 1
FilesOK == files \in Seq(FileMessages) /\ Len(files) <= FileBacklog
SizesOK == {config, current, due} \subseteq Sizes \cup {None}
TimesOK ==
  /\ sinceSent \in 0..Never
  /\ requeries \in 0..MaxRequeries /\ offerAge \in 0..OfferAgain /\ age \in 0..Deadline
NetOK == /\ toMac \in Seq(Requests) /\ plain \in Seq(Units) /\ net \in Seq(Pieces)
         /\ encSeq \in Nat
MacOK == /\ macOpen \in BOOLEAN /\ macRequest \in {"none", "full", "incremental"}
         /\ macLayout \in Sizes /\ told \in BOOLEAN /\ macStream \in Sizes \cup {None}

\* The types, part by part.
LEMMA TypeParts ==
  TypeOK <=> ThreadOK /\ BuffersOK /\ FilesOK /\ SizesOK /\ TimesOK /\ NetOK /\ MacOK
  BY DEF TypeOK, ThreadOK, BuffersOK, FilesOK, SizesOK, TimesOK, NetOK, MacOK

\* ... and of the next state.
LEMMA TypePartsPrime ==
  TypeOK' <=> ThreadOK' /\ BuffersOK' /\ FilesOK' /\ SizesOK' /\ TimesOK' /\ NetOK' /\ MacOK'
  BY DEF TypeOK, ThreadOK, BuffersOK, FilesOK, SizesOK, TimesOK, NetOK, MacOK

\* The types hold at first.
LEMMA TypeInit == Init => TypeOK
  <1> SUFFICES ASSUME Init PROVE TypeOK
    OBVIOUS
  <1>1. Len(<<>>) <= Reads * MaxChunk + 1
    BY Constants
  <1>2. Never \in 0..Never /\ 0 \in 0..Reads /\ 0 \in 0..MaxRequeries /\ 0 \in 0..OfferAgain
        /\ 0 \in 0..Deadline /\ Len(<<>>) <= FileBacklog /\ 0 \in Nat
    BY Constants
  <1>3. <<"full", "offer">> \in Seq(Requests)
    BY DEF Requests
  <1>4. ThreadOK /\ BuffersOK /\ FilesOK
    <2>1. /\ <<>> \in Seq(Pieces) /\ <<>> \in Seq(Seq(Units)) /\ <<>> \in Seq(Units)
          /\ <<>> \in Seq(FileMessages) /\ Len(<<>>) <= 1
      OBVIOUS
    <2> QED BY <1>1, <1>2, <2>1 DEF Init, ThreadOK, BuffersOK, FilesOK
  <1>5. SizesOK /\ TimesOK
    BY <1>2 DEF Init, SizesOK, TimesOK
  <1>6. NetOK /\ MacOK
    BY <1>2, <1>3, Constants DEF Init, NetOK, MacOK
  <1> QED BY <1>4, <1>5, <1>6, TypeParts

\* A poll begins, connect gives up, or the backlog refuses a request.
LEMMA TypePoll == ASSUME TypeOK, Poll PROVE TypeOK'
  <1>1. /\ pc' \in {"read", "over"} /\ cause' \in {cause, "timeout", "send"}
        /\ UNCHANGED inSession /\ reads' \in {reads, Reads}
    BY DEF Poll, Over, Goes, SendFails
  <1>2. UNCHANGED <<pending, bodies, other, decSeq, decoder, files, config, recovery, waiting,
                    toMac, net, mac>>
    BY DEF Poll
  <1>3. ThreadOK' /\ BuffersOK' /\ FilesOK' /\ SizesOK' /\ TimesOK'
    <2>1. ThreadOK' /\ FilesOK'
      BY <1>1, <1>2, TypeParts DEF ThreadOK, FilesOK
    <2>2. BuffersOK'
      BY <1>1, <1>2, TypeParts, Constants DEF BuffersOK
    <2>3. SizesOK' /\ TimesOK'
      BY <1>2, TypeParts DEF SizesOK, TimesOK, recovery, waiting
    <2> QED BY <2>1, <2>2, <2>3
  <1>4. NetOK' /\ MacOK'
    BY <1>2, TypeParts DEF NetOK, MacOK, mac
  <1> QED BY <1>3, <1>4, TypePartsPrime

\* A read that was interrupted costs one of the poll's reads.
LEMMA TypeReadInterrupted == ASSUME TypeOK, ReadInterrupted PROVE TypeOK'
  BY Constants DEF TypeOK, ReadInterrupted, Fault, thread, recovery, waiting, mac, sents, gots

\* The clocks stop at their limits.
LEMMA TypeTick == ASSUME TypeOK, Tick PROVE TypeOK'
  <1>1. ThreadOK' /\ BuffersOK' /\ FilesOK' /\ SizesOK' /\ NetOK' /\ MacOK'
    BY TypeParts DEF Tick, thread, buffers, mac, ThreadOK, BuffersOK, FilesOK, SizesOK, NetOK, MacOK
  <1>2. TimesOK'
    BY TypeParts, Constants DEF Tick, TimesOK
  <1> QED BY <1>1, <1>2, TypePartsPrime

\* The size that was due is the one offered for.
LEMMA TypeTakeDue == ASSUME TypeOK, TakeDue PROVE TypeOK'
  <1>1. /\ ThreadOK'
    BY TypeParts DEF TakeDue, ThreadOK, Over, Goes, SendFails
  <1>2. BuffersOK' /\ FilesOK' /\ MacOK'
    BY TypeParts DEF TakeDue, buffers, mac, BuffersOK, FilesOK, MacOK
  <1>3. SizesOK' /\ TimesOK'
    BY TypeParts, Constants DEF TakeDue, recovery, waiting, SizesOK, TimesOK
  <1>4. NetOK'
    <2>1. toMac \in Seq(Requests) /\ "offer" \in Requests
      BY TypeParts DEF NetOK, Requests
    <2>2. Append(toMac, "offer") \in Seq(Requests)
      BY <2>1
    <2>3. toMac' \in {toMac, Append(toMac, "offer")} /\ UNCHANGED <<plain, net, encSeq>>
      BY DEF TakeDue, mac
    <2> QED BY <2>1, <2>2, <2>3, TypeParts DEF NetOK
  <1> QED BY <1>1, <1>2, <1>3, <1>4, TypePartsPrime

\* connect offers again or returns; the session takes the messages.
LEMMA TypeAfterPoll == ASSUME TypeOK, AfterPoll PROVE TypeOK'
  <1>1. /\ ThreadOK'
    BY TypeParts DEF AfterPoll, ThreadOK, Over, Goes, SendFails
  <1>2. BuffersOK' /\ MacOK'
    BY TypeParts DEF AfterPoll, mac, BuffersOK, MacOK
  <1>3. SizesOK' /\ FilesOK'
    BY TypeParts, Constants DEF AfterPoll, recovery, SizesOK, FilesOK
  <1>4. TimesOK'
    BY TypeParts, Constants DEF AfterPoll, OfferDue, recovery, TimesOK
  <1>5. NetOK'
    <2>1. toMac \in Seq(Requests) /\ "offer" \in Requests
      BY TypeParts DEF NetOK, Requests
    <2>2. Append(toMac, "offer") \in Seq(Requests)
      BY <2>1
    <2>3. toMac' \in {toMac, Append(toMac, "offer")} /\ UNCHANGED <<plain, net, encSeq>>
      BY DEF AfterPoll, mac
    <2> QED BY <2>1, <2>2, <2>3, TypeParts DEF NetOK
  <1> QED BY <1>1, <1>2, <1>3, <1>4, <1>5, TypePartsPrime

\* A read takes what the limit has room for; the limit itself is never reached.
LEMMA TypeRead ==
  ASSUME TypeOK, Reading, NEW n \in 1..MaxChunk, Read(n)
  PROVE  TypeOK' /\ pc' = "read" /\ Reading'
  <1>1. pending \in Seq(Pieces) /\ net \in Seq(Pieces) /\ reads \in 1..Reads /\ n \in 0..Len(net)
    BY DEF TypeOK, Read
  <1>2. /\ SubSeq(net, 1, n) \in Seq(Pieces) /\ Len(SubSeq(net, 1, n)) = n
        /\ SubSeq(net, n + 1, Len(net)) \in Seq(Pieces)
    <2>1. 0 + 1 = 1 /\ 0 <= n /\ n - 0 = n /\ n \in Nat /\ n <= Len(net) /\ Len(net) \in 0..Len(net)
      BY <1>1
    <2>2. SubSeq(net, 0 + 1, n) \in Seq(Pieces) /\ Len(SubSeq(net, 0 + 1, n)) = n - 0
      BY <1>1, <2>1, Part
    <2>3. SubSeq(net, n + 1, Len(net)) \in Seq(Pieces)
      BY <1>1, <2>1, Part
    <2> QED BY <2>1, <2>2, <2>3
  <1>3. pending' \in Seq(Pieces) /\ Len(pending') = Len(pending) + n
    BY <1>1, <1>2, Joined DEF Read
  <1>4. Len(pending) <= (Reads - reads) * MaxChunk + 1
    BY DEF Reading, Read
  <1>5. /\ Len(pending') <= (Reads - reads') * MaxChunk + 1
        /\ (Reads - reads') * MaxChunk <= Reads * MaxChunk
    <2> DEFINE a == (Reads - reads) * MaxChunk
               b == (Reads - reads') * MaxChunk
               c == Reads * MaxChunk
    <2>1. reads' = reads - 1
      BY DEF Read
    <2>2. b = a + MaxChunk /\ a \in Int
      <3>1. \A x, y \in Int : (x + 1) * y = x * y + y
        OBVIOUS
      <3>2. Reads - reads' = (Reads - reads) + 1 /\ Reads - reads \in Int /\ MaxChunk \in Int
        BY <1>1, <2>1, Constants
      <3> QED BY <3>1, <3>2
    <2>3. b <= c
      <3>1. \A x, y, z \in Nat : x <= y => x * z <= y * z
        OBVIOUS
      <3>2. Reads - reads' \in Nat /\ Reads - reads' <= Reads /\ Reads \in Nat /\ MaxChunk \in Nat
        BY <1>1, <2>1, Constants
      <3> QED BY <3>1, <3>2
    <2>4. Len(pending) \in Nat /\ n <= MaxChunk /\ n \in Nat /\ MaxChunk \in Nat
      BY <1>1, Constants
    <2> HIDE DEF a, b, c
    <2>5. Len(pending') <= b + 1
      <3>1. Len(pending) <= a + 1
        BY <1>4 DEF a
      <3> QED BY <1>3, <2>2, <2>4, <3>1
    <2> QED BY <2>3, <2>5 DEF b, c
  <1>6. Len(pending') <= Reads * MaxChunk + 1
    BY <1>3, <1>5, <1>1, Constants DEF Read
  <1>7. ~(Len(pending') > PendingLimit)
    BY <1>3, <1>1, <1>6, Constants
  <1>8. pc' = "read" /\ UNCHANGED <<cause, inSession>>
    BY <1>7 DEF Read, Goes
  <1>9. ThreadOK' /\ FilesOK' /\ SizesOK' /\ TimesOK' /\ MacOK'
    BY <1>8, TypeParts DEF Read, recovery, waiting, mac, ThreadOK, FilesOK, SizesOK, TimesOK, MacOK
  <1>10. BuffersOK'
    <2>1. reads' \in 0..Reads
      <3>1. reads' = reads - 1 BY DEF Read
      <3> QED BY <1>1, <3>1, Constants
    <2> QED BY <2>1, <1>3, <1>6, TypeParts DEF Read, BuffersOK
  <1>11. NetOK'
    BY <1>2, TypeParts DEF Read, mac, NetOK
  <1>12. Reading'
    BY <1>8, <1>5 DEF Reading, Read
  <1> QED BY <1>8, <1>9, <1>10, <1>11, <1>12, TypePartsPrime

\* Draining leaves less than a record.
LEMMA TypeDrain == ASSUME TypeOK, Reading, Drain PROVE TypeOK' /\ Reading'
  <1> DEFINE w == Whole
  <1>1. /\ pending \in Seq(Pieces) /\ Len(pending) \in Nat /\ decSeq \in Nat
        /\ w \in Nat /\ 2 * w <= Len(pending) /\ Len(pending) <= 2 * w + 1
    <2>1. pending \in Seq(Pieces) /\ Len(pending) \in Nat /\ decSeq \in Nat
      BY DEF TypeOK
    <2> QED BY <2>1 DEF Whole
  <1> HIDE DEF w
  <1>2. /\ SubSeq(pending, 2 * w + 1, Len(pending)) \in Seq(Pieces)
        /\ Len(SubSeq(pending, 2 * w + 1, Len(pending))) = Len(pending) - 2 * w
    <2>1. 2 * w \in Nat /\ Len(pending) \in 0..Len(pending) BY <1>1
    <2> QED BY <1>1, <2>1, Part
  <1>3. [i \in 1..w |-> pending[2 * i].body] \in Seq(Seq(Units))
    <2>1. ASSUME NEW i \in 1..w PROVE pending[2 * i].body \in Seq(Units)
      <3>1. 2 * i \in 1..Len(pending) BY <1>1
      <3>2. pending[2 * i] \in Pieces BY <1>1, <3>1
      <3> QED BY <3>2 DEF Pieces
    <2> DEFINE f == [i \in 1..w |-> pending[2 * i].body]
    <2>2. f \in [1..w -> Seq(Units)]
      BY <2>1
    <2> HIDE DEF f
    <2>3. f \in Seq(Seq(Units))
      BY <1>1, <2>2
    <2> QED BY <2>3 DEF f
  <1>4. pc = "read" /\ bodies = <<>>
    BY DEF Drain, Reading
  <1>5. Reads * MaxChunk + 1 \in Nat /\ 1 <= Reads * MaxChunk + 1
    BY Constants
  <1> DEFINE B == Reads * MaxChunk + 1
  <1> HIDE DEF B
  <1>6. /\ \/ pc' = "over" /\ UNCHANGED <<bodies, pending, decSeq>>
           \/ /\ pc' = "feed" /\ bodies' = [i \in 1..w |-> pending[2 * i].body]
              /\ pending' = SubSeq(pending, 2 * w + 1, Len(pending)) /\ decSeq' = decSeq + w
        /\ UNCHANGED <<reads, other, decoder, files>>
    <2>1. CASE (reads > 0 /\ ~macOpen) \/ ~(\A i \in 1..Whole : Verifies(i))
      BY <2>1 DEF Drain, Over
    <2>2. CASE ~(reads > 0 /\ ~macOpen) /\ (\A i \in 1..Whole : Verifies(i))
      BY <2>2, Zenon DEF Drain, Goes, w
    <2> QED BY <2>1, <2>2
  <1> DEFINE f == [i \in 1..w |-> pending[2 * i].body]
             q == SubSeq(pending, 2 * w + 1, Len(pending))
  <1> HIDE DEF f, q
  <1>7. BuffersOK'
    <2>1. CASE UNCHANGED <<bodies, pending, decSeq>>
      BY <2>1, <1>6, TypeParts DEF BuffersOK
    <2>2. CASE bodies' = f /\ pending' = q /\ decSeq' = decSeq + w
      <3>1. q \in Seq(Pieces) /\ Len(q) <= B
        <4>1. Len(q) <= 1
          BY <1>1, <1>2 DEF q
        <4> QED BY <1>2, <1>5, <4>1 DEF B, q
      <3>2. f \in Seq(Seq(Units)) /\ decSeq + w \in Nat
        BY <1>1, <1>3 DEF f
      <3> QED BY <2>2, <3>1, <3>2, <1>6, TypeParts DEF BuffersOK, B
    <2> QED BY <1>6, <2>1, <2>2 DEF f, q
  <1>8. ThreadOK'
    BY TypeParts DEF Drain, Over, Goes, ThreadOK
  <1>9. FilesOK' /\ SizesOK' /\ TimesOK' /\ NetOK' /\ MacOK'
    BY TypeParts DEF Drain, recovery, waiting, mac, FilesOK, SizesOK, TimesOK, NetOK, MacOK
  <1>10. \/ pc' = "over"
         \/ pc' = "feed" /\ pending' = SubSeq(pending, 2 * w + 1, Len(pending))
    BY <1>6
  <1>11. Reading'
    <2>1. pc' = "feed" => Len(pending') <= 1
      <3>1. pc' = "feed" => pending' = SubSeq(pending, 2 * w + 1, Len(pending))
        BY <1>10
      <3> QED BY <1>1, <1>2, <3>1
    <2>2. pc' \in {"over", "feed"}
      BY <1>10
    <2> QED BY <2>1, <2>2 DEF Reading
  <1> QED BY <1>7, <1>8, <1>9, <1>11, TypePartsPrime

\* What Feed decodes is typed.
LEMMA FeedTyped ==
  ASSUME TypeOK, pc = "feed", bodies # <<>>
  PROVE  /\ decoder \o Head(bodies) \in Seq(Units) /\ Head(bodies) \in Seq(Units)
         /\ Tail(bodies) \in Seq(Seq(Units))
         /\ Len(decoder \o Head(bodies)) = Len(decoder) + Len(Head(bodies))
  <1>1. decoder \in Seq(Units) /\ Head(bodies) \in Seq(Units) /\ Tail(bodies) \in Seq(Seq(Units))
    BY DEF TypeOK
  <1> QED BY <1>1, Joined

\* One body is fed, or the session ends.
LEMMA TypeFeed == ASSUME TypeOK, Reading, Feed PROVE TypeOK' /\ Reading'
  <1> DEFINE us == decoder \o Head(bodies)
             d == Decoded(us)
  <1>1. us \in Seq(Units) /\ Tail(bodies) \in Seq(Seq(Units))
    BY FeedTyped DEF Feed, FeedFrom
  <1> HIDE DEF us
  <1>2. PICK n \in Nat : DecodedAs(us, d, n)
    BY <1>1, DecoderTakes
  <1> HIDE DEF d
  <1>3. \/ /\ pc' = "over" /\ cause' \in {"file", "limit"}
           /\ UNCHANGED <<inSession, decoder, files, other, bodies>>
        \/ /\ pc' \in {"feed", "inspect"} /\ UNCHANGED <<cause, inSession>> /\ ~d.failed
           /\ ~(Len(files) + Len(d.messages) > FileBacklog)
           /\ decoder' = d.pending /\ files' = files \o d.messages /\ other' = d.other
           /\ bodies' = Tail(bodies)
    BY DEF Feed, FeedFrom, Over, Goes, us, d
  <1>4. ~d.failed => /\ d.messages \in Seq(FileMessages) /\ d.pending \in Seq(Units)
                     /\ Len(d.pending) <= 1 /\ d.other \in Seq(Units)
    BY <1>1, <1>2, DecodedTyped
  <1>5. ThreadOK'
    BY <1>3, TypeParts DEF ThreadOK
  <1>6. BuffersOK'
    <2>1. UNCHANGED <<reads, pending, decSeq>>
      BY DEF Feed, FeedFrom
    <2>2. /\ decoder' \in Seq(Units) /\ Len(decoder') <= 1 /\ other' \in Seq(Units)
          /\ bodies' \in Seq(Seq(Units))
      BY <1>1, <1>3, <1>4, TypeParts DEF BuffersOK
    <2> QED BY <2>1, <2>2, TypeParts DEF BuffersOK
  <1>7. FilesOK'
    <2>1. CASE UNCHANGED files
      BY <2>1, TypeParts DEF FilesOK
    <2>2. CASE ~UNCHANGED files
      <3>1. /\ files \in Seq(FileMessages) /\ d.messages \in Seq(FileMessages)
            /\ files' = files \o d.messages /\ ~(Len(files) + Len(d.messages) > FileBacklog)
        BY <2>2, <1>3, <1>4, TypeParts DEF FilesOK
      <3>2. files \o d.messages \in Seq(FileMessages)
            /\ Len(files \o d.messages) = Len(files) + Len(d.messages)
        BY <3>1, Joined
      <3> QED BY <3>1, <3>2, Constants DEF FilesOK
    <2> QED BY <2>1, <2>2
  <1>8. SizesOK' /\ TimesOK' /\ NetOK' /\ MacOK'
    BY TypeParts DEF Feed, FeedFrom, recovery, waiting, mac, SizesOK, TimesOK, NetOK, MacOK
  <1>9. pc = "feed" /\ UNCHANGED pending
    BY DEF Feed, FeedFrom
  <1>10. Reading'
    BY <1>3, <1>9 DEF Reading
  <1> QED BY <1>5, <1>6, <1>7, <1>8, <1>10, TypePartsPrime

\* What scan_update, parse_answer and display_layout find in a unit.
LEMMA UpdateTyped ==
  ASSUME NEW unit \in Units
  PROVE  /\ Scan(unit) \in Updates
         /\ ParseAnswer(Scan(unit)) \in Sizes \cup {None}
         /\ DisplayLayout(Scan(unit)) \in Sizes \cup {None}
  <1>1. Scan(unit) \in Updates
    <2>1. unit.m \in Messages
      BY DEF Units
    <2>2. unit.m.k = "update" => unit.m \in Updates
      BY <2>1 DEF Messages, FileMessages
    <2>3. [k |-> "update", complete |-> FALSE, layout |-> None, canvas |-> None] \in Updates
      BY DEF Updates
    <2> QED BY <2>2, <2>3 DEF Scan
  <1>2. Scan(unit).layout \in Sizes \cup {None}
    BY <1>1 DEF Updates
  <1> QED BY <1>1, <1>2 DEF ParseAnswer, DisplayLayout

\* An update is acted on, or the session ends.
LEMMA TypeInspect ==
  ASSUME TypeOK, Reading, Inspect, other # <<>>
  PROVE  TypeOK' /\ Reading'
  <1> DEFINE u == Scan(Head(other))
             z == ParseAnswer(u)
             y == DisplayLayout(u)
  <1>1. Head(other) \in Units
    BY DEF TypeOK
  <1>2. u \in Updates /\ z \in Sizes \cup {None} /\ y \in Sizes \cup {None}
    BY <1>1, UpdateTyped
  <1> HIDE DEF u, z, y
  <1>3. /\ \/ pc' = "over" /\ cause' \in {"answer", "send"} /\ UNCHANGED <<inSession, other, toMac>>
           \/ /\ pc' = "feed" /\ UNCHANGED <<cause, inSession>> /\ other' = <<>>
              /\ toMac' \in {toMac, Append(toMac, "incremental"), Append(toMac, "full")}
        /\ config' \in {config, z} /\ current' \in {current, z}
        /\ due' \in {due, None, y}
    <2>1. CASE u.canvas = Refused
      BY <2>1 DEF Inspect, Over, u
    <2>2. CASE u.canvas # Refused
      <3>1. /\ Observe(y)
            /\ config' = (IF z # None THEN z ELSE config)
            /\ current' = (IF config = None /\ z # None THEN z ELSE current)
            /\ \/ SendFails /\ UNCHANGED <<toMac, gotUpdates, other>>
               \/ /\ toMac' = IF ~u.complete THEN toMac
                             ELSE Append(toMac, IF u.layout = None THEN "incremental" ELSE "full")
                  /\ other' = <<>> /\ Goes("feed")
        BY <2>2, Zenon DEF Inspect, u, z, y
      <3>2. due' \in {due, None, y}
        BY <3>1 DEF Observe
      <3> QED BY <3>1, <3>2 DEF SendFails, Over, Goes
    <2> QED BY <2>1, <2>2
  <1>4. UNCHANGED <<reads, pending, bodies, decSeq, decoder, files, sinceSent, waiting, net,
                    mac>> /\ pc = "inspect"
    BY DEF Inspect
  <1>5. ThreadOK'
    BY <1>3, TypeParts DEF ThreadOK
  <1>6. BuffersOK' /\ FilesOK' /\ MacOK'
    <2>1. other' \in Seq(Units)
      <3>1. <<>> \in Seq(Units) /\ other \in Seq(Units)
        BY TypeParts DEF BuffersOK
      <3>2. other' = other \/ other' = <<>>
        BY <1>3
      <3> QED BY <3>1, <3>2
    <2>2. BuffersOK'
      BY <2>1, <1>4, TypeParts DEF BuffersOK
    <2> QED BY <1>4, <2>2, TypeParts DEF FilesOK, MacOK, mac
  <1>7. SizesOK' /\ TimesOK'
    BY <1>2, <1>3, <1>4, TypeParts DEF SizesOK, TimesOK, waiting
  <1>8. NetOK'
    <2>1. toMac \in Seq(Requests) /\ {"incremental", "full"} \subseteq Requests
      BY TypeParts DEF NetOK, Requests
    <2>2. Append(toMac, "incremental") \in Seq(Requests) /\ Append(toMac, "full") \in Seq(Requests)
      BY <2>1
    <2>3. toMac' \in {toMac, Append(toMac, "incremental"), Append(toMac, "full")}
      BY <1>3
    <2> QED BY <1>4, <2>1, <2>2, <2>3, TypeParts DEF NetOK, mac
  <1>9. Reading'
    BY <1>3, <1>4 DEF Reading
  <1> QED BY <1>5, <1>6, <1>7, <1>8, <1>9, TypePartsPrime

\* What the Mac says is typed.
LEMMA TypeSays ==
  ASSUME NEW u \in Updates, TypeOK, Said, MacSays(u)
  PROVE  plain' \in Seq(Units) /\ sentUpdates' \in Seq(Updates)
  <1>1. [m |-> u, part |-> 1] \in Units
    BY DEF Units, Messages
  <1>2. plain \in Seq(Units) /\ sentUpdates \in Seq(Updates)
    BY DEF TypeOK, Said
  <1> QED BY <1>1, <1>2 DEF MacSays

\* What the Mac answers is an update.
LEMMA AnswersTyped ==
  /\ \A size \in Sizes : Answer(size) \in Updates /\ Update(size) \in Updates
  /\ Answer(Unusable) \in Updates /\ Answer(Refused) \in Updates /\ Update(None) \in Updates
  BY DEF Answer, Update, Updates

\* The Mac changes only what is its own, the wire and the queue of requests.
LEMMA TypeMac == ASSUME TypeOK, Said, Mac PROVE TypeOK'
  <1>1. \/ MacTakesRequest \/ MacTakesOffer \/ MacUpdates \/ MacSendsFile \/ MacCloses
        \/ (\E size \in Sizes : MacRelayouts(size)) \/ (\E n \in 1..MaxUnits : MacPacks(n))
    BY DEF Mac
  <1>2. UNCHANGED conn
    BY <1>1 DEF MacTakesRequest, MacTakesOffer, MacUpdates, MacSendsFile, MacCloses,
                MacRelayouts, MacPacks
  <1>3. ThreadOK' /\ BuffersOK' /\ FilesOK' /\ SizesOK' /\ TimesOK'
    BY <1>2, TypeParts DEF conn, thread, buffers, recovery, waiting, ThreadOK, BuffersOK,
                           FilesOK, SizesOK, TimesOK
  <1>4. NetOK /\ MacOK
    BY TypeParts
  <1>5. CASE MacTakesRequest
    <2>1. toMac' \in Seq(Requests) /\ macRequest' \in {"full", "incremental"}
      BY <1>4, <1>5 DEF MacTakesRequest, NetOK, Requests
    <2>2. NetOK' /\ MacOK'
      BY <1>4, <1>5, <2>1 DEF MacTakesRequest, NetOK, MacOK
    <2> QED BY <1>3, <2>2, TypePartsPrime
  <1>6. CASE MacTakesOffer
    <2>1. toMac' \in Seq(Requests) /\ macStream' \in Sizes \cup {None}
      BY <1>4, <1>6 DEF MacTakesOffer, NetOK, MacOK
    <2>2. plain' \in Seq(Units)
      <3>1. MacSays(Answer(macLayout)) \/ MacSays(Answer(Unusable)) \/ MacSays(Answer(Refused))
        BY <1>6 DEF MacTakesOffer
      <3>2. macLayout \in Sizes BY <1>4 DEF MacOK
      <3> QED BY <3>1, <3>2, AnswersTyped, TypeSays
    <2>3. NetOK' /\ MacOK'
      BY <1>4, <1>6, <2>1, <2>2 DEF MacTakesOffer, NetOK, MacOK
    <2> QED BY <1>3, <2>3, TypePartsPrime
  <1>7. CASE MacUpdates
    <2>1. plain' \in Seq(Units)
      <3>1. MacSays(Update(None)) \/ MacSays(Update(macLayout))
        BY <1>7 DEF MacUpdates
      <3>2. macLayout \in Sizes BY <1>4 DEF MacOK
      <3> QED BY <3>1, <3>2, AnswersTyped, TypeSays
    <2>2. NetOK' /\ MacOK'
      BY <1>4, <1>7, <2>1 DEF MacUpdates, NetOK, MacOK
    <2> QED BY <1>3, <2>2, TypePartsPrime
  <1>8. CASE MacSendsFile
    <2>1. PICK good \in BOOLEAN :
            plain' = plain \o <<[m |-> [k |-> "file", id |-> Len(sentFiles) + 1, good |-> good],
                                 part |-> 1],
                                [m |-> [k |-> "file", id |-> Len(sentFiles) + 1, good |-> good],
                                 part |-> 2]>>
      BY <1>8 DEF MacSendsFile
    <2> DEFINE f == [k |-> "file", id |-> Len(sentFiles) + 1, good |-> good]
               two == <<[m |-> f, part |-> 1], [m |-> f, part |-> 2]>>
    <2>2. f \in FileMessages
      BY <1>8, Constants DEF MacSendsFile, FileMessages, Said
    <2>3. [m |-> f, part |-> 1] \in Units /\ [m |-> f, part |-> 2] \in Units
      BY <2>2 DEF Units, Messages
    <2>4. plain' = plain \o two
      BY <2>1
    <2> HIDE DEF f
    <2>5. two \in Seq(Units) /\ plain \in Seq(Units)
      BY <2>3, <1>4 DEF NetOK
    <2> HIDE DEF two
    <2>6. plain' \in Seq(Units)
      BY <2>4, <2>5, Joined
    <2>7. NetOK' /\ MacOK'
      BY <1>4, <1>8, <2>6 DEF MacSendsFile, NetOK, MacOK
    <2> QED BY <1>3, <2>7, TypePartsPrime
  <1>9. CASE MacCloses
    <2>1. NetOK' /\ MacOK'
      BY <1>4, <1>9 DEF MacCloses, NetOK, MacOK
    <2> QED BY <1>3, <2>1, TypePartsPrime
  <1>10. ASSUME NEW size \in Sizes, MacRelayouts(size) PROVE TypeOK'
    <2>1. NetOK' /\ MacOK'
      BY <1>4, <1>10 DEF MacRelayouts, NetOK, MacOK
    <2> QED BY <1>3, <2>1, TypePartsPrime
  <1>11. ASSUME NEW n \in 1..MaxUnits, MacPacks(n) PROVE TypeOK'
    <2>1. PICK intact \in BOOLEAN :
            net' = net \o [h \in 1..2 |-> [seq |-> encSeq, half |-> h, intact |-> intact,
                                            body |-> SubSeq(plain, 1, n)]]
      BY <1>11 DEF MacPacks
    <2> DEFINE b == SubSeq(plain, 1, n)
               two == [h \in 1..2 |-> [seq |-> encSeq, half |-> h, intact |-> intact, body |-> b]]
    <2>2. n \in 1..Len(plain) /\ plain \in Seq(Units) /\ Len(plain) \in Nat /\ n \in Nat
      BY <1>4, <1>11, Constants DEF MacPacks, NetOK
    <2>3. b \in Seq(Units) /\ SubSeq(plain, n + 1, Len(plain)) \in Seq(Units)
      <3>1. SubSeq(plain, 0 + 1, n) \in Seq(Units)
        <4>1. 0 \in Nat /\ n \in 0..Len(plain) /\ 0 <= n BY <2>2
        <4> QED BY <2>2, <4>1, Part
      <3>2. SubSeq(plain, n + 1, Len(plain)) \in Seq(Units)
        <4>1. n \in Nat /\ Len(plain) \in 0..Len(plain) /\ n <= Len(plain) BY <2>2
        <4> QED BY <2>2, <4>1, Part
      <3> QED BY <3>1, <3>2
    <2>4. net' = net \o two
      BY <2>1
    <2> HIDE DEF b
    <2>5. two \in [1..2 -> Pieces]
      BY <1>4, <2>3 DEF Pieces, NetOK
    <2> HIDE DEF two
    <2>6. two \in Seq(Pieces) /\ net \in Seq(Pieces)
      <3>1. 2 \in Nat /\ two \in UNION {[1..m -> Pieces] : m \in Nat}
        BY <2>5
      <3>2. two \in Seq(Pieces)
        BY <3>1, SeqDef, Zenon
      <3> QED BY <3>2, <1>4 DEF NetOK
    <2>7. net' \in Seq(Pieces)
      BY <2>4, <2>6, Joined
    <2>8. NetOK' /\ MacOK'
      BY <1>4, <1>11, <2>3, <2>7 DEF MacPacks, NetOK, MacOK
    <2> QED BY <1>3, <2>8, TypePartsPrime
  <1> QED BY <1>1, <1>5, <1>6, <1>7, <1>8, <1>9, <1>10, <1>11

-----------------------------------------------------------------------------
(* What was sent *)

\* What has gone wrong stays gone wrong.
LEMMA FaultsGrow == ASSUME Next PROVE faults \subseteq faults'
  <1>1. CASE Poll
    BY <1>1 DEF Poll, SendFails, Fault
  <1>2. ASSUME NEW n \in 1..MaxChunk, Read(n) PROVE faults \subseteq faults'
    BY <1>2 DEF Read, counts
  <1>3. CASE ReadInterrupted
    BY <1>3 DEF ReadInterrupted, Fault
  <1>4. CASE Drain \/ Feed
    BY <1>4 DEF Drain, Feed, FeedFrom, counts
  <1>5. CASE Inspect
    <2>1. UNCHANGED faults \/ SendFails
      BY <1>5, Zenon DEF Inspect
    <2> QED BY <2>1 DEF SendFails, Fault
  <1>6. CASE TakeDue
    BY <1>6 DEF TakeDue, SendFails, Fault
  <1>7. CASE AfterPoll
    BY <1>7 DEF AfterPoll, SendFails, Fault
  <1>8. CASE Tick
    BY <1>8 DEF Tick, counts
  <1>9. CASE MacTakesRequest \/ MacUpdates \/ MacCloses \/ MacTakesOffer
    BY <1>9 DEF MacTakesRequest, MacUpdates, MacCloses, MacTakesOffer, Fault, counts
  <1>10. CASE MacSendsFile
    BY <1>10 DEF MacSendsFile, Fault
  <1>11. ASSUME NEW size \in Sizes, MacRelayouts(size) PROVE faults \subseteq faults'
    BY <1>11 DEF MacRelayouts
  <1>12. ASSUME NEW n \in 1..MaxUnits, MacPacks(n) PROVE faults \subseteq faults'
    BY <1>12 DEF MacPacks, Fault
  <1> QED BY <1>1, <1>2, <1>3, <1>4, <1>5, <1>6, <1>7, <1>8, <1>9, <1>10, <1>11, <1>12
             DEF Next, Client, Mac

\* Steps that send nothing.
LEMMA SaidStays ==
  ASSUME Said, UNCHANGED sents, faults \subseteq faults'
  PROVE  Said'
  BY DEF Said, sents

\* An update that tells of the display or of the stream, at the end.
LEMMA SaidMore ==
  ASSUME Said, NEW u \in Updates, u.complete => u.canvas = None, ~u.complete => u.layout = None,
         sentUpdates' = Append(sentUpdates, u), UNCHANGED sentFiles, faults \subseteq faults'
  PROVE  Said'
  <1>1. sentUpdates \in Seq(Updates) /\ Len(sentUpdates) \in Nat
    BY DEF Said
  <1>2. /\ sentUpdates' \in Seq(Updates) /\ Len(sentUpdates') = Len(sentUpdates) + 1
        /\ \A i \in 1..Len(sentUpdates) : sentUpdates'[i] = sentUpdates[i]
        /\ sentUpdates'[Len(sentUpdates) + 1] = u
    BY <1>1, AppendProperties
  <1>3. ASSUME NEW i \in 1..Len(sentUpdates')
        PROVE  IF sentUpdates'[i].complete THEN sentUpdates'[i].canvas = None
                                           ELSE sentUpdates'[i].layout = None
    <2>1. CASE i = Len(sentUpdates) + 1
      BY <2>1, <1>2
    <2>2. CASE i # Len(sentUpdates) + 1
      <3>1. i \in 1..Len(sentUpdates) BY <2>2, <1>1, <1>2
      <3> QED BY <3>1, <1>2 DEF Said
    <2> QED BY <2>1, <2>2
  <1> QED BY <1>2, <1>3 DEF Said

\* An answer tells of the stream, an update of the layout.
LEMMA SaysIs ==
  /\ \A size \in Sizes \cup {None, Unusable, Refused} :
       ~Answer(size).complete /\ Answer(size).layout = None /\ Answer(size).canvas = size
  /\ \A size \in Sizes \cup {None} :
       Update(size).complete /\ Update(size).canvas = None /\ Update(size).layout = size
  BY DEF Answer, Update

\* What the Mac has sent keeps its form.
LEMMA SaidKeeps == ASSUME TypeOK, Said, Next PROVE Said'
  <1>1. faults \subseteq faults'
    BY FaultsGrow
  <1>2. CASE Client \/ Tick
    <2>1. UNCHANGED sents
      BY <1>2 DEF Client, Poll, Read, ReadInterrupted, Drain, Feed, FeedFrom, Inspect, TakeDue,
                  AfterPoll, Tick
    <2> QED BY <1>1, <2>1, SaidStays
  <1>3. CASE MacTakesRequest \/ MacCloses
    <2>1. UNCHANGED sents
      BY <1>3 DEF MacTakesRequest, MacCloses
    <2> QED BY <1>1, <2>1, SaidStays
  <1>4. CASE MacTakesOffer
    <2>1. macLayout \in Sizes
      BY DEF TypeOK
    <2>2. PICK u \in Updates : MacSays(u) /\ u.layout = None /\ ~u.complete
      BY <1>4, <2>1, AnswersTyped, SaysIs DEF MacTakesOffer
    <2>3. sentUpdates' = Append(sentUpdates, u) /\ UNCHANGED sentFiles
      BY <1>4, <2>2 DEF MacTakesOffer, MacSays
    <2> QED BY <1>1, <2>2, <2>3, SaidMore
  <1>5. CASE MacUpdates
    <2>1. macLayout \in Sizes
      BY DEF TypeOK
    <2>2. PICK u \in Updates : MacSays(u) /\ u.canvas = None /\ u.complete
      BY <1>5, <2>1, AnswersTyped, SaysIs DEF MacUpdates
    <2>3. sentUpdates' = Append(sentUpdates, u) /\ UNCHANGED sentFiles
      BY <1>5, <2>2 DEF MacUpdates, MacSays
    <2> QED BY <1>1, <2>2, <2>3, SaidMore
  <1>6. CASE MacSendsFile
    <2>1. PICK f \in FileMessages :
            /\ sentFiles' = Append(sentFiles, f) /\ (f.good \/ "malformed" \in faults')
            /\ UNCHANGED sentUpdates
      <3>1. PICK good \in BOOLEAN :
              /\ IF good THEN UNCHANGED faults ELSE Fault("malformed")
              /\ sentFiles' = Append(sentFiles, [k |-> "file", id |-> Len(sentFiles) + 1,
                                                 good |-> good])
        BY <1>6 DEF MacSendsFile
      <3> DEFINE f == [k |-> "file", id |-> Len(sentFiles) + 1, good |-> good]
      <3>2. f \in FileMessages
        BY <1>6, Constants DEF MacSendsFile, FileMessages, Said
      <3>3. f.good \/ "malformed" \in faults'
        BY <3>1 DEF Fault
      <3>4. UNCHANGED sentUpdates
        BY <1>6 DEF MacSendsFile
      <3> QED BY <3>1, <3>2, <3>3, <3>4
    <2>2. sentFiles \in Seq(FileMessages) /\ Len(sentFiles) \in Nat
      BY DEF Said
    <2>3. /\ sentFiles' \in Seq(FileMessages) /\ Len(sentFiles') = Len(sentFiles) + 1
          /\ \A i \in 1..Len(sentFiles) : sentFiles'[i] = sentFiles[i]
          /\ sentFiles'[Len(sentFiles) + 1] = f
      BY <2>1, <2>2, AppendProperties
    <2>4. ASSUME NEW i \in 1..Len(sentFiles') PROVE sentFiles'[i].good \/ "malformed" \in faults'
      <3>1. CASE i = Len(sentFiles) + 1
        BY <3>1, <2>1, <2>3
      <3>2. CASE i # Len(sentFiles) + 1
        <4>1. i \in 1..Len(sentFiles) BY <3>2, <2>2, <2>3
        <4> QED BY <4>1, <2>3, <1>1 DEF Said
      <3> QED BY <3>1, <3>2
    <2> QED BY <2>1, <2>3, <2>4 DEF Said
  <1>7. ASSUME NEW size \in Sizes, MacRelayouts(size) PROVE Said'
    <2>1. UNCHANGED sents
      BY <1>7 DEF MacRelayouts
    <2> QED BY <1>1, <2>1, SaidStays
  <1>8. ASSUME NEW n \in 1..MaxUnits, MacPacks(n) PROVE Said'
    <2>1. UNCHANGED sents
      BY <1>8 DEF MacPacks
    <2> QED BY <1>1, <2>1, SaidStays
  <1> QED BY <1>2, <1>3, <1>4, <1>5, <1>6, <1>7, <1>8 DEF Next, Mac

-----------------------------------------------------------------------------
(* What is on its way *)

streamed == <<sents, gots, plain, encSeq, net, pending, decSeq, bodies, other, decoder>>

\* Steps that move nothing.
LEMMA FlowsStay ==
  ASSUME Flows, UNCHANGED streamed, (pc = "inspect") = (pc' = "inspect"), faults \subseteq faults'
  PROVE  Flows'
  <1>1. PICK all, nf, nu, cut : Line(all, nf, nu, cut)
    BY DEF Flows
  <1>2. UNCHANGED <<sentFiles, sentUpdates, gotFiles, gotUpdates, plain, encSeq, net, pending,
                    decSeq, bodies, other, decoder>>
    BY DEF streamed, sents, gots
  <1>3. Fed' = Fed
    BY <1>2 DEF Fed
  <1>4. Written(all, nf, nu)'
    BY <1>1, <1>2 DEF Line, Written, WrittenAt
  <1>5. Records(all, cut)' /\ Decrypted(all, cut)'
    BY <1>1, <1>2, <1>3 DEF Line, Records, Decrypted
  <1>6. Wire(all, cut)'
    BY <1>1, <1>2 DEF Line, Wire
  <1>7. Kept(all, cut[Fed])'
    BY <1>1, <1>2, <1>3 DEF Line, Kept
  <1>8. Seen(all, nf, nu, cut[Fed] - Len(decoder) - Len(other))'
    BY <1>1, <1>2, <1>3 DEF Line, Seen
  <1>9. Line(all, nf, nu, cut)'
    BY <1>1, <1>2, <1>3, <1>4, <1>5, <1>6, <1>7, <1>8 DEF Line
  <1> QED BY <1>9 DEF Flows

\* Nothing has been said yet.
LEMMA FlowsInit == Init => Flows
  <1> SUFFICES ASSUME Init PROVE Flows
    OBVIOUS
  <1> DEFINE z == [p \in {0} |-> 0]
  <1>1. /\ <<>> \in Seq(Units) /\ 0..Len(<<>>) = {0}
        /\ z \in [{0} -> Nat] /\ z \in [{0} -> {0}] /\ z[0] = 0
    OBVIOUS
  <1> HIDE DEF z
  <1>2. Fed = 0 /\ encSeq = 0 /\ Len(decoder) = 0 /\ Len(other) = 0 /\ 0..encSeq = {0}
    <2>1. Len(bodies) = 0 /\ decSeq = 0 /\ encSeq = 0 /\ Len(decoder) = 0 /\ Len(other) = 0
      BY DEF Init
    <2>2. 0..0 = {0}
      OBVIOUS
    <2> QED BY <2>1, <2>2 DEF Fed
  <1>3. Written(<<>>, z, z)
    BY <1>1 DEF Written, Init
  <1>4. \A i \in Int : SubSeq(<<>>, 1, 0) = <<>>
    BY SubSeqEmpty
  <1>5. Records(<<>>, z)
    BY <1>1, <1>4 DEF Records, Init
  <1>6. Wire(<<>>, z) /\ Decrypted(<<>>, z)
    BY <1>1 DEF Wire, Decrypted, Init
  <1>7. Kept(<<>>, 0)
    BY DEF Kept, Init
  <1>8. Seen(<<>>, z, z, 0)
    BY <1>1, <1>4 DEF Seen, Init
  <1>9. Line(<<>>, z, z, z)
    BY <1>1, <1>2, <1>3, <1>5, <1>6, <1>7, <1>8 DEF Line
  <1> QED BY <1>9 DEF Flows

\* A read moves pieces from the wire to the buffer.
LEMMA FlowsRead ==
  ASSUME TypeOK, Flows, NEW n \in 1..MaxChunk, Read(n), pc' = "read"
  PROVE  Flows'
  <1>1. PICK all, nf, nu, cut : Line(all, nf, nu, cut)
    BY DEF Flows
  <1>2. /\ pc = "read" /\ UNCHANGED faults
        /\ UNCHANGED <<sentFiles, sentUpdates, gotFiles, gotUpdates, plain, encSeq, decSeq,
                       bodies, other, decoder>>
        /\ pending' = pending \o SubSeq(net, 1, n) /\ net' = SubSeq(net, n + 1, Len(net))
    BY DEF Read, sents, gots, mac, counts
  <1>3. /\ pending \in Seq(Pieces) /\ net \in Seq(Pieces) /\ n \in 0..Len(net) /\ n \in Nat
        /\ Len(net) \in Nat /\ Len(pending) \in Nat /\ decSeq \in Nat /\ encSeq \in Nat
    <2>1. n <= Len(net)
      BY DEF Read
    <2>2. pending \in Seq(Pieces) /\ net \in Seq(Pieces) /\ decSeq \in Nat /\ encSeq \in Nat
      BY DEF TypeOK
    <2> QED BY <2>1, <2>2, Constants
  <1> DEFINE a == SubSeq(net, 1, n)
             b == SubSeq(net, n + 1, Len(net))
  <1>4. /\ a \in Seq(Pieces) /\ Len(a) = n /\ \A j \in 1..n : a[j] = net[j]
        /\ b \in Seq(Pieces) /\ Len(b) = Len(net) - n
        /\ \A j \in 1..Len(net) - n : b[j] = net[n + j]
    <2>1. /\ SubSeq(net, 0 + 1, n) \in Seq(Pieces) /\ Len(SubSeq(net, 0 + 1, n)) = n - 0
          /\ \A j \in 1..n - 0 : SubSeq(net, 0 + 1, n)[j] = net[0 + j]
      <3>1. 0 \in Nat /\ 0 <= n BY <1>3
      <3> QED BY <1>3, <3>1, Part
    <2>2. 0 + 1 = 1 /\ n - 0 = n /\ \A j \in 1..n : 0 + j = j
      BY <1>3
    <2>3. /\ b \in Seq(Pieces) /\ Len(b) = Len(net) - n
          /\ \A j \in 1..Len(net) - n : b[j] = net[n + j]
      <3>1. Len(net) \in 0..Len(net) /\ n <= Len(net) BY <1>3
      <3> QED BY <1>3, <3>1, Part
    <2>4. /\ a \in Seq(Pieces) /\ Len(a) = n /\ \A j \in 1..n : a[j] = net[j]
      BY <2>1, <2>2
    <2> QED BY <2>3, <2>4
  <1> HIDE DEF a, b
  <1>5. /\ Len(pending') = Len(pending) + n
        /\ \A j \in 1..Len(pending) : pending'[j] = pending[j]
        /\ \A j \in 1..n : pending'[Len(pending) + j] = net[j]
        /\ Len(net') = Len(net) - n /\ \A j \in 1..Len(net') : net'[j] = net[n + j]
    <2>1. pending \in Seq(Pieces) /\ a \in Seq(Pieces)
      BY <1>3, <1>4
    <2>2. /\ Len(pending \o a) = Len(pending) + Len(a)
          /\ \A j \in 1..Len(pending) : (pending \o a)[j] = pending[j]
          /\ \A j \in 1..Len(a) : (pending \o a)[Len(pending) + j] = a[j]
      BY <2>1, Joined
    <2>3. pending' = pending \o a /\ net' = b
      BY <1>2 DEF a, b
    <2> QED BY <1>4, <2>2, <2>3
  <1>6. /\ "damaged" \in faults \/ /\ \A j \in 1..Len(pending) : pending[j].intact
                                   /\ \A j \in 1..Len(net) : net[j].intact
        /\ \A j \in 1..Len(pending) : PieceOf(pending[j], 2 * decSeq + j, all, cut)
        /\ \A j \in 1..Len(net) : PieceOf(net[j], 2 * decSeq + Len(pending) + j, all, cut)
        /\ 2 * decSeq + Len(pending) + Len(net) = 2 * encSeq
    BY <1>1 DEF Line, Wire
  <1>7. ASSUME NEW j \in 1..Len(pending')
        PROVE  /\ PieceOf(pending'[j], 2 * decSeq + j, all, cut)
               /\ "damaged" \in faults \/ pending'[j].intact
    <2>1. CASE j <= Len(pending)
      <3>1. j \in 1..Len(pending) BY <2>1, <1>3
      <3> QED BY <3>1, <1>5, <1>6
    <2>2. CASE j > Len(pending)
      <3> DEFINE i == j - Len(pending)
      <3>1. i \in 1..n /\ i \in 1..Len(net) /\ Len(pending) + i = j
        BY <2>2, <1>3, <1>5
      <3> HIDE DEF i
      <3>2. pending'[j] = net[i]
        BY <3>1, <1>5
      <3>3. PieceOf(net[i], 2 * decSeq + Len(pending) + i, all, cut)
        BY <3>1, <1>6
      <3>4. 2 * decSeq + Len(pending) + i = 2 * decSeq + j
        BY <3>1, <1>3
      <3>5. "damaged" \in faults \/ net[i].intact
        BY <3>1, <1>6
      <3> QED BY <3>2, <3>3, <3>4, <3>5
    <2> QED BY <2>1, <2>2, <1>3
  <1>8. ASSUME NEW j \in 1..Len(net')
        PROVE  /\ PieceOf(net'[j], 2 * decSeq + Len(pending') + j, all, cut)
               /\ "damaged" \in faults \/ net'[j].intact
    <2>1. n + j \in 1..Len(net) /\ net'[j] = net[n + j]
      BY <1>3, <1>5
    <2>2. PieceOf(net[n + j], 2 * decSeq + Len(pending) + (n + j), all, cut)
      BY <2>1, <1>6
    <2>3. 2 * decSeq + Len(pending) + (n + j) = 2 * decSeq + Len(pending') + j
      BY <2>1, <1>3, <1>5
    <2> QED BY <2>1, <2>2, <2>3, <1>6
  <1>9. Wire(all, cut)'
    <2>1. 2 * decSeq + Len(pending') + Len(net') = 2 * encSeq
      <3>1. Len(pending') = Len(pending) + n /\ Len(net') = Len(net) - n
            /\ 2 * decSeq + Len(pending) + Len(net) = 2 * encSeq
        BY <1>5, <1>6
      <3> QED BY <1>3, <3>1
    <2> QED BY <1>2, <1>7, <1>8, <2>1 DEF Wire
  <1>10. Written(all, nf, nu)' /\ Records(all, cut)' /\ Decrypted(all, cut)' /\ Fed' = Fed
    BY <1>1, <1>2 DEF Line, Written, WrittenAt, Records, Decrypted, Fed
  <1>11. Kept(all, cut[Fed])' /\ Seen(all, nf, nu, cut[Fed] - Len(decoder) - Len(other))'
    <2>1. pc' # "inspect" /\ pc # "inspect" BY <1>2
    <2> QED BY <1>1, <1>2, <1>10, <2>1 DEF Line, Kept, Seen
  <1>12. Line(all, nf, nu, cut)'
    BY <1>1, <1>2, <1>9, <1>10, <1>11 DEF Line
  <1> QED BY <1>12 DEF Flows

\* The facts about types that the steps of the stream need.
LEMMA StreamTypes ==
  ASSUME TypeOK
  PROVE  /\ pending \in Seq(Pieces) /\ net \in Seq(Pieces) /\ plain \in Seq(Units)
         /\ bodies \in Seq(Seq(Units)) /\ other \in Seq(Units) /\ decoder \in Seq(Units)
         /\ Len(pending) \in Nat /\ Len(net) \in Nat /\ Len(plain) \in Nat /\ Len(bodies) \in Nat
         /\ Len(other) \in Nat /\ Len(decoder) \in Nat /\ decSeq \in Nat /\ encSeq \in Nat
  BY DEF TypeOK

\* The cuts are places in all, one after the other.
LEMMA Cuts ==
  ASSUME NEW all, NEW nf, NEW nu, NEW cut, Line(all, nf, nu, cut), TypeOK
  PROVE  /\ all \in Seq(Units) /\ Len(all) \in Nat
         /\ \A r \in 0..encSeq : cut[r] \in 0..Len(all) /\ cut[r] \in Nat
         /\ \A r \in 0..encSeq - 1 : cut[r] < cut[r + 1]
         /\ decSeq <= encSeq /\ Fed \in 0..decSeq /\ Fed \in Nat
         /\ DOMAIN cut = 0..encSeq
  <1>1. /\ all \in Seq(Units) /\ cut \in [0..encSeq -> 0..Len(all)]
        /\ \A r \in 0..encSeq - 1 : cut[r] < cut[r + 1]
        /\ 2 * decSeq + Len(pending) + Len(net) = 2 * encSeq /\ Len(bodies) <= decSeq
    BY DEF Line, Records, Wire, Decrypted
  <1>2. Len(all) \in Nat /\ decSeq <= encSeq /\ Fed \in 0..decSeq /\ Fed \in Nat
    <2>1. /\ Len(pending) \in Nat /\ Len(net) \in Nat /\ Len(bodies) \in Nat
          /\ decSeq \in Nat /\ encSeq \in Nat
      BY StreamTypes
    <2>2. decSeq <= encSeq
      BY <1>1, <2>1
    <2>3. Fed \in 0..decSeq /\ Fed \in Nat
      BY <1>1, <2>1 DEF Fed
    <2> QED BY <1>1, <2>2, <2>3
  <1>3. \A r \in 0..encSeq : cut[r] \in 0..Len(all) /\ cut[r] \in Nat
    BY <1>1, <1>2
  <1> QED BY <1>1, <1>2, <1>3

\* The two pieces of a record are where they should be.
LEMMA PiecesFit ==
  ASSUME NEW all, NEW nf, NEW nu, NEW cut, Line(all, nf, nu, cut), TypeOK,
         NEW i \in 1..Whole
  PROVE  /\ 2 * i - 1 \in 1..Len(pending) /\ 2 * i \in 1..Len(pending)
         /\ pending[2 * i - 1].half = 1 /\ pending[2 * i].half = 2
         /\ pending[2 * i - 1].seq = decSeq + i - 1 /\ pending[2 * i].seq = decSeq + i - 1
         /\ pending[2 * i].body = SubSeq(all, cut[decSeq + i - 1] + 1, cut[decSeq + i])
         /\ decSeq + i <= encSeq
  <1>1. 2 * i - 1 \in 1..Len(pending) /\ 2 * i \in 1..Len(pending) /\ i \in Nat
    BY StreamTypes DEF Whole
  <1>2. pending[2 * i - 1] \in Pieces /\ pending[2 * i] \in Pieces
    BY <1>1, StreamTypes
  <1>3. /\ PieceOf(pending[2 * i - 1], 2 * decSeq + (2 * i - 1), all, cut)
        /\ PieceOf(pending[2 * i], 2 * decSeq + 2 * i, all, cut)
    BY <1>1 DEF Line, Wire
  <1> DEFINE p == pending[2 * i - 1]
             q == pending[2 * i]
  <1>4. /\ p.seq \in Nat /\ q.seq \in Nat /\ p.half \in {1, 2} /\ q.half \in {1, 2}
        /\ 2 * p.seq + p.half = 2 * decSeq + (2 * i - 1)
        /\ 2 * q.seq + q.half = 2 * decSeq + 2 * i
        /\ q.body = SubSeq(all, cut[q.seq] + 1, cut[q.seq + 1])
        /\ q.seq + 1 \in DOMAIN cut
    BY <1>2, <1>3 DEF PieceOf, Pieces
  <1> HIDE DEF p, q
  <1>5. p.half = 1 /\ q.half = 2 /\ p.seq = decSeq + i - 1 /\ q.seq = decSeq + i - 1
        /\ q.seq + 1 = decSeq + i
    <2>1. decSeq \in Nat BY StreamTypes
    <2> DEFINE t == decSeq + i - 1
    <2>2. \A r \in Nat : \A s \in Nat : \A h \in {1, 2} :
            /\ 2 * s + h = 2 * r + 1 => h = 1 /\ s = r
            /\ 2 * s + h = 2 * r + 2 => h = 2 /\ s = r
      OBVIOUS
    <2>3. t \in Nat /\ 2 * decSeq + (2 * i - 1) = 2 * t + 1 /\ 2 * decSeq + 2 * i = 2 * t + 2
      BY <1>1, <2>1
    <2> HIDE DEF t
    <2>4. p.half = 1 /\ p.seq = t
      <3>1. 2 * p.seq + p.half = 2 * t + 1 /\ p.seq \in Nat /\ p.half \in {1, 2}
        BY <1>4, <2>3
      <3> QED BY <2>2, <2>3, <3>1
    <2>5. q.half = 2 /\ q.seq = t
      <3>1. 2 * q.seq + q.half = 2 * t + 2 /\ q.seq \in Nat /\ q.half \in {1, 2}
        BY <1>4, <2>3
      <3> QED BY <2>2, <2>3, <3>1
    <2>6. t = decSeq + i - 1
      BY DEF t
    <2> QED BY <1>1, <2>1, <2>4, <2>5, <2>6
  <1>6. decSeq + i <= encSeq
    <2>1. DOMAIN cut = 0..encSeq BY Cuts
    <2> QED BY <1>4, <1>5, <2>1
  <1> QED BY <1>1, <1>4, <1>5, <1>6 DEF p, q

\* A session that is broken off for a record has got a damaged one.
LEMMA DamageBlamed ==
  ASSUME TypeOK, Flows, ~(\A i \in 1..Whole : Verifies(i))
  PROVE  "damaged" \in faults
  <1>1. PICK all, nf, nu, cut : Line(all, nf, nu, cut)
    BY DEF Flows
  <1>2. PICK i \in 1..Whole : ~Verifies(i)
    OBVIOUS
  <1>3. ~pending[2 * i].intact /\ 2 * i \in 1..Len(pending)
    BY <1>1, <1>2, PiecesFit DEF Verifies
  <1> QED BY <1>1, <1>3 DEF Line, Wire

\* Draining turns whole records into bodies.
LEMMA FlowsDrain ==
  ASSUME TypeOK, Reading, Flows, Drain, pc' # "over"
  PROVE  Flows'
  <1>1. PICK all, nf, nu, cut : Line(all, nf, nu, cut)
    BY DEF Flows
  <1> DEFINE w == Whole
             f == [i \in 1..w |-> pending[2 * i].body]
             q == SubSeq(pending, 2 * w + 1, Len(pending))
  <1>2. /\ pc = "read" /\ pc' = "feed" /\ bodies = <<>> /\ UNCHANGED faults
        /\ UNCHANGED <<sentFiles, sentUpdates, gotFiles, gotUpdates, plain, net, encSeq,
                       other, decoder>>
    BY DEF Drain, Reading, sents, gots, mac, counts, Over, Goes
  <1>3. bodies' = f /\ pending' = q /\ decSeq' = decSeq + w
    <2>1. CASE (reads > 0 /\ ~macOpen) \/ ~(\A i \in 1..Whole : Verifies(i))
      BY <2>1 DEF Drain, Over
    <2>2. CASE ~(reads > 0 /\ ~macOpen) /\ (\A i \in 1..Whole : Verifies(i))
      BY <2>2, Zenon DEF Drain, Goes, w
    <2> QED BY <2>1, <2>2
  <1>4. /\ w \in Nat /\ 2 * w <= Len(pending) /\ Len(f) = w
        /\ \A i \in 1..w : f[i] = pending[2 * i].body
    BY StreamTypes DEF Whole
  <1>5. /\ Len(q) = Len(pending) - 2 * w
        /\ \A i \in 1..Len(pending) - 2 * w : q[i] = pending[2 * w + i]
    <2>1. /\ 2 * w \in Nat /\ Len(pending) \in 0..Len(pending) /\ 2 * w <= Len(pending)
          /\ pending \in Seq(Pieces)
      BY <1>4, StreamTypes
    <2>2. PICK a, b : a = 2 * w /\ b = Len(pending)
      OBVIOUS
    <2> HIDE DEF w, f
    <2>3. Len(SubSeq(pending, a + 1, b)) = b - a
          /\ \A i \in 1..b - a : SubSeq(pending, a + 1, b)[i] = pending[a + i]
      BY <2>1, <2>2, Part
    <2> QED BY <2>2, <2>3
  <1>6. \A i \in 1..w : /\ f[i] = SubSeq(all, cut[decSeq + i - 1] + 1, cut[decSeq + i])
                        /\ decSeq + i <= encSeq
    BY <1>1, <1>4, PiecesFit
  <1> HIDE DEF w, f, q
  <1>7. Fed' = decSeq /\ Fed = decSeq /\ decSeq' = decSeq + w
    <2>1. Len(bodies') = w /\ Len(bodies) = 0 BY <1>2, <1>3, <1>4
    <2> QED BY <2>1, <1>3, <1>4, StreamTypes DEF Fed
  <1>8. Decrypted(all, cut)'
    <2>1. \A i \in 1..Len(f) : f[i] = SubSeq(all, cut[decSeq + i - 1] + 1, cut[decSeq + i])
      BY <1>4, <1>6
    <2>2. Len(f) <= decSeq + w
      BY <1>4, StreamTypes
    <2> QED BY <1>3, <1>7, <2>1, <2>2 DEF Decrypted
  <1>9. Wire(all, cut)'
    <2>1. Wire(all, cut)
      BY <1>1 DEF Line
    <2>2. ASSUME NEW j \in 1..Len(q)
          PROVE  /\ PieceOf(q[j], 2 * (decSeq + w) + j, all, cut)
                 /\ "damaged" \in faults \/ q[j].intact
      <3>1. 2 * w + j \in 1..Len(pending) /\ q[j] = pending[2 * w + j]
        BY <1>4, <1>5, StreamTypes
      <3>2. PieceOf(pending[2 * w + j], 2 * decSeq + (2 * w + j), all, cut)
        BY <2>1, <3>1 DEF Wire
      <3>3. 2 * decSeq + (2 * w + j) = 2 * (decSeq + w) + j
        <4>1. \A x, y, z \in Int : 2 * x + (2 * y + z) = 2 * (x + y) + z
          OBVIOUS
        <4>2. decSeq \in Int /\ w \in Int /\ j \in Int
          BY <1>4, StreamTypes
        <4> QED BY <4>1, <4>2
      <3> QED BY <2>1, <3>1, <3>2, <3>3 DEF Wire
    <2>3. 2 * (decSeq + w) + Len(q) = 2 * decSeq + Len(pending)
      BY <1>4, <1>5, StreamTypes
    <2>4. \A j \in 1..Len(net) : PieceOf(net[j], 2 * (decSeq + w) + Len(q) + j, all, cut)
      BY <2>1, <2>3 DEF Wire
    <2>5. 2 * (decSeq + w) + Len(q) + Len(net) = 2 * encSeq
      BY <2>1, <2>3 DEF Wire
    <2> QED BY <1>2, <1>3, <2>1, <2>2, <2>4, <2>5 DEF Wire
  <1>10. Written(all, nf, nu)' /\ Records(all, cut)'
    BY <1>1, <1>2 DEF Line, Written, WrittenAt, Records
  <1>11. Kept(all, cut[Fed])' /\ Seen(all, nf, nu, cut[Fed] - Len(decoder) - Len(other))'
    <2>1. cut[Fed'] = cut[Fed] /\ pc # "inspect" /\ pc' # "inspect"
      BY <1>2, <1>7
    <2> QED BY <1>1, <1>2, <2>1 DEF Line, Kept, Seen
  <1>12. Line(all, nf, nu, cut)'
    BY <1>1, <1>2, <1>8, <1>9, <1>10, <1>11 DEF Line
  <1> QED BY <1>12 DEF Flows

\* Where a message begins, behind position p, it is the next of its kind.
LEMMA NextMessage ==
  ASSUME NEW all \in Seq(Units), NEW nf, NEW nu, Written(all, nf, nu),
         NEW p \in Nat, p + 1 \in 1..Len(all), all[p + 1].part = 1
  PROVE  /\ IsFile(all[p + 1]) \/ IsUpdate(all[p + 1])
         /\ IsFile(all[p + 1]) =>
              /\ all[p + 1].m = sentFiles[nf[p] + 1]
              /\ p + 2 <= Len(all) /\ all[p + 2] = [all[p + 1] EXCEPT !.part = 2]
              /\ nf[p + 2] = nf[p] + 1 /\ nu[p + 2] = nu[p]
              /\ p + 2 < Len(all) => all[p + 3].part = 1
         /\ IsUpdate(all[p + 1]) =>
              /\ all[p + 1].m = sentUpdates[nu[p] + 1]
              /\ nf[p + 1] = nf[p] /\ nu[p + 1] = nu[p] + 1
              /\ p + 1 < Len(all) => all[p + 2].part = 1
  <1> DEFINE W(i) ==
       \/ /\ IsUpdate(all[i]) /\ all[i].part = 1 /\ all[i].m = sentUpdates[nu[i]]
          /\ nf[i] = nf[i - 1] /\ nu[i] = nu[i - 1] + 1
       \/ /\ IsFile(all[i]) /\ all[i].m = sentFiles[nf[i]]
          /\ i < Len(all) /\ all[i + 1] = [all[i] EXCEPT !.part = 2]
          /\ nf[i] = nf[i - 1] + 1 /\ nu[i] = nu[i - 1]
       \/ /\ all[i].m.k = "file" /\ all[i].part = 2 /\ i > 1 /\ IsFile(all[i - 1])
          /\ nf[i] = nf[i - 1] /\ nu[i] = nu[i - 1]
  <1>1. \A i \in 1..Len(all) : W(i)
    BY DEF Written, WrittenAt
  <1>2. Len(all) \in Nat /\ p + 1 \in 1..Len(all) /\ (p + 1) - 1 = p /\ (p + 1) + 1 = p + 2
        /\ (p + 2) - 1 = p + 1 /\ (p + 3) - 1 = p + 2
    OBVIOUS
  <1>3. W(p + 1)
    BY <1>1
  <1>4. IsFile(all[p + 1]) \/ IsUpdate(all[p + 1])
    BY <1>3
  <1>5. \A u : IsFile(u) => ~IsUpdate(u) /\ u.part = 1 /\ u.m.k = "file"
    BY DEF IsFile, IsUpdate
  <1>6. ASSUME IsFile(all[p + 1])
        PROVE  /\ all[p + 1].m = sentFiles[nf[p] + 1]
               /\ p + 2 <= Len(all) /\ all[p + 2] = [all[p + 1] EXCEPT !.part = 2]
               /\ nf[p + 2] = nf[p] + 1 /\ nu[p + 2] = nu[p]
               /\ p + 2 < Len(all) => all[p + 3].part = 1
    <2>1. ~IsUpdate(all[p + 1]) /\ all[p + 1].part = 1 /\ all[p + 1].m.k = "file"
      BY <1>5, <1>6
    <2>2. /\ all[p + 1].m = sentFiles[nf[p + 1]]
          /\ p + 1 < Len(all) /\ all[(p + 1) + 1] = [all[p + 1] EXCEPT !.part = 2]
          /\ nf[p + 1] = nf[(p + 1) - 1] + 1 /\ nu[p + 1] = nu[(p + 1) - 1]
      BY <1>3, <2>1
    <2>3. p + 2 \in 1..Len(all) /\ all[p + 1] \in Units /\ p + 2 <= Len(all)
      BY <1>2, <2>2
    <2>4. all[p + 2].part = 2 /\ all[p + 2].m = all[p + 1].m
      BY <1>2, <2>2, <2>3 DEF Units
    <2>5. ~IsFile(all[p + 2]) /\ ~IsUpdate(all[p + 2])
      BY <1>5, <2>1, <2>4 DEF IsUpdate
    <2>6. W(p + 2)
      BY <1>1, <2>3
    <2>7. nf[p + 2] = nf[(p + 2) - 1] /\ nu[p + 2] = nu[(p + 2) - 1]
      BY <2>5, <2>6
    <2>8. ASSUME p + 2 < Len(all) PROVE all[p + 3].part = 1
      <3>1. p + 3 \in 1..Len(all)
        BY <1>2, <2>8
      <3>2. W(p + 3)
        BY <1>1, <3>1
      <3>3. ~IsFile(all[(p + 3) - 1])
        BY <1>2, <2>5
      <3>4. (IsUpdate(all[p + 3]) /\ all[p + 3].part = 1) \/ IsFile(all[p + 3])
        BY <3>2, <3>3
      <3> QED BY <3>4, <1>5
    <2> QED BY <1>2, <2>2, <2>3, <2>7, <2>8
  <1>7. ASSUME IsUpdate(all[p + 1])
        PROVE  /\ all[p + 1].m = sentUpdates[nu[p] + 1]
               /\ nf[p + 1] = nf[p] /\ nu[p + 1] = nu[p] + 1
               /\ p + 1 < Len(all) => all[p + 2].part = 1
    <2>1. ~IsFile(all[p + 1]) /\ all[p + 1].m.k # "file"
      BY <1>5, <1>7 DEF IsUpdate
    <2>2. all[p + 1].m = sentUpdates[nu[p + 1]] /\ nf[p + 1] = nf[(p + 1) - 1]
          /\ nu[p + 1] = nu[(p + 1) - 1] + 1
      BY <1>3, <2>1
    <2>3. ASSUME p + 1 < Len(all) PROVE all[p + 2].part = 1
      <3>1. p + 2 \in 1..Len(all)
        BY <1>2, <2>3
      <3>2. W(p + 2)
        BY <1>1, <3>1
      <3>3. ~IsFile(all[(p + 2) - 1])
        BY <1>2, <2>1
      <3>4. (IsUpdate(all[p + 2]) /\ all[p + 2].part = 1) \/ IsFile(all[p + 2])
        BY <3>2, <3>3
      <3> QED BY <3>4, <1>5
    <2> QED BY <1>2, <2>2, <2>3
  <1> QED BY <1>4, <1>6, <1>7

\* n file messages in a row, from a place c where a message begins.
Row(all, c, n) ==
  /\ c \in Nat /\ n \in Nat /\ c + 2 * n <= Len(all)
  /\ c < Len(all) => all[c + 1].part = 1
  /\ \A i \in 1..n : IsFile(all[c + (2 * i - 1)])

\* They are whole and the next ones sent, and a message begins behind them.
RowSent(all, nf, nu, c, n) ==
  /\ nf[c + 2 * n] = nf[c] + n /\ nu[c + 2 * n] = nu[c]
  /\ c + 2 * n < Len(all) => all[c + 2 * n + 1].part = 1
  /\ \A i \in 1..n : /\ all[c + 2 * i] = [all[c + (2 * i - 1)] EXCEPT !.part = 2]
                     /\ all[c + (2 * i - 1)].m = sentFiles[nf[c] + i]

\* In a row of n whole file messages, each is the next one that was sent.
LEMMA MessagesInRow ==
  ASSUME NEW all \in Seq(Units), NEW nf \in [0..Len(all) -> Nat], NEW nu, Written(all, nf, nu),
         NEW c, NEW n, Row(all, c, n)
  PROVE  RowSent(all, nf, nu, c, n)
  <1>1. /\ c \in Nat /\ n \in Nat /\ c + 2 * n <= Len(all)
        /\ c < Len(all) => all[c + 1].part = 1
        /\ \A i \in 1..n : IsFile(all[c + (2 * i - 1)])
    BY DEF Row
  <1> DEFINE Good == {k \in Nat : k <= n =>
                        /\ nf[c + 2 * k] = nf[c] + k /\ nu[c + 2 * k] = nu[c]
                        /\ c + 2 * k < Len(all) => all[c + 2 * k + 1].part = 1}
  <1>2. 0 \in Good
    <2>1. nf[c] \in Nat /\ c + 2 * 0 = c
      BY <1>1
    <2> QED BY <1>1, <2>1
  <1>3. ASSUME NEW k \in Nat, k \in Good, k + 1 <= n
        PROVE  /\ nf[c + 2 * (k + 1)] = nf[c] + (k + 1) /\ nu[c + 2 * (k + 1)] = nu[c]
               /\ c + 2 * (k + 1) < Len(all) => all[c + 2 * (k + 1) + 1].part = 1
               /\ all[c + 2 * (k + 1)] = [all[c + (2 * (k + 1) - 1)] EXCEPT !.part = 2]
               /\ all[c + (2 * (k + 1) - 1)].m = sentFiles[nf[c] + (k + 1)]
    <2> DEFINE p == c + 2 * k
    <2>1. /\ nf[p] = nf[c] + k /\ nu[p] = nu[c]
          /\ p < Len(all) => all[p + 1].part = 1
      BY <1>3
    <2>2. /\ p \in Nat /\ p + 1 \in 1..Len(all) /\ p < Len(all)
          /\ c + 2 * (k + 1) = p + 2 /\ c + (2 * (k + 1) - 1) = p + 1
          /\ c + 2 * (k + 1) + 1 = p + 3 /\ k + 1 \in 1..n
          /\ nf[c] \in Nat
      BY <1>1, <1>3
    <2>3. IsFile(all[p + 1])
      <3>1. k + 1 \in 1..n => IsFile(all[c + (2 * (k + 1) - 1)])
        BY <1>1
      <3> QED BY <2>2, <3>1
    <2> HIDE DEF p, Good
    <2>4. /\ all[p + 1].m = sentFiles[nf[p] + 1]
          /\ p + 2 <= Len(all) /\ all[p + 2] = [all[p + 1] EXCEPT !.part = 2]
          /\ nf[p + 2] = nf[p] + 1 /\ nu[p + 2] = nu[p]
          /\ p + 2 < Len(all) => all[p + 3].part = 1
      BY <2>1, <2>2, <2>3, NextMessage
    <2>5. (nf[c] + k) + 1 = nf[c] + (k + 1)
      <3>1. \A x, y \in Nat : (x + y) + 1 = x + (y + 1)
        OBVIOUS
      <3> QED BY <2>2, <3>1
    <2> QED BY <2>1, <2>2, <2>4, <2>5
  <1>4. \A k \in Nat : k \in Good => k + 1 \in Good
    <2> SUFFICES ASSUME NEW k \in Nat, k \in Good PROVE k + 1 \in Good
      OBVIOUS
    <2>1. k + 1 \in Nat
      OBVIOUS
    <2>2. k + 1 <= n =>
            /\ nf[c + 2 * (k + 1)] = nf[c] + (k + 1) /\ nu[c + 2 * (k + 1)] = nu[c]
            /\ c + 2 * (k + 1) < Len(all) => all[c + 2 * (k + 1) + 1].part = 1
      <3> HIDE DEF Good
      <3> QED BY <1>3
    <2> QED BY <2>1, <2>2, Zenon
  <1>5. Nat \subseteq Good
    <2> HIDE DEF Good
    <2> QED BY <1>2, <1>4, Induct
  <1>6. ASSUME NEW i \in 1..n
        PROVE  /\ all[c + 2 * i] = [all[c + (2 * i - 1)] EXCEPT !.part = 2]
               /\ all[c + (2 * i - 1)].m = sentFiles[nf[c] + i]
    <2>1. i - 1 \in Nat /\ (i - 1) + 1 = i /\ (i - 1) + 1 <= n
      BY <1>1
    <2>2. i - 1 \in Good
      BY <1>5, <2>1
    <2> HIDE DEF Good
    <2> QED BY <1>3, <2>1, <2>2
  <1>7. /\ nf[c + 2 * n] = nf[c] + n /\ nu[c + 2 * n] = nu[c]
        /\ c + 2 * n < Len(all) => all[c + 2 * n + 1].part = 1
    <2>1. n \in Good /\ n <= n
      BY <1>1, <1>5
    <2> QED BY <2>1
  <1> QED BY <1>6, <1>7 DEF RowSent

\* What is fed is the part of all from the place c where a message begins to the end x
\* of the record.
Feeds(all, nf, nu, cut, c, x, us) ==
  /\ c \in Nat /\ x \in Nat /\ c < x /\ x <= Len(all)
  /\ c = cut[Fed] - Len(decoder) /\ x = cut[Fed + 1]
  /\ us = SubSeq(all, c + 1, x) /\ us \in Seq(Units) /\ Len(us) = x - c
  /\ \A i \in 1..x - c : us[i] = all[c + i]
  /\ \A p \in c + 1..x - 1 : all[p].m.k = "file"
  /\ Fed + 1 \in 0..decSeq /\ Seen(all, nf, nu, c)

\* What goes through the decoder is the next part of the line.
LEMMA FeedShape ==
  ASSUME NEW all, NEW nf, NEW nu, NEW cut, Line(all, nf, nu, cut), TypeOK,
         pc = "feed", bodies # <<>>
  PROVE  Feeds(all, nf, nu, cut, cut[Fed] - Len(decoder), cut[Fed + 1], decoder \o Head(bodies))
  <1> DEFINE e == cut[Fed]
             x == cut[Fed + 1]
             c == e - Len(decoder)
             b == Head(bodies)
             us == decoder \o b
  <1>1. /\ all \in Seq(Units) /\ Len(all) \in Nat
        /\ \A r \in 0..encSeq : cut[r] \in 0..Len(all) /\ cut[r] \in Nat
        /\ \A r \in 0..encSeq - 1 : cut[r] < cut[r + 1]
        /\ decSeq <= encSeq /\ Fed \in 0..decSeq /\ Fed \in Nat
    BY Cuts
  <1>2. bodies \in Seq(Seq(Units)) /\ Len(bodies) \in Nat /\ Len(bodies) > 0 /\ decSeq \in Nat
        /\ encSeq \in Nat /\ b = bodies[1] /\ 1 \in 1..Len(bodies)
    BY StreamTypes
  <1>3. Fed + 1 \in 0..decSeq /\ Fed \in 0..encSeq - 1 /\ Fed + 1 \in 0..encSeq
    BY <1>1, <1>2 DEF Fed
  <1>4. /\ cut[Fed] \in Nat /\ cut[Fed + 1] \in 0..Len(all) /\ cut[Fed] < cut[Fed + 1]
    <2> DEFINE r == Fed
    <2>1. r \in 0..encSeq /\ r \in 0..encSeq - 1 /\ r + 1 \in 0..encSeq
      BY <1>1, <1>2, <1>3
    <2> HIDE DEF r
    <2>2. cut[r] \in Nat /\ cut[r + 1] \in 0..Len(all) /\ cut[r] < cut[r + 1]
      BY <1>1, <2>1
    <2> QED BY <2>2 DEF r
  <1>5. e \in Nat /\ x \in Nat /\ e < x /\ x <= Len(all) /\ e <= Len(all) /\ x \in 0..Len(all)
    <2>1. \A i, j, k \in Nat : i < j /\ j \in 0..k => j <= k /\ i <= k
      OBVIOUS
    <2> QED BY <1>1, <1>4, <2>1
  <1>6. b = SubSeq(all, e + 1, x)
    <2>1. bodies[1] = SubSeq(all, cut[Fed + 1 - 1] + 1, cut[Fed + 1])
      BY <1>2 DEF Line, Decrypted
    <2>2. Fed + 1 - 1 = Fed
      BY <1>1
    <2> QED BY <2>1, <2>2, <1>2
  <1>7. \A p \in e + 1..x - 1 : all[p].m.k = "file"
    BY <1>3 DEF Line, Records
  <1>8. other = <<>> /\ Len(other) = 0
        /\ (decoder # <<>> => e > 0 /\ decoder = <<all[e]>> /\ IsFile(all[e]) /\ all[e].m.good)
    BY DEF Line, Kept
  <1>9. Seen(all, nf, nu, c)
    <2>1. Len(decoder) \in Nat
      BY StreamTypes
    <2>2. c - Len(other) = c
      BY <1>5, <1>8, <2>1
    <2> QED BY <2>2 DEF Line
  <1> HIDE DEF e, x, b
  <1>10. /\ c \in Nat /\ c <= e /\ us = SubSeq(all, c + 1, x)
         /\ \A p \in c + 1..x - 1 : all[p].m.k = "file"
    <2>1. CASE decoder = <<>>
      <3>1. SubSeq(all, e + 1, x) \in Seq(Units)
        BY <1>1, <1>5, Part
      <3>2. c = e
        BY <2>1, <1>5
      <3>3. us = b
        BY <2>1, <3>1, <1>6, ConcatEmptySeq
      <3>4. c \in Nat /\ c <= e
        BY <3>2, <1>5
      <3> QED BY <3>2, <3>3, <3>4, <1>6, <1>7
    <2>2. CASE decoder # <<>>
      <3>1. e > 0 /\ decoder = <<all[e]>> /\ IsFile(all[e])
        BY <2>2, <1>8
      <3>2. Len(decoder) = 1
        BY <3>1
      <3>3. c \in Nat /\ c + 1 = e /\ c <= e /\ e \in 1..Len(all)
        BY <1>5, <3>1, <3>2
      <3>4. decoder = SubSeq(all, c + 1, e)
        <4>1. SubSeq(all, e, e) = <<all[e]>>
          BY <1>1, <3>3, OneUnit
        <4> QED BY <3>1, <3>3, <4>1
      <3>5. us = SubSeq(all, c + 1, x)
        <4>1. SubSeq(all, c + 1, e) \o SubSeq(all, e + 1, x) = SubSeq(all, c + 1, x)
          <5> HIDE DEF c
          <5>1. c \in Nat /\ e \in Nat /\ x \in 0..Len(all) /\ c <= e /\ e <= x
            BY <1>5, <3>3
          <5> QED BY <1>1, <5>1, PartsJoin
        <4> QED BY <3>4, <4>1, <1>6
      <3>6. \A p \in c + 1..x - 1 : all[p].m.k = "file"
        <4> SUFFICES ASSUME NEW p \in c + 1..x - 1 PROVE all[p].m.k = "file"
          OBVIOUS
        <4>1. p = e \/ p \in e + 1..x - 1
          BY <3>3, <1>5
        <4> QED BY <4>1, <3>1, <1>7 DEF IsFile
      <3> QED BY <3>3, <3>5, <3>6
    <2> QED BY <2>1, <2>2
  <1> HIDE DEF c, us
  <1>11. us \in Seq(Units) /\ Len(us) = x - c /\ \A i \in 1..x - c : us[i] = all[c + i]
    <2>1. c \in Nat /\ x \in 0..Len(all) /\ c <= x
      BY <1>5, <1>10
    <2> QED BY <2>1, <1>1, <1>10, Part
  <1>12. c < x
    BY <1>5, <1>10
  <1>13. c = cut[Fed] - Len(decoder) /\ x = cut[Fed + 1] /\ us = decoder \o Head(bodies)
    BY DEF c, x, us, e, b
  <1>14. Feeds(all, nf, nu, cut, c, x, us)
    BY <1>3, <1>5, <1>9, <1>10, <1>11, <1>12, <1>13 DEF Feeds
  <1> QED BY <1>13, <1>14

\* What the decoder makes of it are the next messages the Mac has sent.
LEMMA FeedParse ==
  ASSUME NEW all, NEW nf, NEW nu, NEW cut, Line(all, nf, nu, cut), TypeOK, Said,
         NEW c, NEW x, NEW us, Feeds(all, nf, nu, cut, c, x, us),
         NEW d, NEW n, DecodedAs(us, d, n)
  PROVE  /\ n \in Nat /\ c + 2 * n <= x /\ d.sound
         /\ nf[c + 2 * n] = nf[c] + n /\ nu[c + 2 * n] = nu[c]
         /\ c + 2 * n < Len(all) => all[c + 2 * n + 1].part = 1
         /\ nf[c] \in Nat /\ nf[c] + n <= Len(sentFiles)
         /\ d.messages = SubSeq(sentFiles, nf[c] + 1, nf[c] + n)
  <1>1. /\ all \in Seq(Units) /\ Len(all) \in Nat /\ Written(all, nf, nu)
        /\ nf \in [0..Len(all) -> Nat]
    BY DEF Line
  <1>2. /\ c \in Nat /\ x \in Nat /\ c < x /\ x <= Len(all) /\ Len(us) = x - c
        /\ \A i \in 1..x - c : us[i] = all[c + i]
        /\ c < Len(all) => all[c + 1].part = 1
    BY DEF Feeds, Seen
  <1>3. n \in Nat /\ 2 * n <= x - c /\ c + 2 * n <= x /\ c + 2 * n <= Len(all)
    <2>1. n \in Nat /\ 2 * n <= Len(us)
      BY DEF DecodedAs
    <2> QED BY <1>1, <1>2, <2>1
  <1>4. \A i \in 1..n : us[2 * i - 1] = all[c + (2 * i - 1)] /\ us[2 * i] = all[c + 2 * i]
    <2> SUFFICES ASSUME NEW i \in 1..n
                 PROVE us[2 * i - 1] = all[c + (2 * i - 1)] /\ us[2 * i] = all[c + 2 * i]
      OBVIOUS
    <2>1. 2 * i - 1 \in 1..x - c /\ 2 * i \in 1..x - c
      BY <1>2, <1>3
    <2> QED BY <1>2, <2>1
  <1>5. \A i \in 1..n : IsFile(all[c + (2 * i - 1)])
    BY <1>4 DEF DecodedAs
  <1>6. /\ nf[c + 2 * n] = nf[c] + n /\ nu[c + 2 * n] = nu[c]
        /\ c + 2 * n < Len(all) => all[c + 2 * n + 1].part = 1
        /\ \A i \in 1..n : /\ all[c + 2 * i] = [all[c + (2 * i - 1)] EXCEPT !.part = 2]
                           /\ all[c + (2 * i - 1)].m = sentFiles[nf[c] + i]
    <2>1. Row(all, c, n)
      BY <1>2, <1>3, <1>5 DEF Row
    <2>2. RowSent(all, nf, nu, c, n)
      BY <1>1, <2>1, MessagesInRow
    <2> QED BY <2>2 DEF RowSent
  <1>7. d.sound
    <2>1. \A i \in 1..n : us[2 * i] = [us[2 * i - 1] EXCEPT !.part = 2]
      BY <1>4, <1>6
    <2> QED BY <2>1 DEF DecodedAs
  <1>8. nf[c] \in Nat /\ nf[c] + n <= Len(sentFiles)
    <2>1. c \in 0..Len(all) /\ c + 2 * n \in 0..Len(all)
      BY <1>1, <1>2, <1>3
    <2>2. nf[c + 2 * n] <= Len(sentFiles)
      BY <1>1, <2>1 DEF Written
    <2> QED BY <1>1, <1>6, <2>1, <2>2
  <1>9. d.messages = SubSeq(sentFiles, nf[c] + 1, nf[c] + n)
    <2> DEFINE a == nf[c]
               t == SubSeq(sentFiles, a + 1, a + n)
               f == [i \in 1..n |-> us[2 * i - 1].m]
    <2>1. sentFiles \in Seq(FileMessages) /\ a \in Nat /\ a + n \in 0..Len(sentFiles) /\ a <= a + n
      BY <1>3, <1>8 DEF Said
    <2>2. /\ t \in Seq(FileMessages) /\ Len(t) = (a + n) - a
          /\ \A i \in 1..(a + n) - a : t[i] = sentFiles[a + i]
      <3> HIDE DEF a
      <3> QED BY <2>1, Part
    <2>3. (a + n) - a = n
      BY <2>1, <1>3
    <2>4. \A i \in 1..n : us[2 * i - 1].m = sentFiles[a + i]
      BY <1>4, <1>6
    <2>5. d.messages = f
      BY DEF DecodedAs
    <2> HIDE DEF a, t
    <2>6. \A i \in 1..n : us[2 * i - 1].m \in FileMessages
      <3> SUFFICES ASSUME NEW i \in 1..n PROVE us[2 * i - 1].m \in FileMessages
        OBVIOUS
      <3>1. a + i \in 1..Len(sentFiles)
        BY <2>1, <1>3
      <3> QED BY <2>1, <2>4, <3>1
    <2>7. f \in [1..n -> FileMessages] /\ \A i \in 1..n : f[i] = us[2 * i - 1].m
      BY <2>6
    <2> HIDE DEF f
    <2>8. f \in Seq(FileMessages) /\ Len(f) = n
      BY <1>3, <2>7
    <2>9. \A i \in 1..Len(f) : f[i] = t[i]
      BY <2>2, <2>3, <2>4, <2>7, <2>8
    <2>10. f = t
      BY <2>2, <2>3, <2>8, <2>9, SeqEqual
    <2> QED BY <2>5, <2>10 DEF a, t
  <1> QED BY <1>3, <1>6, <1>7, <1>8, <1>9

\* Behind those messages there is nothing, one more half, or an update.
LEMMA FeedEnds ==
  ASSUME NEW all, NEW nf, NEW nu, NEW cut, Line(all, nf, nu, cut), TypeOK, Said,
         NEW c, NEW x, NEW us, Feeds(all, nf, nu, cut, c, x, us),
         NEW d, NEW n, DecodedAs(us, d, n)
  PROVE  /\ d.failed => "malformed" \in faults
         /\ ~d.failed =>
              \/ c + 2 * n = x /\ d.pending = <<>> /\ d.other = <<>>
              \/ /\ c + 2 * n + 1 = x /\ d.other = <<>> /\ d.pending = <<all[x]>>
                 /\ IsFile(all[x]) /\ all[x].m.good
              \/ /\ c + 2 * n + 1 = x /\ d.pending = <<>> /\ d.other = <<all[x]>>
                 /\ IsUpdate(all[x])
  <1>1. /\ all \in Seq(Units) /\ Len(all) \in Nat /\ Written(all, nf, nu)
        /\ nf \in [0..Len(all) -> Nat]
    BY DEF Line
  <1>2. /\ c \in Nat /\ x \in Nat /\ c < x /\ x <= Len(all) /\ Len(us) = x - c
        /\ us \in Seq(Units) /\ \A i \in 1..x - c : us[i] = all[c + i]
        /\ \A p \in c + 1..x - 1 : all[p].m.k = "file"
    BY DEF Feeds
  <1>3. /\ n \in Nat /\ c + 2 * n <= x /\ c + 2 * n <= Len(all)
        /\ nf[c + 2 * n] = nf[c] + n /\ nf[c] \in Nat
        /\ c + 2 * n < Len(all) => all[c + 2 * n + 1].part = 1
    <2>1. /\ n \in Nat /\ c + 2 * n <= x
          /\ nf[c + 2 * n] = nf[c] + n /\ nf[c] \in Nat
          /\ c + 2 * n < Len(all) => all[c + 2 * n + 1].part = 1
      BY FeedParse
    <2> QED BY <1>1, <1>2, <2>1
  <1> DEFINE p == c + 2 * n
  <1>4. p \in Nat /\ p <= x /\ (2 * n = Len(us) <=> p = x) /\ (2 * n < Len(us) <=> p < x)
    <2>1. c \in Nat /\ x \in Nat /\ n \in Nat /\ Len(us) = x - c /\ c + 2 * n <= x
      BY <1>2, <1>3
    <2>2. 2 * n \in Nat
      BY <2>1
    <2>3. \A l \in Nat : c + l <= x =>
            (l = x - c <=> c + l = x) /\ (l < x - c <=> c + l < x) /\ c + l \in Nat
      BY <2>1
    <2> QED BY <2>1, <2>2, <2>3
  <1>5. ASSUME p < x
        PROVE  /\ us[2 * n + 1] = all[p + 1] /\ all[p + 1] \in Units /\ p + 1 \in 1..Len(all)
               /\ IsFile(all[p + 1]) \/ IsUpdate(all[p + 1])
               /\ IsFile(all[p + 1]) =>
                    all[p + 1].m = sentFiles[nf[p] + 1] /\ nf[p] + 1 <= Len(sentFiles)
    <2>1. p < Len(all) /\ p + 1 \in 1..Len(all) /\ all[p + 1].part = 1
      BY <1>1, <1>2, <1>3, <1>5
    <2>2. us[2 * n + 1] = all[p + 1]
      <3>1. 2 * n + 1 \in 1..x - c /\ c + (2 * n + 1) = p + 1
        BY <1>2, <1>3, <1>5
      <3> QED BY <1>2, <3>1
    <2>3. all[p + 1] \in Units
      BY <1>1, <2>1
    <2> HIDE DEF p
    <2>4. /\ IsFile(all[p + 1]) \/ IsUpdate(all[p + 1])
          /\ IsFile(all[p + 1]) =>
               all[p + 1].m = sentFiles[nf[p] + 1] /\ p + 2 <= Len(all) /\ nf[p + 2] = nf[p] + 1
      BY <1>1, <1>4, <2>1, NextMessage
    <2>5. IsFile(all[p + 1]) => nf[p] + 1 <= Len(sentFiles)
      <3>1. p + 2 <= Len(all) => p + 2 \in 0..Len(all)
        BY <1>1, <1>4
      <3>2. \A q \in 0..Len(all) : nf[q] <= Len(sentFiles)
        BY <1>1 DEF Written
      <3> QED BY <2>4, <3>1, <3>2
    <2> QED BY <2>1, <2>2, <2>3, <2>4, <2>5
  <1> DEFINE u == all[p + 1]
  <1>6. nf[p] = nf[c] + n /\ nf[p] \in Nat
    BY <1>3
  <1> HIDE DEF p
  <1>7. ASSUME d.failed PROVE "malformed" \in faults
    <2>1. p < x /\ Malformed(us[2 * n + 1])
      BY <1>4, <1>7 DEF DecodedAs
    <2>2. IsFile(u) /\ ~u.m.good
      BY <1>5, <2>1 DEF Malformed
    <2>3. nf[p] + 1 \in 1..Len(sentFiles) /\ ~sentFiles[nf[p] + 1].good
      <3>1. u.m = sentFiles[nf[p] + 1] /\ nf[p] + 1 <= Len(sentFiles)
        BY <1>5, <2>1, <2>2
      <3>2. Len(sentFiles) \in Nat
        BY DEF Said
      <3> QED BY <1>6, <2>2, <3>1, <3>2
    <2> QED BY <2>3 DEF Said
  <1>8. ASSUME ~d.failed, p < x, IsFile(u)
        PROVE  /\ p + 1 = x /\ d.other = <<>> /\ d.pending = <<all[x]>>
               /\ IsFile(all[x]) /\ all[x].m.good
    <2>1. us[2 * n + 1] = u
      BY <1>5, <1>8
    <2>2. u.m.good
      BY <1>4, <1>8, <2>1 DEF DecodedAs, Malformed
    <2>3. ~(2 * n + 2 <= Len(us)) /\ d.other = <<>> /\ d.pending = SubSeq(us, 2 * n + 1, Len(us))
      BY <1>4, <1>8, <2>1, <2>2 DEF DecodedAs
    <2>4. Len(us) = 2 * n + 1 /\ p + 1 = x /\ 2 * n + 1 \in 1..Len(us)
      BY <1>2, <1>3, <1>4, <1>8, <2>3 DEF p
    <2>5. SubSeq(us, 2 * n + 1, 2 * n + 1) = <<us[2 * n + 1]>>
      BY <1>2, <2>4, OneUnit
    <2> QED BY <1>8, <2>1, <2>2, <2>3, <2>4, <2>5
  <1>9. ASSUME ~d.failed, p < x, ~IsFile(u)
        PROVE  p + 1 = x /\ d.pending = <<>> /\ d.other = <<all[x]>> /\ IsUpdate(all[x])
    <2>1. us[2 * n + 1] = u /\ IsUpdate(u)
      BY <1>5, <1>9
    <2>2. d.pending = <<>> /\ d.other = SubSeq(us, 2 * n + 1, Len(us))
      BY <1>4, <1>9, <2>1 DEF DecodedAs
    <2>3. p + 1 = x
      <3> SUFFICES ASSUME p + 1 # x PROVE FALSE
        OBVIOUS
      <3>1. p + 1 \in c + 1..x - 1
        BY <1>2, <1>3, <1>4, <1>9 DEF p
      <3>2. u.m.k = "file"
        BY <1>2, <3>1
      <3> QED BY <2>1, <3>2 DEF IsUpdate
    <2>4. Len(us) = 2 * n + 1 /\ 2 * n + 1 \in 1..Len(us)
      BY <1>2, <1>3, <2>3 DEF p
    <2>5. SubSeq(us, 2 * n + 1, 2 * n + 1) = <<us[2 * n + 1]>>
      BY <1>2, <2>4, OneUnit
    <2> QED BY <1>9, <2>1, <2>2, <2>3, <2>4, <2>5
  <1>10. ASSUME p = x PROVE d.pending = <<>> /\ d.other = <<>>
    BY <1>4, <1>10 DEF DecodedAs
  <1>11. p = x \/ p < x
    BY <1>2, <1>4
  <1> QED BY <1>7, <1>8, <1>9, <1>10, <1>11 DEF p

\* One body is fed.
LEMMA FlowsFeed ==
  ASSUME TypeOK, Said, Flows, Feed, pc' # "over"
  PROVE  Flows'
  <1>1. PICK all, nf, nu, cut : Line(all, nf, nu, cut)
    BY DEF Flows
  <1> DEFINE us == decoder \o Head(bodies)
             d == Decoded(us)
             x == cut[Fed + 1]
             c == cut[Fed] - Len(decoder)
  <1>2. /\ pc = "feed" /\ bodies # <<>> /\ UNCHANGED faults
        /\ UNCHANGED <<sentFiles, sentUpdates, gotUpdates, plain, net, encSeq, pending, decSeq>>
    BY DEF Feed, FeedFrom, sents, mac, counts
  <1>3. /\ ~d.failed /\ decoder' = d.pending /\ other' = d.other /\ bodies' = Tail(bodies)
        /\ gotFiles' = gotFiles \o (IF d.sound THEN d.messages ELSE <<None>>)
        /\ pc' = IF d.other = <<>> THEN "feed" ELSE "inspect"
    <2>1. CASE d.failed
      BY <2>1 DEF Feed, FeedFrom, Over
    <2>2. CASE ~d.failed /\ Len(files) + Len(d.messages) > FileBacklog
      BY <2>2 DEF Feed, FeedFrom, Over
    <2>3. CASE ~d.failed /\ ~(Len(files) + Len(d.messages) > FileBacklog)
      BY <2>3, Zenon DEF Feed, FeedFrom, Goes
    <2> QED BY <2>1, <2>2, <2>3
  <1>4. Feeds(all, nf, nu, cut, c, x, us)
    BY <1>1, <1>2, FeedShape
  <1>5. us \in Seq(Units) /\ c \in Nat /\ x \in Nat /\ c < x /\ x <= Len(all)
        /\ Fed + 1 \in 0..decSeq
    BY <1>4 DEF Feeds
  <1> HIDE DEF us, d, c, x
  <1>6. PICK n \in Nat : DecodedAs(us, Decoded(us), n)
    BY <1>5, DecoderTakes
  <1>7. DecodedAs(us, d, n)
    BY <1>6 DEF d
  <1>8. /\ c + 2 * n <= x /\ d.sound
        /\ nf[c + 2 * n] = nf[c] + n /\ nu[c + 2 * n] = nu[c]
        /\ c + 2 * n < Len(all) => all[c + 2 * n + 1].part = 1
        /\ nf[c] \in Nat /\ nf[c] + n <= Len(sentFiles)
        /\ d.messages = SubSeq(sentFiles, nf[c] + 1, nf[c] + n)
    BY <1>1, <1>4, <1>7, FeedParse
  <1>9. \/ c + 2 * n = x /\ d.pending = <<>> /\ d.other = <<>>
        \/ /\ c + 2 * n + 1 = x /\ d.other = <<>> /\ d.pending = <<all[x]>>
           /\ IsFile(all[x]) /\ all[x].m.good
        \/ /\ c + 2 * n + 1 = x /\ d.pending = <<>> /\ d.other = <<all[x]>>
           /\ IsUpdate(all[x])
    BY <1>1, <1>3, <1>4, <1>7, FeedEnds
  <1>10. Fed' = Fed + 1 /\ cut[Fed'] = x
    <2>1. bodies \in Seq(Seq(Units)) /\ decSeq \in Nat
      BY StreamTypes
    <2>2. Len(bodies') = Len(bodies) - 1 /\ Len(bodies) \in Nat
      BY <1>2, <1>3, <2>1
    <2> QED BY <1>2, <2>1, <2>2 DEF Fed, x
  <1>11. Decrypted(all, cut)'
    <2>1. bodies \in Seq(Seq(Units)) /\ decSeq \in Nat
      BY StreamTypes
    <2>2. /\ Len(bodies') = Len(bodies) - 1 /\ Len(bodies) \in Nat
          /\ \A i \in 1..Len(bodies') : i + 1 \in 1..Len(bodies) /\ bodies'[i] = bodies[i + 1]
      BY <1>2, <1>3, <2>1
    <2>3. /\ Len(bodies) <= decSeq
          /\ \A i \in 1..Len(bodies) : bodies[i] = SubSeq(all, cut[Fed + i - 1] + 1, cut[Fed + i])
      BY <1>1 DEF Line, Decrypted
    <2>4. Len(bodies') <= decSeq'
      BY <1>2, <2>1, <2>2, <2>3
    <2>5. ASSUME NEW i \in 1..Len(bodies')
          PROVE  bodies'[i] = SubSeq(all, cut[Fed' + i - 1] + 1, cut[Fed' + i])
      <3>1. bodies'[i] = SubSeq(all, cut[Fed + (i + 1) - 1] + 1, cut[Fed + (i + 1)])
        BY <2>2, <2>3
      <3>2. Fed \in Int /\ i \in Int
        BY <2>1, <2>2 DEF Fed
      <3>3. Fed + (i + 1) - 1 = Fed' + i - 1 /\ Fed + (i + 1) = Fed' + i
        BY <1>10, <3>2
      <3> QED BY <3>1, <3>3
    <2> QED BY <2>4, <2>5 DEF Decrypted
  <1>12. Kept(all, cut[Fed])'
    <2>1. <<all[x]>> # <<>> /\ x > 0
      BY <1>5
    <2> QED BY <1>3, <1>9, <1>10, <2>1 DEF Kept
  <1>13. x - Len(d.pending) - Len(d.other) = c + 2 * n
    <2>1. Len(<<all[x]>>) = 1 /\ Len(<<>>) = 0
      OBVIOUS
    <2>2. c + 2 * n \in Nat /\ x \in Nat
      BY <1>5, <1>6
    <2> DEFINE q == c + 2 * n
    <2>3. q \in Nat /\ (q = x \/ q + 1 = x)
            => (q = x => x - 0 - 0 = q) /\ (q + 1 = x => x - 1 - 0 = q /\ x - 0 - 1 = q)
      OBVIOUS
    <2>4. CASE q = x /\ d.pending = <<>> /\ d.other = <<>>
      BY <2>1, <2>2, <2>3, <2>4
    <2>5. CASE q + 1 = x /\ d.other = <<>> /\ d.pending = <<all[x]>>
      BY <2>1, <2>2, <2>3, <2>5
    <2>6. CASE q + 1 = x /\ d.pending = <<>> /\ d.other = <<all[x]>>
      BY <2>1, <2>2, <2>3, <2>6
    <2> QED BY <1>9, <2>4, <2>5, <2>6
  <1>14. gotFiles' = SubSeq(sentFiles, 1, nf[c] + n)
    <2>1. gotFiles = SubSeq(sentFiles, 1, nf[c])
      BY <1>4 DEF Feeds, Seen
    <2>2. gotFiles' = gotFiles \o d.messages
      BY <1>3, <1>8
    <2> DEFINE a == nf[c]
    <2>3. sentFiles \in Seq(FileMessages) /\ a \in Nat /\ a + n \in 0..Len(sentFiles)
          /\ 0 \in Nat /\ 0 <= a /\ a <= a + n
      BY <1>6, <1>8 DEF Said
    <2> HIDE DEF a
    <2>4. SubSeq(sentFiles, 0 + 1, a) \o SubSeq(sentFiles, a + 1, a + n)
            = SubSeq(sentFiles, 0 + 1, a + n)
      BY <2>3, PartsJoin
    <2>5. 0 + 1 = 1
      OBVIOUS
    <2> QED BY <1>8, <2>1, <2>2, <2>4, <2>5 DEF a
  <1>15. Seen(all, nf, nu, cut[Fed] - Len(decoder) - Len(other))'
    <2>1. gotUpdates' = SubSeq(sentUpdates, 1, nu[c])
      BY <1>2, <1>4 DEF Feeds, Seen
    <2>2. cut[Fed'] - Len(decoder') - Len(other') = c + 2 * n
      BY <1>3, <1>10, <1>13
    <2>3. c + 2 * n \in Nat
      BY <1>5, <1>6
    <2>4. gotUpdates' = SubSeq(sentUpdates', 1, nu[c + 2 * n])
          /\ gotFiles' = SubSeq(sentFiles', 1, nf[c + 2 * n])
      BY <1>2, <1>8, <1>14, <2>1
    <2>5. PICK q \in Nat : q = c + 2 * n
      BY <2>3
    <2>6. (q < Len(all) => all[q + 1].part = 1)
          /\ gotFiles' = SubSeq(sentFiles', 1, nf[q]) /\ gotUpdates' = SubSeq(sentUpdates', 1, nu[q])
      BY <1>8, <2>4, <2>5
    <2>7. Seen(all, nf, nu, q)'
      BY <2>6 DEF Seen
    <2>8. cut[Fed'] - Len(decoder') - Len(other') = q
      BY <2>2, <2>5
    <2> QED BY <2>7, <2>8
  <1>16. Written(all, nf, nu)' /\ Records(all, cut)' /\ Wire(all, cut)'
    BY <1>1, <1>2 DEF Line, Written, WrittenAt, Records, Wire
  <1>17. Line(all, nf, nu, cut)'
    BY <1>1, <1>2, <1>11, <1>12, <1>15, <1>16 DEF Line
  <1> QED BY <1>17 DEF Flows

\* A session that is broken off for a file message has got one that makes no sense.
LEMMA MalformedBlamed ==
  ASSUME TypeOK, Said, Flows, pc = "feed", bodies # <<>>,
         Decoded(decoder \o Head(bodies)).failed
  PROVE  "malformed" \in faults
  <1>1. PICK all, nf, nu, cut : Line(all, nf, nu, cut)
    BY DEF Flows
  <1> DEFINE us == decoder \o Head(bodies)
             d == Decoded(us)
             x == cut[Fed + 1]
             c == cut[Fed] - Len(decoder)
  <1>2. Feeds(all, nf, nu, cut, c, x, us)
    BY <1>1, FeedShape
  <1>3. us \in Seq(Units) /\ d.failed
    BY <1>2 DEF Feeds
  <1> HIDE DEF us, d, c, x
  <1>4. PICK n \in Nat : DecodedAs(us, Decoded(us), n)
    BY <1>3, DecoderTakes
  <1>5. DecodedAs(us, d, n)
    BY <1>4 DEF d
  <1> QED BY <1>1, <1>2, <1>3, <1>5, FeedEnds

\* A beginning of a sequence with the next element.
LEMMA OneMore ==
  ASSUME NEW S, NEW s \in Seq(S), NEW a \in Nat, a + 1 <= Len(s)
  PROVE  Append(SubSeq(s, 1, a), s[a + 1]) = SubSeq(s, 1, a + 1)
  <1>1. a \in 0..Len(s) /\ a + 1 \in 0..Len(s) /\ a + 1 \in 1..Len(s) /\ 0 \in Nat /\ 0 <= a
        /\ a + 1 \in Nat /\ a <= a + 1 /\ a \in Nat
    OBVIOUS
  <1> DEFINE t == SubSeq(s, 0 + 1, a)
  <1>2. t \in Seq(S)
    BY <1>1, Part
  <1>3. s[a + 1] \in S
    BY <1>1
  <1>4. Append(t, s[a + 1]) = t \o <<s[a + 1]>>
    <2> HIDE DEF t
    <2> QED BY <1>2, <1>3, AppendIsConcat
  <1>5. SubSeq(s, a + 1, a + 1) = <<s[a + 1]>>
    BY <1>1, OneUnit
  <1>6. t \o SubSeq(s, a + 1, a + 1) = SubSeq(s, 0 + 1, a + 1)
    BY <1>1, PartsJoin
  <1>7. 0 + 1 = 1
    OBVIOUS
  <1> QED BY <1>4, <1>5, <1>6, <1>7

\* What the client has got is the beginning of what was sent.
LEMMA Gots ==
  ASSUME TypeOK, Said, Flows
  PROVE  /\ gotFiles \in Seq(FileMessages) /\ Len(gotFiles) \in 0..Len(sentFiles)
         /\ gotFiles = SubSeq(sentFiles, 1, Len(gotFiles))
         /\ gotUpdates \in Seq(Updates) /\ Len(gotUpdates) \in 0..Len(sentUpdates)
         /\ gotUpdates = SubSeq(sentUpdates, 1, Len(gotUpdates))
         /\ Len(sentFiles) \in Nat /\ Len(sentUpdates) \in Nat
  <1>1. PICK all, nf, nu, cut : Line(all, nf, nu, cut)
    BY DEF Flows
  <1>2. PICK c : c = cut[Fed] - Len(decoder) - Len(other)
    OBVIOUS
  <1>3. /\ gotFiles = SubSeq(sentFiles, 1, nf[c]) /\ gotUpdates = SubSeq(sentUpdates, 1, nu[c])
        /\ c \in Nat
    BY <1>1, <1>2 DEF Line, Seen
  <1>4. c \in 0..Len(all)
    <2>1. cut[Fed] \in 0..Len(all) /\ Len(all) \in Nat
      <3> DEFINE r == Fed
      <3>1. r \in 0..decSeq /\ decSeq <= encSeq /\ Len(all) \in Nat
            /\ \A q \in 0..encSeq : cut[q] \in 0..Len(all)
        BY <1>1, Cuts
      <3>2. decSeq \in Nat /\ encSeq \in Nat
        BY StreamTypes
      <3> HIDE DEF r
      <3>3. cut[r] \in 0..Len(all)
        BY <3>1, <3>2
      <3> QED BY <3>1, <3>3 DEF r
    <2>2. Len(decoder) \in Nat /\ Len(other) \in Nat
      BY StreamTypes
    <2>3. \A x, y, z \in Nat : x - y - z <= x
      OBVIOUS
    <2>4. c <= cut[Fed]
      BY <1>2, <2>1, <2>2, <2>3
    <2> QED BY <1>3, <2>1, <2>4
  <1>5. /\ nf[c] \in Nat /\ nu[c] \in Nat
        /\ nf[c] <= Len(sentFiles) /\ nu[c] <= Len(sentUpdates)
    <2>1. nf \in [0..Len(all) -> Nat] /\ nu \in [0..Len(all) -> Nat] /\ Written(all, nf, nu)
      BY <1>1 DEF Line
    <2> QED BY <1>4, <2>1 DEF Written
  <1> DEFINE a == nf[c]
             b == nu[c]
  <1>6. sentFiles \in Seq(FileMessages) /\ sentUpdates \in Seq(Updates)
        /\ Len(sentFiles) \in Nat /\ Len(sentUpdates) \in Nat
    BY DEF Said
  <1> HIDE DEF a, b
  <1>7. /\ SubSeq(sentFiles, 0 + 1, a) \in Seq(FileMessages)
        /\ Len(SubSeq(sentFiles, 0 + 1, a)) = a - 0
    <2>1. 0 \in Nat /\ a \in 0..Len(sentFiles) /\ 0 <= a
      BY <1>5, <1>6 DEF a
    <2> QED BY <1>6, <2>1, Part
  <1>8. /\ SubSeq(sentUpdates, 0 + 1, b) \in Seq(Updates)
        /\ Len(SubSeq(sentUpdates, 0 + 1, b)) = b - 0
    <2>1. 0 \in Nat /\ b \in 0..Len(sentUpdates) /\ 0 <= b
      BY <1>5, <1>6 DEF b
    <2> QED BY <1>6, <2>1, Part
  <1>9. 0 + 1 = 1 /\ a - 0 = a /\ b - 0 = b /\ a \in 0..Len(sentFiles) /\ b \in 0..Len(sentUpdates)
    BY <1>5, <1>6 DEF a, b
  <1> QED BY <1>3, <1>6, <1>7, <1>8, <1>9 DEF a, b

\* The unit that is inspected is the next update.
LEMMA InspectSees ==
  ASSUME TypeOK, Said, NEW all, NEW nf, NEW nu, NEW cut, Line(all, nf, nu, cut),
         pc = "inspect"
  PROVE  \E c \in Nat :
           /\ cut[Fed] = c + 1 /\ decoder = <<>> /\ c + 1 <= Len(all) /\ other # <<>>
           /\ nu[c] = Len(gotUpdates) /\ nf[c + 1] = nf[c] /\ nu[c + 1] = nu[c] + 1
           /\ nu[c] + 1 \in 1..Len(sentUpdates)
           /\ Scan(Head(other)) = sentUpdates[nu[c] + 1]
           /\ c + 1 < Len(all) => all[c + 2].part = 1
           /\ gotFiles = SubSeq(sentFiles, 1, nf[c])
           /\ gotUpdates = SubSeq(sentUpdates, 1, nu[c])
  <1> DEFINE e == cut[Fed]
  <1>1. decoder = <<>> /\ e > 0 /\ other = <<all[e]>> /\ IsUpdate(all[e])
    BY DEF Line, Kept
  <1>2. e \in 0..Len(all) /\ Len(all) \in Nat /\ all \in Seq(Units)
    <2> DEFINE r == Fed
    <2>1. r \in 0..decSeq /\ decSeq <= encSeq /\ Len(all) \in Nat /\ all \in Seq(Units)
          /\ \A q \in 0..encSeq : cut[q] \in 0..Len(all)
      BY Cuts
    <2>2. decSeq \in Nat /\ encSeq \in Nat
      BY StreamTypes
    <2> HIDE DEF r
    <2>3. cut[r] \in 0..Len(all)
      BY <2>1, <2>2
    <2> QED BY <2>1, <2>3 DEF r
  <1>3. Len(decoder) = 0 /\ Len(other) = 1 /\ Head(other) = all[e] /\ other # <<>>
    BY <1>1
  <1> HIDE DEF e
  <1>4. PICK c \in Nat : e = c + 1
    <2>1. e - 1 \in Nat /\ e = (e - 1) + 1
      BY <1>1, <1>2
    <2> QED BY <2>1
  <1>5. Seen(all, nf, nu, c)
    <2>1. e - 0 - 1 = c
      BY <1>4
    <2>2. Seen(all, nf, nu, e - Len(decoder) - Len(other))
      BY DEF Line, e
    <2> QED BY <1>3, <2>1, <2>2
  <1>6. /\ c + 1 \in 1..Len(all) /\ c \in 0..Len(all) /\ c + 1 \in 0..Len(all)
        /\ c < Len(all) /\ c + 1 <= Len(all)
    BY <1>2, <1>4
  <1>7. all[c + 1].part = 1 /\ IsUpdate(all[c + 1])
    BY <1>1, <1>4, <1>5, <1>6 DEF Seen
  <1>8. /\ all[c + 1].m = sentUpdates[nu[c] + 1]
        /\ nf[c + 1] = nf[c] /\ nu[c + 1] = nu[c] + 1
        /\ c + 1 < Len(all) => all[c + 2].part = 1
    BY <1>2, <1>6, <1>7, NextMessage DEF Line
  <1>9. nu[c] \in Nat /\ nu[c + 1] <= Len(sentUpdates) /\ Len(sentUpdates) \in Nat
    <2>1. nu \in [0..Len(all) -> Nat] /\ Written(all, nf, nu) /\ Len(sentUpdates) \in Nat
      BY DEF Line, Said
    <2> QED BY <1>6, <2>1 DEF Written
  <1>10. nu[c] = Len(gotUpdates)
    <2>1. gotUpdates = SubSeq(sentUpdates, 1, nu[c])
      BY <1>5 DEF Seen
    <2> DEFINE b == nu[c]
    <2>2. 0 \in Nat /\ b \in 0..Len(sentUpdates) /\ 0 <= b /\ sentUpdates \in Seq(Updates)
      BY <1>8, <1>9 DEF Said
    <2> HIDE DEF b
    <2>3. Len(SubSeq(sentUpdates, 0 + 1, b)) = b - 0
      BY <2>2, Part
    <2>4. 0 + 1 = 1 /\ b - 0 = b
      BY <2>2
    <2> QED BY <2>1, <2>3, <2>4 DEF b
  <1>11. Scan(Head(other)) = all[c + 1].m
    BY <1>3, <1>4, <1>7 DEF Scan, IsUpdate
  <1>12. nu[c] + 1 \in 1..Len(sentUpdates)
    BY <1>8, <1>9
  <1>13. gotFiles = SubSeq(sentFiles, 1, nf[c]) /\ gotUpdates = SubSeq(sentUpdates, 1, nu[c])
    BY <1>5 DEF Seen
  <1> QED BY <1>1, <1>3, <1>4, <1>6, <1>8, <1>10, <1>11, <1>12, <1>13 DEF e

\* The update is acted on.
LEMMA FlowsInspect ==
  ASSUME TypeOK, Said, Flows, Inspect, pc' # "over"
  PROVE  Flows'
  <1>1. PICK all, nf, nu, cut : Line(all, nf, nu, cut)
    BY DEF Flows
  <1>2. /\ pc = "inspect" /\ pc' = "feed" /\ other' = <<>> /\ UNCHANGED faults
        /\ gotUpdates' = Append(gotUpdates, Scan(Head(other)))
        /\ UNCHANGED <<sentFiles, sentUpdates, gotFiles, plain, net, encSeq, pending, decSeq,
                       bodies, decoder>>
    BY DEF Inspect, SendFails, Over, Goes, sents, mac
  <1>3. PICK c \in Nat :
           /\ cut[Fed] = c + 1 /\ decoder = <<>> /\ c + 1 <= Len(all) /\ other # <<>>
           /\ nu[c] = Len(gotUpdates) /\ nf[c + 1] = nf[c] /\ nu[c + 1] = nu[c] + 1
           /\ nu[c] + 1 \in 1..Len(sentUpdates)
           /\ Scan(Head(other)) = sentUpdates[nu[c] + 1]
           /\ c + 1 < Len(all) => all[c + 2].part = 1
           /\ gotFiles = SubSeq(sentFiles, 1, nf[c])
           /\ gotUpdates = SubSeq(sentUpdates, 1, nu[c])
    <2>1. pc = "inspect"
      BY <1>2
    <2>2. \E c \in Nat :
           /\ cut[Fed] = c + 1 /\ decoder = <<>> /\ c + 1 <= Len(all) /\ other # <<>>
           /\ nu[c] = Len(gotUpdates) /\ nf[c + 1] = nf[c] /\ nu[c + 1] = nu[c] + 1
           /\ nu[c] + 1 \in 1..Len(sentUpdates)
           /\ Scan(Head(other)) = sentUpdates[nu[c] + 1]
           /\ c + 1 < Len(all) => all[c + 2].part = 1
           /\ gotFiles = SubSeq(sentFiles, 1, nf[c])
           /\ gotUpdates = SubSeq(sentUpdates, 1, nu[c])
      BY <1>1, <2>1, InspectSees
    <2> QED BY <2>2
  <1>4. gotUpdates' = SubSeq(sentUpdates, 1, nu[c + 1])
    <2> DEFINE b == nu[c]
    <2>1. b \in Nat /\ b + 1 <= Len(sentUpdates) /\ sentUpdates \in Seq(Updates)
      <3>1. Len(gotUpdates) \in Nat /\ Len(sentUpdates) \in Nat
        BY <1>1, Gots DEF Flows
      <3> QED BY <1>3, <3>1 DEF Said
    <2> HIDE DEF b
    <2>2. Append(SubSeq(sentUpdates, 1, b), sentUpdates[b + 1]) = SubSeq(sentUpdates, 1, b + 1)
      BY <2>1, OneMore
    <2> QED BY <1>2, <1>3, <2>2 DEF b
  <1>5. Fed' = Fed
    BY <1>2 DEF Fed
  <1>6. Seen(all, nf, nu, cut[Fed] - Len(decoder) - Len(other))'
    <2>1. cut[Fed'] = c + 1 /\ Len(decoder') = 0 /\ Len(other') = 0
      BY <1>2, <1>3, <1>5
    <2>2. cut[Fed'] - Len(decoder') - Len(other') = c + 1 /\ c + 1 \in Nat /\ (c + 1) + 1 = c + 2
      BY <2>1
    <2>3. /\ gotFiles' = SubSeq(sentFiles', 1, nf[c + 1])
          /\ gotUpdates' = SubSeq(sentUpdates', 1, nu[c + 1])
      BY <1>2, <1>3, <1>4
    <2>4. Seen(all, nf, nu, c + 1)'
      BY <1>3, <2>2, <2>3 DEF Seen
    <2> QED BY <2>2, <2>4
  <1>7. Kept(all, cut[Fed])'
    BY <1>2, <1>3 DEF Kept
  <1>8. Written(all, nf, nu)' /\ Records(all, cut)' /\ Wire(all, cut)' /\ Decrypted(all, cut)'
    BY <1>1, <1>2, <1>5 DEF Line, Written, WrittenAt, Records, Wire, Decrypted
  <1>9. Line(all, nf, nu, cut)'
    BY <1>1, <1>2, <1>6, <1>7, <1>8 DEF Line
  <1> QED BY <1>9 DEF Flows

\* The Mac adds units, which are the file messages fs and the updates us.
Adds(all, nf, nu, more, mf, mu, fs, us) ==
  /\ more \in Seq(Units) /\ plain' = plain \o more
  /\ fs \in Seq(FileMessages) /\ sentFiles' = sentFiles \o fs
  /\ us \in Seq(Updates) /\ sentUpdates' = sentUpdates \o us
  /\ more # <<>> => more[1].part = 1
  /\ mf \in [0..Len(all \o more) -> Nat] /\ mu \in [0..Len(all \o more) -> Nat]
  /\ \A p \in 0..Len(all) : mf[p] = nf[p] /\ mu[p] = nu[p]

\* What the Mac has written stays as it is when it writes more.
LEMMA WrittenStays ==
  ASSUME NEW all, NEW nf, NEW nu, NEW cut, Line(all, nf, nu, cut), Said,
         NEW more, NEW mf, NEW mu, NEW fs, NEW us, Adds(all, nf, nu, more, mf, mu, fs, us),
         NEW p \in 1..Len(all)
  PROVE  WrittenAt(all \o more, mf, mu, p)'
  <1>1. /\ all \in Seq(Units) /\ Written(all, nf, nu)
        /\ nf \in [0..Len(all) -> Nat] /\ nu \in [0..Len(all) -> Nat]
        /\ more \in Seq(Units) /\ \A q \in 0..Len(all) : mf[q] = nf[q] /\ mu[q] = nu[q]
        /\ fs \in Seq(FileMessages) /\ sentFiles' = sentFiles \o fs
        /\ us \in Seq(Updates) /\ sentUpdates' = sentUpdates \o us
    BY DEF Line, Adds
  <1>2. /\ Len(all \o more) = Len(all) + Len(more) /\ Len(all) \in Nat /\ Len(more) \in Nat
        /\ \A i \in 1..Len(all) : (all \o more)[i] = all[i]
    BY <1>1, Joined
  <1>3. \A i \in 1..Len(sentFiles) : sentFiles'[i] = sentFiles[i]
    <2>1. sentFiles \in Seq(FileMessages) BY DEF Said
    <2> QED BY <1>1, <2>1, Joined
  <1>4. \A i \in 1..Len(sentUpdates) : sentUpdates'[i] = sentUpdates[i]
    <2>1. sentUpdates \in Seq(Updates) BY DEF Said
    <2> QED BY <1>1, <2>1, Joined
  <1>5. /\ p \in 0..Len(all) /\ p - 1 \in 0..Len(all) /\ p \in 1..Len(all)
        /\ p < Len(all) => p + 1 \in 1..Len(all) /\ p < Len(all \o more)
        /\ p > 1 => p - 1 \in 1..Len(all)
    BY <1>2
  <1>6. /\ mf[p] = nf[p] /\ mu[p] = nu[p] /\ mf[p - 1] = nf[p - 1] /\ mu[p - 1] = nu[p - 1]
    BY <1>1, <1>5
  <1>7. /\ Len(sentFiles) \in Nat /\ Len(sentUpdates) \in Nat
         /\ \A q \in 0..Len(all) : /\ nf[q] \in Nat /\ nf[q] <= Len(sentFiles)
                                  /\ nu[q] \in Nat /\ nu[q] <= Len(sentUpdates)
    <2>1. Len(sentFiles) \in Nat /\ Len(sentUpdates) \in Nat
      BY DEF Said
    <2>2. \A q \in 0..Len(all) : nf[q] \in Nat /\ nu[q] \in Nat
      BY <1>1
    <2>3. \A q \in 0..Len(all) : nf[q] <= Len(sentFiles) /\ nu[q] <= Len(sentUpdates)
      BY <1>1 DEF Written
    <2> QED BY <2>1, <2>2, <2>3
  <1>8. nf[p] = nf[p - 1] + 1 => sentFiles'[nf[p]] = sentFiles[nf[p]]
    <2>1. nf[p] \in Nat /\ nf[p - 1] \in Nat /\ nf[p] <= Len(sentFiles) /\ Len(sentFiles) \in Nat
      BY <1>5, <1>7
    <2>2. nf[p] = nf[p - 1] + 1 => nf[p] \in 1..Len(sentFiles)
      <3>1. \A x, y, z \in Nat : x = y + 1 /\ x <= z => x \in 1..z
        OBVIOUS
      <3> QED BY <2>1, <3>1
    <2> QED BY <1>3, <2>2
  <1>9. nu[p] = nu[p - 1] + 1 => sentUpdates'[nu[p]] = sentUpdates[nu[p]]
    <2>1. /\ nu[p] \in Nat /\ nu[p - 1] \in Nat
          /\ nu[p] <= Len(sentUpdates) /\ Len(sentUpdates) \in Nat
      BY <1>5, <1>7
    <2>2. nu[p] = nu[p - 1] + 1 => nu[p] \in 1..Len(sentUpdates)
      <3>1. \A x, y, z \in Nat : x = y + 1 /\ x <= z => x \in 1..z
        OBVIOUS
      <3> QED BY <2>1, <3>1
    <2> QED BY <1>4, <2>2
  <1>10. WrittenAt(all, nf, nu, p)
    BY <1>1 DEF Written
  <1> DEFINE l == all \o more
  <1>11. /\ l[p] = all[p] /\ (p < Len(all) => l[p + 1] = all[p + 1] /\ p < Len(l))
        /\ (p > 1 => l[p - 1] = all[p - 1])
    BY <1>2, <1>5
  <1> HIDE DEF l
  <1>12. WrittenAt(l, mf, mu, p)'
    BY <1>6, <1>8, <1>9, <1>10, <1>11 DEF WrittenAt
  <1> QED BY <1>12 DEF l

\* The Mac acts and nothing that is on its way moves.
Still ==
  /\ pc = "idle" /\ UNCHANGED pc /\ faults \subseteq faults'
  /\ UNCHANGED <<gots, net, encSeq, pending, decSeq, bodies, other, decoder>>

\* When the Mac says more, what is on its way stays where it is.
LEMMA FlowsMore ==
  ASSUME TypeOK, Said, NEW all, NEW nf, NEW nu, NEW cut, Line(all, nf, nu, cut),
         Still, NEW more, NEW mf, NEW mu, NEW fs, NEW us,
         Adds(all, nf, nu, more, mf, mu, fs, us), Written(all \o more, mf, mu)'
  PROVE  Flows'
  <1>1. /\ pc = "idle" /\ UNCHANGED pc /\ faults \subseteq faults'
        /\ UNCHANGED <<gotFiles, gotUpdates, net, encSeq, pending, decSeq, bodies, other, decoder>>
        /\ more \in Seq(Units) /\ plain' = plain \o more /\ (more # <<>> => more[1].part = 1)
        /\ mf \in [0..Len(all \o more) -> Nat] /\ mu \in [0..Len(all \o more) -> Nat]
        /\ \A p \in 0..Len(all) : mf[p] = nf[p] /\ mu[p] = nu[p]
        /\ fs \in Seq(FileMessages) /\ sentFiles' = sentFiles \o fs
        /\ us \in Seq(Updates) /\ sentUpdates' = sentUpdates \o us
    BY DEF Still, Adds, gots
  <1> DEFINE l == all \o more
  <1>2. /\ all \in Seq(Units) /\ Len(all) \in Nat /\ DOMAIN cut = 0..encSeq
        /\ \A r \in 0..encSeq : cut[r] \in 0..Len(all) /\ cut[r] \in Nat
        /\ \A r \in 0..encSeq - 1 : cut[r] < cut[r + 1]
        /\ decSeq <= encSeq /\ Fed \in 0..decSeq /\ Fed \in Nat
    BY Cuts
  <1>3. /\ l \in Seq(Units) /\ Len(l) = Len(all) + Len(more) /\ Len(more) \in Nat
        /\ \A i \in 1..Len(all) : l[i] = all[i]
        /\ \A i \in 1..Len(more) : l[Len(all) + i] = more[i]
    BY <1>1, <1>2, Joined
  <1>4. /\ plain \in Seq(Units) /\ decSeq \in Nat /\ encSeq \in Nat /\ Len(decoder) \in Nat
        /\ Len(other) \in Nat /\ pending \in Seq(Pieces) /\ net \in Seq(Pieces)
        /\ Len(bodies) \in Nat
    BY StreamTypes
  <1>5. \A r \in 0..encSeq - 1 :
          SubSeq(l, cut[r] + 1, cut[r + 1]) = SubSeq(all, cut[r] + 1, cut[r + 1])
    <2> SUFFICES ASSUME NEW r \in 0..encSeq - 1
                 PROVE SubSeq(l, cut[r] + 1, cut[r + 1]) = SubSeq(all, cut[r] + 1, cut[r + 1])
      OBVIOUS
    <2>1. r \in 0..encSeq /\ r + 1 \in 0..encSeq
      BY <1>4
    <2>2. cut[r] \in Nat /\ cut[r + 1] \in 0..Len(all) /\ cut[r] < cut[r + 1] /\ cut[r + 1] \in Nat
      BY <1>2, <2>1
    <2> DEFINE a == cut[r]
               b == cut[r + 1]
    <2>3. a \in Nat /\ b \in 0..Len(all) /\ a <= b
      BY <2>2
    <2> HIDE DEF a, b
    <2>4. SubSeq(all \o more, a + 1, b) = SubSeq(all, a + 1, b)
      BY <1>1, <1>2, <2>3, PartKept
    <2> QED BY <2>4 DEF a, b
  <1> HIDE DEF l
  <1>6. UNCHANGED <<gotFiles, gotUpdates, net, encSeq, pending, decSeq, bodies, other, decoder>>
        /\ Fed' = Fed
    BY <1>1 DEF Fed
  <1>7. Records(l, cut)'
    <2>1. /\ cut[0] = 0
          /\ \A r \in 0..encSeq - 1 : \A p \in cut[r] + 1..cut[r + 1] - 1 : all[p].m.k = "file"
          /\ plain = SubSeq(all, cut[encSeq] + 1, Len(all))
      BY DEF Line, Records
    <2>2. ASSUME NEW r \in 0..encSeq - 1, NEW p \in cut[r] + 1..cut[r + 1] - 1
          PROVE  l[p].m.k = "file"
      <3>1. r \in 0..encSeq /\ r + 1 \in 0..encSeq
        BY <1>4
      <3>2. cut[r] \in Nat /\ cut[r + 1] \in 0..Len(all)
        BY <1>2, <3>1
      <3>3. p \in 1..Len(all)
        <4>1. \A a, n \in Nat : \A b \in 0..n : \A q \in a + 1..b - 1 : q \in 1..n
          OBVIOUS
        <4>2. Len(all) \in Nat
          BY <1>2
        <4> QED BY <3>2, <4>1, <4>2
      <3> QED BY <1>3, <2>1, <3>3
    <2>3. plain' = SubSeq(l, cut[encSeq] + 1, Len(l))
      <3> DEFINE a == cut[encSeq]
      <3>1. a \in 0..Len(all)
        <4>1. encSeq \in 0..encSeq
          BY <1>4
        <4> QED BY <1>2, <4>1
      <3> HIDE DEF a
      <3>2. SubSeq(all \o more, a + 1, Len(all \o more)) = SubSeq(all, a + 1, Len(all)) \o more
        BY <1>1, <1>2, <3>1, RestJoined
      <3> QED BY <1>1, <2>1, <3>2 DEF a, l
    <2> QED BY <1>2, <1>6, <2>1, <2>2, <2>3 DEF Records
  <1>8. ASSUME NEW p, NEW x, PieceOf(p, x, all, cut), p \in Pieces PROVE PieceOf(p, x, l, cut)
    <2>1. /\ {p.seq, p.seq + 1} \subseteq DOMAIN cut /\ 2 * p.seq + p.half = x
          /\ p.body = SubSeq(all, cut[p.seq] + 1, cut[p.seq + 1]) /\ p.seq \in Nat
      BY <1>8 DEF PieceOf, Pieces
    <2>2. p.seq \in 0..encSeq - 1
      <3>1. \A s, n \in Nat : s + 1 \in 0..n => s \in 0..n - 1
        OBVIOUS
      <3>2. p.seq + 1 \in 0..encSeq /\ encSeq \in Nat
        BY <1>2, <1>4, <2>1
      <3> QED BY <2>1, <3>1, <3>2
    <2> QED BY <1>5, <2>1, <2>2 DEF PieceOf
  <1>9. Wire(l, cut)'
    <2>1. Wire(all, cut)
      BY DEF Line
    <2>2. \A j \in 1..Len(pending) : PieceOf(pending[j], 2 * decSeq + j, l, cut)
      <3>1. \A j \in 1..Len(pending) : pending[j] \in Pieces
        BY <1>4
      <3>2. \A j \in 1..Len(pending) : PieceOf(pending[j], 2 * decSeq + j, all, cut)
        BY <2>1 DEF Wire
      <3> QED BY <1>8, <3>1, <3>2
    <2>3. \A j \in 1..Len(net) : PieceOf(net[j], 2 * decSeq + Len(pending) + j, l, cut)
      <3>1. \A j \in 1..Len(net) : net[j] \in Pieces
        BY <1>4
      <3>2. \A j \in 1..Len(net) : PieceOf(net[j], 2 * decSeq + Len(pending) + j, all, cut)
        BY <2>1 DEF Wire
      <3> QED BY <1>8, <3>1, <3>2
    <2> QED BY <1>1, <1>6, <2>1, <2>2, <2>3 DEF Wire
  <1>10. Decrypted(l, cut)'
    <2>1. /\ Len(bodies) <= decSeq
          /\ \A i \in 1..Len(bodies) : bodies[i] = SubSeq(all, cut[Fed + i - 1] + 1, cut[Fed + i])
      BY DEF Line, Decrypted
    <2>2. ASSUME NEW i \in 1..Len(bodies)
          PROVE  bodies[i] = SubSeq(l, cut[Fed + i - 1] + 1, cut[Fed + i])
      <3>1. Fed + i <= decSeq /\ i \in Nat
        BY <1>4, <2>1 DEF Fed
      <3> DEFINE r == Fed + i - 1
      <3>2. r \in 0..encSeq - 1 /\ r + 1 = Fed + i
        BY <1>2, <1>4, <3>1
      <3> HIDE DEF r
      <3>3. SubSeq(l, cut[r] + 1, cut[r + 1]) = SubSeq(all, cut[r] + 1, cut[r + 1])
        BY <1>5, <3>2
      <3>4. bodies[i] = SubSeq(all, cut[r] + 1, cut[Fed + i])
        BY <2>1 DEF r
      <3> QED BY <3>2, <3>3, <3>4 DEF r
    <2> QED BY <1>6, <2>1, <2>2 DEF Decrypted
  <1>11. cut[Fed] \in 0..Len(all)
    <2>1. Fed \in 0..encSeq
      BY <1>2, <1>4
    <2> QED BY <1>2, <2>1
  <1>12. Kept(l, cut[Fed])'
    <2>1. Kept(all, cut[Fed]) /\ pc # "inspect" /\ pc' # "inspect"
      BY <1>1 DEF Line
    <2>2. cut[Fed] > 0 => l[cut[Fed]] = all[cut[Fed]]
      <3>1. \A n \in Nat : \A q \in 0..n : q > 0 => q \in 1..n
        OBVIOUS
      <3>2. Len(all) \in Nat
        BY <1>2
      <3>3. cut[Fed] > 0 => cut[Fed] \in 1..Len(all)
        BY <1>11, <3>1, <3>2
      <3> QED BY <1>3, <3>3
    <2> QED BY <1>6, <2>1, <2>2 DEF Kept
  <1>13. PICK c : c = cut[Fed] - Len(decoder) - Len(other)
    OBVIOUS
  <1>14. Seen(all, nf, nu, c)
    BY <1>13 DEF Line
  <1>15. c \in 0..Len(all)
    <2>1. \A x, y, z \in Nat : x - y - z <= x
      OBVIOUS
    <2>2. cut[Fed] \in Nat
      BY <1>2, <1>11
    <2>3. c <= cut[Fed]
      BY <1>4, <1>13, <2>1, <2>2
    <2> QED BY <1>2, <1>11, <1>14, <2>3 DEF Seen
  <1>16. /\ nf[c] \in 0..Len(sentFiles) /\ nu[c] \in 0..Len(sentUpdates)
         /\ mf[c] = nf[c] /\ mu[c] = nu[c]
    <2>1. nf \in [0..Len(all) -> Nat] /\ nu \in [0..Len(all) -> Nat] /\ Written(all, nf, nu)
      BY DEF Line
    <2>2. nf[c] \in Nat /\ nu[c] \in Nat /\ nf[c] <= Len(sentFiles) /\ nu[c] <= Len(sentUpdates)
      BY <1>15, <2>1 DEF Written
    <2>3. Len(sentFiles) \in Nat /\ Len(sentUpdates) \in Nat
      BY DEF Said
    <2>4. nf[c] \in 0..Len(sentFiles) /\ nu[c] \in 0..Len(sentUpdates)
      BY <2>2, <2>3
    <2>5. mf[c] = nf[c] /\ mu[c] = nu[c]
      BY <1>1, <1>15
    <2> QED BY <2>4, <2>5
  <1>17. SubSeq(sentFiles', 1, nf[c]) = SubSeq(sentFiles, 1, nf[c])
    <2> DEFINE a == nf[c]
    <2>1. 0 \in Nat /\ a \in 0..Len(sentFiles) /\ 0 <= a /\ sentFiles \in Seq(FileMessages)
      BY <1>16 DEF Said
    <2> HIDE DEF a
    <2>2. SubSeq(sentFiles \o fs, 0 + 1, a) = SubSeq(sentFiles, 0 + 1, a)
      BY <1>1, <2>1, PartKept
    <2>3. 0 + 1 = 1
      OBVIOUS
    <2> QED BY <1>1, <2>2, <2>3 DEF a
  <1>18. SubSeq(sentUpdates', 1, nu[c]) = SubSeq(sentUpdates, 1, nu[c])
    <2> DEFINE a == nu[c]
    <2>1. 0 \in Nat /\ a \in 0..Len(sentUpdates) /\ 0 <= a /\ sentUpdates \in Seq(Updates)
      BY <1>16 DEF Said
    <2> HIDE DEF a
    <2>2. SubSeq(sentUpdates \o us, 0 + 1, a) = SubSeq(sentUpdates, 0 + 1, a)
      BY <1>1, <2>1, PartKept
    <2>3. 0 + 1 = 1
      OBVIOUS
    <2> QED BY <1>1, <2>2, <2>3 DEF a
  <1>19. c < Len(l) => l[c + 1].part = 1
    <2>1. CASE c < Len(all)
      <3>1. c + 1 \in 1..Len(all)
        BY <1>2, <1>15, <2>1
      <3> QED BY <1>3, <1>14, <2>1, <3>1 DEF Seen
    <2>2. CASE c = Len(all) /\ Len(more) > 0
      <3>1. 1 \in 1..Len(more) /\ more # <<>>
        BY <1>1, <1>3, <2>2
      <3> QED BY <1>1, <1>3, <2>2, <3>1
    <2> QED BY <1>2, <1>3, <1>15, <2>1, <2>2
  <1>20. Seen(l, mf, mu, cut[Fed] - Len(decoder) - Len(other))'
    <2>1. c \in Nat
      BY <1>2, <1>15
    <2>2. gotFiles' = SubSeq(sentFiles', 1, mf[c]) /\ gotUpdates' = SubSeq(sentUpdates', 1, mu[c])
      BY <1>6, <1>14, <1>16, <1>17, <1>18 DEF Seen
    <2>3. Seen(l, mf, mu, c)'
      BY <1>19, <2>1, <2>2 DEF Seen
    <2> QED BY <1>6, <1>13, <2>3
  <1>21. cut \in [0..encSeq -> 0..Len(l)]
    <2>1. cut \in [0..encSeq -> 0..Len(all)]
      BY DEF Line
    <2>2. \A k \in 0..Len(all) : k \in 0..Len(l)
      BY <1>2, <1>3
    <2> QED BY <2>1, <2>2
  <1>22. /\ mf \in [0..Len(l) -> Nat] /\ mu \in [0..Len(l) -> Nat] /\ Written(l, mf, mu)'
    BY <1>1 DEF l
  <1>23. Line(l, mf, mu, cut)'
    BY <1>3, <1>6, <1>7, <1>9, <1>10, <1>12, <1>20, <1>21, <1>22 DEF Line
  <1> QED BY <1>23 DEF Flows

\* The Mac says an update or an answer.
LEMMA FlowsSays ==
  ASSUME TypeOK, Said, Flows, Still, UNCHANGED sentFiles,
         NEW u \in Updates, MacSays(u)
  PROVE  Flows'
  <1>1. PICK all, nf, nu, cut : Line(all, nf, nu, cut)
    BY DEF Flows
  <1> DEFINE unit == [m |-> u, part |-> 1]
             more == <<unit>>
             L == Len(all)
             l == all \o more
             mf == [p \in 0..Len(l) |-> IF p <= L THEN nf[p] ELSE nf[L]]
             mu == [p \in 0..Len(l) |-> IF p <= L THEN nu[p] ELSE nu[L] + 1]
  <1>2. /\ all \in Seq(Units) /\ L \in Nat /\ Written(all, nf, nu)
        /\ nf \in [0..L -> Nat] /\ nu \in [0..L -> Nat]
    BY <1>1 DEF Line
  <1>3. unit \in Units /\ more \in Seq(Units) /\ Len(more) = 1 /\ more[1] = unit /\ more # <<>>
    BY DEF Units, Messages
  <1>4. /\ l \in Seq(Units) /\ Len(l) = L + 1 /\ l[L + 1] = unit
    <2> HIDE DEF more
    <2>1. /\ l \in Seq(Units) /\ Len(l) = L + Len(more)
          /\ \A i \in 1..Len(more) : l[L + i] = more[i]
      BY <1>2, <1>3, Joined
    <2> QED BY <1>3, <2>1
  <1>5. unit.m = u /\ unit.part = 1 /\ IsUpdate(unit)
    BY DEF IsUpdate, Updates
  <1> HIDE DEF unit, more, l, L
  <1>6. /\ plain' = plain \o more /\ sentUpdates' = sentUpdates \o <<u>>
        /\ sentFiles' = sentFiles \o <<>>
        /\ Len(sentUpdates') = Len(sentUpdates) + 1 /\ sentUpdates'[Len(sentUpdates) + 1] = u
        /\ Len(sentUpdates) \in Nat /\ Len(sentFiles) \in Nat
    <2>1. plain \in Seq(Units) /\ sentUpdates \in Seq(Updates) /\ sentFiles \in Seq(FileMessages)
      BY StreamTypes DEF Said
    <2>2. plain' = Append(plain, unit) /\ sentUpdates' = Append(sentUpdates, u)
      BY DEF MacSays, unit
    <2>3. Append(plain, unit) = plain \o <<unit>> /\ Append(sentUpdates, u) = sentUpdates \o <<u>>
      BY <1>3, <2>1, AppendIsConcat
    <2>4. sentFiles \o <<>> = sentFiles
      BY <2>1, ConcatEmptySeq
    <2>5. /\ Len(sentUpdates') = Len(sentUpdates) + 1 /\ sentUpdates'[Len(sentUpdates) + 1] = u
      BY <2>1, <2>2, AppendProperties
    <2> QED BY <2>1, <2>2, <2>3, <2>4, <2>5 DEF more
  <1>7. \A p \in 0..L : mf[p] = nf[p] /\ mu[p] = nu[p]
    BY <1>2, <1>4
  <1>8. mf \in [0..Len(l) -> Nat] /\ mu \in [0..Len(l) -> Nat]
        /\ mf[L + 1] = nf[L] /\ mu[L + 1] = nu[L] + 1
    <2>1. \A p \in 0..Len(l) : p <= L => nf[p] \in Nat /\ nu[p] \in Nat
      BY <1>2, <1>4
    <2>2. nf[L] \in Nat /\ nu[L] \in Nat /\ nu[L] + 1 \in Nat
      BY <1>2
    <2>3. L + 1 \in 0..Len(l) /\ ~(L + 1 <= L)
      BY <1>2, <1>4
    <2> QED BY <2>1, <2>2, <2>3
  <1> HIDE DEF mf, mu
  <1>9. Adds(all, nf, nu, more, mf, mu, <<>>, <<u>>)
    <2>1. <<>> \in Seq(FileMessages) /\ <<u>> \in Seq(Updates)
      OBVIOUS
    <2>2. more # <<>> => more[1].part = 1
      BY <1>3, <1>5
    <2> QED BY <1>3, <1>6, <1>7, <1>8, <2>1, <2>2 DEF Adds, l, L
  <1>10. ASSUME NEW p \in 1..Len(l) PROVE WrittenAt(l, mf, mu, p)'
    <2>1. CASE p \in 1..L
      <3>1. WrittenAt(all \o more, mf, mu, p)'
        BY <1>1, <1>9, <2>1, WrittenStays DEF L
      <3> QED BY <3>1 DEF l
    <2>2. CASE p = L + 1
      <3>1. L \in 0..L /\ p - 1 = L
        BY <1>2, <2>2
      <3>2. mu[p] = Len(sentUpdates) + 1 /\ mf[p] = mf[p - 1] /\ mu[p] = mu[p - 1] + 1
        <4>1. nu[L] = Len(sentUpdates) /\ mf[L] = nf[L] /\ mu[L] = nu[L]
          BY <1>2, <1>7, <3>1 DEF Written, L
        <4> QED BY <1>8, <2>2, <3>1, <4>1
      <3>3. l[p] = unit /\ sentUpdates'[mu[p]] = u
        BY <1>4, <1>6, <2>2, <3>2
      <3> QED BY <1>5, <3>2, <3>3 DEF WrittenAt
    <2> QED BY <1>2, <1>4, <2>1, <2>2
  <1>11. Written(l, mf, mu)'
    <2>1. mf[0] = 0 /\ mu[0] = 0
      <3>1. 0 \in 0..L
        BY <1>2
      <3> QED BY <1>2, <1>7, <3>1 DEF Written
    <2>2. nf[L] = Len(sentFiles) /\ nu[L] = Len(sentUpdates) /\ UNCHANGED sentFiles
      BY <1>2 DEF Written, L
    <2>3. ASSUME NEW p \in 0..Len(l) PROVE mf[p] <= Len(sentFiles') /\ mu[p] <= Len(sentUpdates')
      <3>1. CASE p \in 0..L
        <4>1. nf[p] \in Nat /\ nu[p] \in Nat /\ nf[p] <= Len(sentFiles) /\ nu[p] <= Len(sentUpdates)
          BY <1>2, <3>1 DEF Written, L
        <4> QED BY <1>6, <1>7, <2>2, <3>1, <4>1
      <3>2. CASE p = L + 1
        BY <1>6, <1>8, <2>2, <3>2
      <3> QED BY <1>2, <1>4, <3>1, <3>2
    <2> QED BY <1>4, <1>6, <1>8, <1>10, <2>1, <2>2, <2>3 DEF Written
  <1>12. Written(all \o more, mf, mu)'
    BY <1>11 DEF l
  <1> QED BY <1>1, <1>9, <1>12, FlowsMore

\* The Mac sends a file message.
LEMMA FlowsSendsFile ==
  ASSUME TypeOK, Said, Flows, Still, UNCHANGED sentUpdates,
         NEW f \in FileMessages, sentFiles' = Append(sentFiles, f),
         plain' = plain \o <<[m |-> f, part |-> 1], [m |-> f, part |-> 2]>>
  PROVE  Flows'
  <1>1. PICK all, nf, nu, cut : Line(all, nf, nu, cut)
    BY DEF Flows
  <1> DEFINE a == [m |-> f, part |-> 1]
             b == [m |-> f, part |-> 2]
             more == <<a, b>>
             L == Len(all)
             l == all \o more
             mf == [p \in 0..Len(l) |-> IF p <= L THEN nf[p] ELSE nf[L] + 1]
             mu == [p \in 0..Len(l) |-> IF p <= L THEN nu[p] ELSE nu[L]]
  <1>2. /\ all \in Seq(Units) /\ L \in Nat /\ Written(all, nf, nu)
        /\ nf \in [0..L -> Nat] /\ nu \in [0..L -> Nat]
    BY <1>1 DEF Line
  <1>3. /\ a \in Units /\ b \in Units /\ more \in Seq(Units) /\ Len(more) = 2
        /\ more[1] = a /\ more[2] = b /\ more # <<>>
    BY DEF Units, Messages
  <1>4. /\ l \in Seq(Units) /\ Len(l) = L + 2 /\ l[L + 1] = a /\ l[L + 2] = b
    <2>1. more \in Seq(Units)
      BY <1>3
    <2> HIDE DEF more, a, b
    <2>2. /\ l \in Seq(Units) /\ Len(l) = L + Len(more)
          /\ \A i \in 1..Len(more) : l[L + i] = more[i]
      BY <1>2, <2>1, Joined
    <2> QED BY <1>3, <2>2
  <1>5. /\ a.m = f /\ a.part = 1 /\ IsFile(a)
        /\ b = [a EXCEPT !.part = 2] /\ b.m.k = "file" /\ b.part = 2
    BY DEF IsFile, FileMessages
  <1> HIDE DEF a, b, more, l, L
  <1>6. /\ plain' = plain \o more /\ sentFiles' = sentFiles \o <<f>>
        /\ sentUpdates' = sentUpdates \o <<>>
        /\ Len(sentFiles') = Len(sentFiles) + 1 /\ sentFiles'[Len(sentFiles) + 1] = f
        /\ Len(sentUpdates) \in Nat /\ Len(sentFiles) \in Nat
    <2>1. sentUpdates \in Seq(Updates) /\ sentFiles \in Seq(FileMessages)
      BY DEF Said
    <2>2. Append(sentFiles, f) = sentFiles \o <<f>>
      BY <2>1, AppendIsConcat
    <2>3. sentUpdates \o <<>> = sentUpdates
      BY <2>1, ConcatEmptySeq
    <2>4. /\ Len(sentFiles') = Len(sentFiles) + 1 /\ sentFiles'[Len(sentFiles) + 1] = f
      BY <2>1, AppendProperties
    <2> QED BY <2>1, <2>2, <2>3, <2>4 DEF more, a, b
  <1>7. \A p \in 0..L : mf[p] = nf[p] /\ mu[p] = nu[p]
    BY <1>2, <1>4
  <1>8. /\ mf \in [0..Len(l) -> Nat] /\ mu \in [0..Len(l) -> Nat]
        /\ mf[L + 1] = nf[L] + 1 /\ mu[L + 1] = nu[L]
        /\ mf[L + 2] = nf[L] + 1 /\ mu[L + 2] = nu[L]
    <2>1. \A p \in 0..Len(l) : p <= L => nf[p] \in Nat /\ nu[p] \in Nat
      BY <1>2, <1>4
    <2>2. nf[L] \in Nat /\ nu[L] \in Nat /\ nf[L] + 1 \in Nat
      BY <1>2
    <2>3. L + 1 \in 0..Len(l) /\ ~(L + 1 <= L) /\ L + 2 \in 0..Len(l) /\ ~(L + 2 <= L)
      BY <1>2, <1>4
    <2> QED BY <2>1, <2>2, <2>3
  <1> HIDE DEF mf, mu
  <1>9. Adds(all, nf, nu, more, mf, mu, <<f>>, <<>>)
    <2>1. <<f>> \in Seq(FileMessages) /\ <<>> \in Seq(Updates)
      OBVIOUS
    <2>2. more # <<>> => more[1].part = 1
      BY <1>3, <1>5
    <2> QED BY <1>3, <1>6, <1>7, <1>8, <2>1, <2>2 DEF Adds, l, L
  <1>10. ASSUME NEW p \in 1..Len(l) PROVE WrittenAt(l, mf, mu, p)'
    <2>1. CASE p \in 1..L
      <3>1. WrittenAt(all \o more, mf, mu, p)'
        BY <1>1, <1>9, <2>1, WrittenStays DEF L
      <3> QED BY <3>1 DEF l
    <2>2. CASE p = L + 1
      <3>1. L \in 0..L /\ p - 1 = L /\ p < Len(l) /\ p + 1 = L + 2
        BY <1>2, <1>4, <2>2
      <3>2. mf[p] = Len(sentFiles) + 1 /\ mf[p] = mf[p - 1] + 1 /\ mu[p] = mu[p - 1]
        <4>1. nf[L] = Len(sentFiles) /\ mf[L] = nf[L] /\ mu[L] = nu[L]
          BY <1>2, <1>7, <3>1 DEF Written, L
        <4> QED BY <1>8, <2>2, <3>1, <4>1
      <3>3. l[p] = a /\ sentFiles'[mf[p]] = f /\ l[p + 1] = b
        BY <1>4, <1>6, <2>2, <3>1, <3>2
      <3> QED BY <1>5, <3>1, <3>2, <3>3 DEF WrittenAt
    <2>3. CASE p = L + 2
      <3>1. p - 1 = L + 1 /\ p > 1
        BY <1>2, <2>3
      <3>2. l[p] = b /\ l[p - 1] = a /\ mf[p] = mf[p - 1] /\ mu[p] = mu[p - 1]
        BY <1>4, <1>8, <2>3, <3>1
      <3> QED BY <1>5, <3>1, <3>2 DEF WrittenAt
    <2> QED BY <1>2, <1>4, <2>1, <2>2, <2>3
  <1>11. Written(l, mf, mu)'
    <2>1. mf[0] = 0 /\ mu[0] = 0
      <3>1. 0 \in 0..L
        BY <1>2
      <3> QED BY <1>2, <1>7, <3>1 DEF Written
    <2>2. nf[L] = Len(sentFiles) /\ nu[L] = Len(sentUpdates) /\ UNCHANGED sentUpdates
      BY <1>2 DEF Written, L
    <2>3. ASSUME NEW p \in 0..Len(l) PROVE mf[p] <= Len(sentFiles') /\ mu[p] <= Len(sentUpdates')
      <3>1. CASE p \in 0..L
        <4>1. nf[p] \in Nat /\ nu[p] \in Nat /\ nf[p] <= Len(sentFiles) /\ nu[p] <= Len(sentUpdates)
          BY <1>2, <3>1 DEF Written, L
        <4> QED BY <1>6, <1>7, <2>2, <3>1, <4>1
      <3>2. CASE p = L + 1 \/ p = L + 2
        BY <1>6, <1>8, <2>2, <3>2
      <3> QED BY <1>2, <1>4, <3>1, <3>2
    <2> QED BY <1>4, <1>6, <1>8, <1>10, <2>1, <2>2, <2>3 DEF Written
  <1>12. Written(all \o more, mf, mu)'
    BY <1>11 DEF l
  <1> QED BY <1>1, <1>9, <1>12, FlowsMore

\* A piece is where it was when another record is cut off.
LEMMA PieceStays ==
  ASSUME NEW all, NEW cut, NEW cut2, NEW p, NEW x, PieceOf(p, x, all, cut),
         DOMAIN cut \subseteq DOMAIN cut2, \A r \in DOMAIN cut : cut2[r] = cut[r]
  PROVE  PieceOf(p, x, all, cut2)
  BY DEF PieceOf

\* The Mac puts the next units into a record.
LEMMA FlowsPacks ==
  ASSUME TypeOK, Said, Flows, pc = "idle", UNCHANGED conn, NEW n \in 1..MaxUnits, MacPacks(n)
  PROVE  Flows'
  <1>1. PICK all, nf, nu, cut : Line(all, nf, nu, cut)
    BY DEF Flows
  <1>2. PICK intact \in BOOLEAN :
          /\ IF intact THEN UNCHANGED faults ELSE Fault("damaged")
          /\ net' = net \o [h \in 1..2 |-> [seq |-> encSeq, half |-> h, intact |-> intact,
                                            body |-> SubSeq(plain, 1, n)]]
    BY DEF MacPacks
  <1>3. /\ pc' = "idle" /\ n <= Len(plain) /\ n \in Nat /\ n >= 1
        /\ \A i \in 1..n - 1 : plain[i].m.k = "file"
        /\ plain' = SubSeq(plain, n + 1, Len(plain)) /\ encSeq' = encSeq + 1
        /\ UNCHANGED <<sentFiles, sentUpdates, gotFiles, gotUpdates, pending, decSeq, bodies,
                       other, decoder>>
    BY DEF MacPacks, conn, thread, buffers, sents, gots
  <1>4. /\ faults \subseteq faults' /\ (intact \/ "damaged" \in faults')
    BY <1>2 DEF Fault
  <1>5. /\ all \in Seq(Units) /\ Len(all) \in Nat /\ DOMAIN cut = 0..encSeq
        /\ \A r \in 0..encSeq : cut[r] \in 0..Len(all) /\ cut[r] \in Nat
        /\ \A r \in 0..encSeq - 1 : cut[r] < cut[r + 1]
        /\ decSeq <= encSeq /\ Fed \in 0..decSeq /\ Fed \in Nat
    BY <1>1, Cuts
  <1>6. /\ plain \in Seq(Units) /\ Len(plain) \in Nat /\ decSeq \in Nat /\ encSeq \in Nat
        /\ pending \in Seq(Pieces) /\ net \in Seq(Pieces) /\ Len(net) \in Nat
        /\ Len(pending) \in Nat /\ Len(bodies) \in Nat
    BY StreamTypes
  <1> DEFINE L == Len(all)
             a == cut[encSeq]
             longer == [r \in 0..encSeq + 1 |-> IF r <= encSeq THEN cut[r] ELSE a + n]
             body == SubSeq(all, a + 1, a + n)
             two == [h \in 1..2 |-> [seq |-> encSeq, half |-> h, intact |-> intact,
                                     body |-> SubSeq(plain, 1, n)]]
  <1>7. a \in 0..L /\ a \in Nat /\ L \in Nat
    <2>1. encSeq \in 0..encSeq
      BY <1>6
    <2> QED BY <1>5, <2>1
  <1>8. plain = SubSeq(all, a + 1, L)
    BY <1>1 DEF Line, Records
  <1> HIDE DEF a
  <1>9. /\ Len(plain) = L - a /\ \A i \in 1..L - a : plain[i] = all[a + i]
    <2>1. L \in 0..L /\ a <= L
      BY <1>7
    <2> QED BY <1>5, <1>7, <1>8, <2>1, Part
  <1>10. a + n \in 0..L /\ a + n \in Nat /\ n \in 0..L - a
    BY <1>3, <1>7, <1>9
  <1>11. SubSeq(plain, 1, n) = body /\ plain' = SubSeq(all, (a + n) + 1, L)
    <2> HIDE DEF L
    <2>1. L \in 0..Len(all) /\ a <= L /\ 0 \in Nat /\ 0 <= n /\ n <= L - a /\ L - a \in 0..L - a
      BY <1>7, <1>10 DEF L
    <2>2. SubSeq(SubSeq(all, a + 1, L), 0 + 1, n) = SubSeq(all, a + 0 + 1, a + n)
      BY <1>5, <1>7, <1>10, <2>1, PartOfPart
    <2>3. SubSeq(SubSeq(all, a + 1, L), n + 1, L - a) = SubSeq(all, a + n + 1, a + (L - a))
      BY <1>3, <1>5, <1>7, <2>1, PartOfPart
    <2>4. 0 + 1 = 1 /\ a + 0 + 1 = a + 1 /\ a + (L - a) = L /\ a + n + 1 = (a + n) + 1
      BY <1>3, <1>7
    <2> QED BY <1>3, <1>8, <1>9, <2>2, <2>3, <2>4
  <1>12. PICK cut2 : cut2 = longer
    OBVIOUS
  <1>13. /\ cut2 \in [0..encSeq + 1 -> 0..L] /\ DOMAIN cut2 = 0..encSeq + 1
         /\ \A r \in 0..encSeq : cut2[r] = cut[r]
         /\ cut2[encSeq] = a /\ cut2[encSeq + 1] = a + n
         /\ DOMAIN cut \subseteq DOMAIN cut2
    <2>1. \A r \in 0..encSeq + 1 : r <= encSeq => cut[r] \in 0..L
      BY <1>5, <1>6
    <2>2. cut2 = longer
      BY <1>12
    <2>3. encSeq + 1 \in 0..encSeq + 1 /\ ~(encSeq + 1 <= encSeq) /\ encSeq \in 0..encSeq
          /\ \A r \in 0..encSeq : r <= encSeq /\ r \in 0..encSeq + 1
      BY <1>6
    <2>4. \A r \in 0..encSeq : cut2[r] = cut[r]
      BY <2>2, <2>3
    <2>5. cut2[encSeq + 1] = a + n
      BY <2>2, <2>3
    <2>6. cut2[encSeq] = a
      BY <2>3, <2>4 DEF a
    <2>7. cut2 \in [0..encSeq + 1 -> 0..L]
      BY <2>2, <1>10, <2>1
    <2> QED BY <1>5, <2>3, <2>4, <2>5, <2>6, <2>7
  <1>14. /\ two \in Seq(Pieces) /\ Len(two) = 2
         /\ \A h \in 1..2 : /\ two[h].seq = encSeq /\ two[h].half = h /\ two[h].intact = intact
                            /\ two[h].body = body
    <2>1. body \in Seq(Units)
      <3>1. a <= a + n
        BY <1>3, <1>7
      <3> QED BY <1>5, <1>7, <1>10, <3>1, Part
    <2>2. \A h \in 1..2 : [seq |-> encSeq, half |-> h, intact |-> intact,
                           body |-> SubSeq(plain, 1, n)] \in Pieces
      <3>1. \A h \in 1..2 : h \in {1, 2}
        OBVIOUS
      <3> HIDE DEF body
      <3> QED BY <1>6, <1>11, <2>1, <3>1 DEF Pieces
    <2>3. two \in [1..2 -> Pieces]
      BY <2>2
    <2>4. \A h \in 1..2 : /\ two[h].seq = encSeq /\ two[h].half = h /\ two[h].intact = intact
                          /\ two[h].body = body
      BY <1>11
    <2> HIDE DEF two
    <2>5. \A k \in Nat : \A t \in [1..k -> Pieces] : t \in Seq(Pieces) /\ Len(t) = k
      OBVIOUS
    <2>6. two \in Seq(Pieces) /\ Len(two) = 2
      BY <2>3, <2>5
    <2> QED BY <2>4, <2>6
  <1>15. net' = net \o two
    BY <1>2
  <1> HIDE DEF longer, two, body, L
  <1>16. /\ Len(net') = Len(net) + 2 /\ \A j \in 1..Len(net) : net'[j] = net[j]
         /\ \A h \in 1..2 : net'[Len(net) + h] = two[h]
    <2>1. net \in Seq(Pieces) /\ two \in Seq(Pieces)
      BY <1>6, <1>14
    <2>2. /\ Len(net \o two) = Len(net) + Len(two)
          /\ \A j \in 1..Len(net) : (net \o two)[j] = net[j]
          /\ \A h \in 1..Len(two) : (net \o two)[Len(net) + h] = two[h]
      BY <2>1, Joined
    <2> QED BY <1>14, <1>15, <2>2
  <1>17. Records(all, cut2)'
    <2>1. /\ cut[0] = 0 /\ 0 \in 0..encSeq
          /\ \A r \in 0..encSeq - 1 : \A p \in cut[r] + 1..cut[r + 1] - 1 : all[p].m.k = "file"
      BY <1>1, <1>6 DEF Line, Records
    <2>2. ASSUME NEW r \in 0..encSeq' - 1
          PROVE  /\ cut2[r] < cut2[r + 1]
                 /\ \A p \in cut2[r] + 1..cut2[r + 1] - 1 : all[p].m.k = "file"
      <3>1. CASE r \in 0..encSeq - 1
        <4>1. r \in 0..encSeq /\ r + 1 \in 0..encSeq
          BY <1>6, <3>1
        <4>2. cut2[r] = cut[r] /\ cut2[r + 1] = cut[r + 1]
          BY <1>13, <4>1
        <4> QED BY <1>5, <2>1, <3>1, <4>2
      <3>2. CASE r = encSeq
        <4>1. cut2[r] = a /\ cut2[r + 1] = a + n /\ a < a + n
          BY <1>3, <1>7, <1>13, <3>2
        <4>2. ASSUME NEW p \in cut2[r] + 1..cut2[r + 1] - 1 PROVE all[p].m.k = "file"
          <5>1. p - a \in 1..n - 1 /\ p - a \in 1..L - a /\ a + (p - a) = p
            BY <1>3, <1>7, <1>10, <4>1
          <5> QED BY <1>3, <1>9, <5>1
        <4>3. cut2[r] < cut2[r + 1]
          BY <4>1
        <4> QED BY <4>2, <4>3
      <3> QED BY <1>3, <1>6, <3>1, <3>2
    <2>3. cut2[0] = 0
      BY <1>13, <2>1
    <2>4. plain' = SubSeq(all, cut2[encSeq'] + 1, Len(all))
      BY <1>3, <1>11, <1>13 DEF L
    <2> QED BY <2>2, <2>3, <2>4 DEF Records
  <1>18. Wire(all, cut2)'
    <2>1. Wire(all, cut)
      BY <1>1 DEF Line
    <2>2. \A r \in DOMAIN cut : cut2[r] = cut[r]
      BY <1>5, <1>13
    <2>3. 2 * decSeq + Len(pending) + Len(net) = 2 * encSeq
      BY <2>1 DEF Wire
    <2>4. ASSUME NEW j \in 1..Len(net')
          PROVE  /\ PieceOf(net'[j], 2 * decSeq + Len(pending) + j, all, cut2)
                 /\ "damaged" \in faults' \/ net'[j].intact
      <3>1. CASE j \in 1..Len(net)
        <4>1. net'[j] = net[j] /\ PieceOf(net[j], 2 * decSeq + Len(pending) + j, all, cut)
          BY <1>16, <2>1, <3>1 DEF Wire
        <4>2. PieceOf(net[j], 2 * decSeq + Len(pending) + j, all, cut2)
          BY <1>13, <2>2, <4>1, PieceStays
        <4>3. "damaged" \in faults \/ net[j].intact
          BY <2>1, <3>1 DEF Wire
        <4> QED BY <1>4, <4>1, <4>2, <4>3
      <3>2. CASE j \notin 1..Len(net)
        <4>1. PICK h \in 1..2 : j = Len(net) + h
          <5>1. j - Len(net) \in 1..2 /\ j = Len(net) + (j - Len(net))
            BY <1>6, <1>16, <3>2
          <5> QED BY <5>1
        <4>2. net'[j] = two[h]
          BY <1>16, <4>1
        <4>3. /\ two[h].seq = encSeq /\ two[h].half = h /\ two[h].intact = intact
              /\ two[h].body = body
          BY <1>14
        <4>4. 2 * encSeq + h = 2 * decSeq + Len(pending) + j
          <5>1. PICK d, e, p, m : d = decSeq /\ e = encSeq /\ p = Len(pending) /\ m = Len(net)
            OBVIOUS
          <5>2. d \in Nat /\ e \in Nat /\ p \in Nat /\ m \in Nat /\ 2 * d + p + m = 2 * e
            BY <1>6, <2>3, <5>1
          <5>3. 2 * e + h = 2 * d + p + (m + h)
            BY <5>2
          <5> QED BY <4>1, <5>1, <5>3
        <4>5. {encSeq, encSeq + 1} \subseteq DOMAIN cut2
          BY <1>6, <1>13
        <4>6. body = SubSeq(all, cut2[encSeq] + 1, cut2[encSeq + 1])
          BY <1>13 DEF body
        <4>7. PieceOf(two[h], 2 * decSeq + Len(pending) + j, all, cut2)
          BY <4>3, <4>4, <4>5, <4>6 DEF PieceOf
        <4> QED BY <1>4, <4>2, <4>3, <4>7
      <3> QED BY <3>1, <3>2
    <2>5. ASSUME NEW j \in 1..Len(pending)
          PROVE  /\ PieceOf(pending[j], 2 * decSeq + j, all, cut2)
                 /\ "damaged" \in faults' \/ pending[j].intact
      <3>1. /\ PieceOf(pending[j], 2 * decSeq + j, all, cut)
            /\ ("damaged" \in faults \/ pending[j].intact)
        BY <2>1 DEF Wire
      <3>2. PieceOf(pending[j], 2 * decSeq + j, all, cut2)
        BY <1>13, <2>2, <3>1, PieceStays
      <3> QED BY <1>4, <3>1, <3>2
    <2>6. 2 * decSeq + Len(pending) + Len(net') = 2 * encSeq'
      <3>1. \A d, e, p, m \in Nat : 2 * d + p + m = 2 * e => 2 * d + p + (m + 2) = 2 * (e + 1)
        OBVIOUS
      <3>2. 2 * decSeq + Len(pending) + (Len(net) + 2) = 2 * (encSeq + 1)
        BY <1>6, <2>3, <3>1
      <3>3. encSeq' = encSeq + 1 /\ Len(net') = Len(net) + 2
        BY <1>3, <1>16
      <3> QED BY <3>2, <3>3
    <2> QED BY <1>3, <2>4, <2>5, <2>6 DEF Wire
  <1>19. Fed' = Fed
    BY <1>3 DEF Fed
  <1>20. Decrypted(all, cut2)'
    <2>1. /\ Len(bodies) <= decSeq
          /\ \A i \in 1..Len(bodies) : bodies[i] = SubSeq(all, cut[Fed + i - 1] + 1, cut[Fed + i])
      BY <1>1 DEF Line, Decrypted
    <2>2. ASSUME NEW i \in 1..Len(bodies)
          PROVE  bodies[i] = SubSeq(all, cut2[Fed + i - 1] + 1, cut2[Fed + i])
      <3>1. Fed + i <= decSeq /\ i \in Nat
        BY <1>6, <2>1 DEF Fed
      <3> DEFINE r == Fed + i - 1
                 s == Fed + i
      <3>2. r \in 0..encSeq /\ s \in 0..encSeq
        BY <1>5, <1>6, <3>1
      <3>3. bodies[i] = SubSeq(all, cut[r] + 1, cut[s])
        BY <2>1
      <3> HIDE DEF r, s
      <3>4. cut2[r] = cut[r] /\ cut2[s] = cut[s]
        BY <1>13, <3>2
      <3>5. bodies[i] = SubSeq(all, cut2[r] + 1, cut2[s])
        BY <3>3, <3>4
      <3> QED BY <3>5 DEF r, s
    <2> QED BY <1>3, <1>19, <2>1, <2>2 DEF Decrypted
  <1>21. cut2[Fed] = cut[Fed]
    <2>1. Fed \in 0..encSeq
      BY <1>5, <1>6
    <2> QED BY <1>13, <2>1
  <1>22. Kept(all, cut2[Fed])'
    <2>1. Kept(all, cut[Fed]) /\ pc # "inspect" /\ pc' # "inspect"
      BY <1>1, <1>3 DEF Line
    <2> QED BY <1>3, <1>19, <1>21, <2>1 DEF Kept
  <1>23. Seen(all, nf, nu, cut2[Fed] - Len(decoder) - Len(other))'
    <2>1. Seen(all, nf, nu, cut[Fed] - Len(decoder) - Len(other))
      BY <1>1 DEF Line
    <2> QED BY <1>3, <1>19, <1>21, <2>1 DEF Seen
  <1>24. Written(all, nf, nu)' /\ cut2 \in [0..encSeq' -> 0..Len(all)]
    BY <1>1, <1>3, <1>13 DEF Line, Written, WrittenAt, L
  <1>25. Line(all, nf, nu, cut2)'
    <2>1. all \in Seq(Units) /\ nf \in [0..Len(all) -> Nat] /\ nu \in [0..Len(all) -> Nat]
      BY <1>1 DEF Line
    <2> QED BY <2>1, <1>17, <1>18, <1>20, <1>22, <1>23, <1>24 DEF Line
  <1>26. \E c : Line(all, nf, nu, c)'
    BY <1>25
  <1> QED BY <1>26 DEF Flows

-----------------------------------------------------------------------------
(* Every step: types, and why the session ends *)

\* A session that is over does nothing.
LEMMA OverRests == ASSUME pc = "over" PROVE ~Next
  BY DEF Next, Client, Tick, Mac, Poll, Read, ReadInterrupted, Drain, Feed, FeedFrom, Inspect,
         TakeDue, AfterPoll

\* What a step of the Mac or of time leaves alone.
LEMMA MacKeeps ==
  ASSUME Mac
  PROVE  pc = "idle" /\ UNCHANGED conn /\ UNCHANGED gots
  BY DEF Mac, MacTakesRequest, MacTakesOffer, MacUpdates, MacSendsFile, MacCloses, MacRelayouts,
         MacPacks

\* The buffer at the steps that leave it alone.
LEMMA ReadingKeeps ==
  ASSUME TypeOK, Reading, UNCHANGED <<pending, bodies>>,
         \/ pc' \in {"over", pc} /\ UNCHANGED reads
         \/ pc = "idle" /\ pc' = "read" /\ reads' = Reads
         \/ pc = "read" /\ pc' = "read" /\ reads > 0 /\ reads' = reads - 1
         \/ pc = "feed" /\ bodies = <<>> /\ pc' = "after"
         \/ pc = "after" /\ pc' = "idle"
  PROVE  Reading'
  <1>1. CASE pc' \in {"over", pc} /\ UNCHANGED reads
    BY <1>1 DEF Reading
  <1>2. CASE pc = "idle" /\ pc' = "read" /\ reads' = Reads
    <2>1. (Reads - Reads) * MaxChunk + 1 = 1
      BY Constants
    <2> QED BY <1>2, <2>1 DEF Reading
  <1>3. CASE pc = "read" /\ pc' = "read" /\ reads > 0 /\ reads' = reads - 1
    <2> DEFINE a == (Reads - reads) * MaxChunk
               b == (Reads - reads') * MaxChunk
    <2>1. reads \in 1..Reads /\ Len(pending) \in Nat
      BY <1>3 DEF TypeOK
    <2>2. b = a + MaxChunk /\ a \in Int
      <3>1. \A x, y \in Int : (x + 1) * y = x * y + y
        OBVIOUS
      <3>2. Reads - reads' = (Reads - reads) + 1 /\ Reads - reads \in Int /\ MaxChunk \in Int
        BY <1>3, <2>1, Constants
      <3> QED BY <3>1, <3>2
    <2>3. Len(pending) <= a + 1
      BY <1>3 DEF Reading
    <2> HIDE DEF a, b
    <2>4. Len(pending) <= b + 1
      BY <2>1, <2>2, <2>3, Constants
    <2> QED BY <1>3, <2>4 DEF Reading, b
  <1>4. CASE pc = "feed" /\ bodies = <<>> /\ pc' = "after"
    BY <1>4 DEF Reading
  <1>5. CASE pc = "after" /\ pc' = "idle"
    BY <1>5 DEF Reading
  <1> QED BY <1>1, <1>2, <1>3, <1>4, <1>5

\* Every step keeps the types.
LEMMA TypeStep ==
  ASSUME TypeOK, Said, Reading, pc = "inspect" => other # <<>>, Next
  PROVE  TypeOK' /\ Reading'
  <1>1. CASE Poll
    <2>1. /\ UNCHANGED <<pending, bodies>> /\ pc = "idle"
          /\ \/ pc' = "over" /\ UNCHANGED reads
             \/ pc' = "read" /\ reads' = Reads
      BY <1>1 DEF Poll, Over, Goes, SendFails
    <2> QED BY <1>1, <2>1, TypePoll, ReadingKeeps
  <1>2. ASSUME NEW n \in 1..MaxChunk, Read(n) PROVE TypeOK' /\ Reading'
    BY <1>2, TypeRead
  <1>3. CASE ReadInterrupted
    <2>1. /\ UNCHANGED <<pending, bodies>> /\ pc = "read" /\ UNCHANGED pc
          /\ reads > 0 /\ reads' = reads - 1
      BY <1>3 DEF ReadInterrupted, thread
    <2> QED BY <1>3, <2>1, TypeReadInterrupted, ReadingKeeps
  <1>4. CASE Drain
    BY <1>4, TypeDrain
  <1>5. CASE Feed
    BY <1>5, TypeFeed
  <1>6. CASE Inspect
    <2>1. pc = "inspect"
      BY <1>6 DEF Inspect
    <2> QED BY <1>6, <2>1, TypeInspect
  <1>7. CASE TakeDue
    <2>1. /\ UNCHANGED <<pending, bodies, reads>> /\ pc = "feed" /\ bodies = <<>>
          /\ pc' \in {"over", "after"}
      BY <1>7 DEF TakeDue, Over, Goes, SendFails, buffers
    <2> QED BY <1>7, <2>1, TypeTakeDue, ReadingKeeps
  <1>8. CASE AfterPoll
    <2>1. /\ UNCHANGED <<pending, bodies, reads>> /\ pc = "after" /\ pc' \in {"over", "idle"}
      BY <1>8 DEF AfterPoll, Over, Goes, SendFails
    <2> QED BY <1>8, <2>1, TypeAfterPoll, ReadingKeeps
  <1>9. CASE Tick
    <2>1. UNCHANGED <<pending, bodies, reads, pc>>
      BY <1>9 DEF Tick, thread, buffers
    <2> QED BY <1>9, <2>1, TypeTick, ReadingKeeps
  <1>10. CASE Mac
    <2>1. UNCHANGED <<pending, bodies, reads, pc>>
      BY <1>10, MacKeeps DEF conn, thread, buffers
    <2> QED BY <1>10, <2>1, TypeMac, ReadingKeeps
  <1> QED BY <1>1, <1>2, <1>3, <1>4, <1>5, <1>6, <1>7, <1>8, <1>9, <1>10 DEF Next, Client

\* Steps after which the session is not over for a record, a file message or
\* because the Mac has closed.
LEMMA BlameStays ==
  ASSUME BlamesRightly, faults \subseteq faults', macOpen' => macOpen,
         UNCHANGED cause \/ cause' \in {"limit", "answer", "timeout", "send"}
  PROVE  BlamesRightly'
  BY DEF BlamesRightly

\* Why a session is over is true.
LEMMA BlameStep ==
  ASSUME TypeOK, Said, BlamesRightly, Flows, Next
  PROVE  BlamesRightly'
  <1>1. faults \subseteq faults'
    BY FaultsGrow
  <1>2. CASE Poll
    <2>1. UNCHANGED cause \/ cause' \in {"timeout", "send"}
      BY <1>2 DEF Poll, Over, Goes, SendFails
    <2>2. UNCHANGED macOpen
      BY <1>2 DEF Poll, mac
    <2> QED BY <1>1, <2>1, <2>2, BlameStays
  <1>3. ASSUME NEW n \in 1..MaxChunk, Read(n) PROVE BlamesRightly'
    <2>1. UNCHANGED cause \/ cause' = "limit"
      BY <1>3 DEF Read, Over, Goes
    <2>2. UNCHANGED macOpen
      BY <1>3 DEF Read, mac
    <2> QED BY <1>1, <2>1, <2>2, BlameStays
  <1>4. CASE ReadInterrupted
    <2>1. UNCHANGED cause /\ UNCHANGED macOpen
      BY <1>4 DEF ReadInterrupted, thread, mac
    <2> QED BY <1>1, <2>1, BlameStays
  <1>5. CASE Drain
    <2>1. UNCHANGED <<macOpen, faults>>
      BY <1>5 DEF Drain, mac, counts
    <2>2. CASE reads > 0 /\ ~macOpen
      <3>1. cause' = "closed"
        BY <1>5, <2>2 DEF Drain, Over
      <3> QED BY <2>1, <2>2, <3>1 DEF BlamesRightly
    <2>3. CASE ~(reads > 0 /\ ~macOpen) /\ ~(\A i \in 1..Whole : Verifies(i))
      <3>1. cause' = "record"
        BY <1>5, <2>3 DEF Drain, Over
      <3>2. "damaged" \in faults
        BY <2>3, DamageBlamed
      <3> QED BY <2>1, <3>1, <3>2 DEF BlamesRightly
    <2>4. CASE ~(reads > 0 /\ ~macOpen) /\ (\A i \in 1..Whole : Verifies(i))
      <3>1. UNCHANGED cause
        BY <1>5, <2>4 DEF Drain, Goes
      <3> QED BY <1>1, <2>1, <3>1, BlameStays
    <2> QED BY <2>2, <2>3, <2>4
  <1>6. CASE Feed
    <2> DEFINE d == Decoded(decoder \o Head(bodies))
    <2>1. UNCHANGED <<macOpen, faults>> /\ pc = "feed" /\ bodies # <<>>
      BY <1>6 DEF Feed, FeedFrom, mac, counts
    <2>2. CASE d.failed
      <3>1. cause' = "file"
        BY <1>6, <2>2 DEF Feed, FeedFrom, Over
      <3>2. "malformed" \in faults
        BY <2>1, <2>2, MalformedBlamed
      <3> QED BY <2>1, <3>1, <3>2 DEF BlamesRightly
    <2>3. CASE ~d.failed
      <3>1. UNCHANGED cause \/ cause' = "limit"
        BY <1>6, <2>3 DEF Feed, FeedFrom, Over, Goes
      <3> QED BY <1>1, <2>1, <3>1, BlameStays
    <2> QED BY <2>2, <2>3
  <1>7. CASE Inspect
    <2>1. UNCHANGED cause \/ cause' \in {"answer", "send"}
      <3>1. Over("answer") \/ SendFails \/ Goes("feed")
        BY <1>7, Zenon DEF Inspect
      <3> QED BY <3>1 DEF Over, Goes, SendFails
    <2>2. UNCHANGED macOpen
      BY <1>7 DEF Inspect, mac
    <2> QED BY <1>1, <2>1, <2>2, BlameStays
  <1>8. CASE TakeDue
    <2>1. UNCHANGED cause \/ cause' = "send"
      BY <1>8 DEF TakeDue, Over, Goes, SendFails
    <2>2. UNCHANGED macOpen
      BY <1>8 DEF TakeDue, mac
    <2> QED BY <1>1, <2>1, <2>2, BlameStays
  <1>9. CASE AfterPoll
    <2>1. UNCHANGED cause \/ cause' = "send"
      BY <1>9 DEF AfterPoll, Over, Goes, SendFails
    <2>2. UNCHANGED macOpen
      BY <1>9 DEF AfterPoll, mac
    <2> QED BY <1>1, <2>1, <2>2, BlameStays
  <1>10. CASE Tick
    <2>1. UNCHANGED <<cause, macOpen>>
      BY <1>10 DEF Tick, thread, mac
    <2> QED BY <1>1, <2>1, BlameStays
  <1>11. CASE Mac
    <2>1. UNCHANGED cause
      BY <1>11, MacKeeps DEF conn, thread
    <2>2. macOpen' => macOpen
      BY <1>11 DEF Mac, MacTakesRequest, MacTakesOffer, MacUpdates, MacSendsFile, MacCloses,
                   MacRelayouts, MacPacks
    <2> QED BY <1>1, <2>1, <2>2, BlameStays
  <1> QED BY <1>2, <1>3, <1>4, <1>5, <1>6, <1>7, <1>8, <1>9, <1>10, <1>11 DEF Next, Client

\* Every step that does not end the session keeps the line.
LEMMA FlowsStep ==
  ASSUME TypeOK, Said, Reading, Flows, Next, pc' # "over"
  PROVE  Flows'
  <1>1. faults \subseteq faults'
    BY FaultsGrow
  <1>2. CASE Poll
    <2>1. UNCHANGED streamed /\ pc # "inspect" /\ pc' # "inspect"
      BY <1>2 DEF Poll, Over, Goes, SendFails, streamed, mac
    <2> QED BY <1>1, <2>1, FlowsStay
  <1>3. ASSUME NEW n \in 1..MaxChunk, Read(n) PROVE Flows'
    BY <1>3, TypeRead, FlowsRead
  <1>4. CASE ReadInterrupted
    <2>1. UNCHANGED streamed /\ pc # "inspect" /\ pc' # "inspect"
      BY <1>4 DEF ReadInterrupted, thread, streamed, mac
    <2> QED BY <1>1, <2>1, FlowsStay
  <1>5. CASE Drain
    BY <1>5, FlowsDrain
  <1>6. CASE Feed
    BY <1>6, FlowsFeed
  <1>7. CASE Inspect
    BY <1>7, FlowsInspect
  <1>8. CASE TakeDue
    <2>1. UNCHANGED streamed /\ pc # "inspect" /\ pc' # "inspect"
      BY <1>8 DEF TakeDue, Over, Goes, SendFails, streamed, mac, buffers
    <2> QED BY <1>1, <2>1, FlowsStay
  <1>9. CASE AfterPoll
    <2>1. UNCHANGED streamed /\ pc # "inspect" /\ pc' # "inspect"
      BY <1>9 DEF AfterPoll, Over, Goes, SendFails, streamed, mac
    <2> QED BY <1>1, <2>1, FlowsStay
  <1>10. CASE Tick
    <2>1. UNCHANGED streamed /\ pc # "inspect" /\ pc' # "inspect"
      BY <1>10 DEF Tick, streamed, mac, buffers, thread
    <2> QED BY <1>1, <2>1, FlowsStay
  <1>11. CASE Mac
    <2>1. pc = "idle" /\ UNCHANGED conn /\ UNCHANGED gots /\ UNCHANGED pc
      BY <1>11, MacKeeps DEF conn, thread
    <2>2. CASE MacTakesRequest \/ MacCloses
      <3>1. UNCHANGED streamed
        BY <2>1, <2>2 DEF MacTakesRequest, MacCloses, streamed, conn, buffers
      <3> QED BY <1>1, <2>1, <3>1, FlowsStay
    <2>3. ASSUME NEW size \in Sizes, MacRelayouts(size) PROVE Flows'
      <3>1. UNCHANGED streamed
        BY <2>1, <2>3 DEF MacRelayouts, streamed, conn, buffers
      <3> QED BY <1>1, <2>1, <3>1, FlowsStay
    <2>4. macLayout \in Sizes
      BY DEF TypeOK
    <2>5. CASE MacTakesOffer
      <3>1. Still /\ UNCHANGED sentFiles
        BY <1>1, <2>1, <2>5 DEF MacTakesOffer, Still, conn, buffers
      <3>2. PICK u \in Updates : MacSays(u)
        BY <2>4, <2>5, AnswersTyped DEF MacTakesOffer
      <3> QED BY <3>1, <3>2, FlowsSays
    <2>6. CASE MacUpdates
      <3>1. Still /\ UNCHANGED sentFiles
        BY <1>1, <2>1, <2>6 DEF MacUpdates, Still, conn, buffers
      <3>2. PICK u \in Updates : MacSays(u)
        BY <2>4, <2>6, AnswersTyped DEF MacUpdates
      <3> QED BY <3>1, <3>2, FlowsSays
    <2>7. CASE MacSendsFile
      <3>1. Still /\ UNCHANGED sentUpdates
        BY <1>1, <2>1, <2>7 DEF MacSendsFile, Still, conn, buffers
      <3>2. PICK good \in BOOLEAN :
              LET f == [k |-> "file", id |-> Len(sentFiles) + 1, good |-> good]
              IN /\ plain' = plain \o <<[m |-> f, part |-> 1], [m |-> f, part |-> 2]>>
                 /\ sentFiles' = Append(sentFiles, f)
        BY <2>7 DEF MacSendsFile
      <3> DEFINE f == [k |-> "file", id |-> Len(sentFiles) + 1, good |-> good]
      <3>3. f \in FileMessages
        BY <2>7, Constants DEF MacSendsFile, FileMessages, Said
      <3>4. /\ plain' = plain \o <<[m |-> f, part |-> 1], [m |-> f, part |-> 2]>>
            /\ sentFiles' = Append(sentFiles, f)
        BY <3>2
      <3> HIDE DEF f
      <3> QED BY <3>1, <3>3, <3>4, FlowsSendsFile
    <2>8. ASSUME NEW n \in 1..MaxUnits, MacPacks(n) PROVE Flows'
      BY <2>1, <2>8, FlowsPacks
    <2> QED BY <1>11, <2>2, <2>3, <2>5, <2>6, <2>7, <2>8 DEF Mac
  <1> QED BY <1>2, <1>3, <1>4, <1>5, <1>6, <1>7, <1>8, <1>9, <1>10, <1>11 DEF Next, Client

\* What is inspected is there.
LEMMA OtherThere == ASSUME TypeOK, Flows PROVE pc = "inspect" => other # <<>>
  <1>1. PICK all, nf, nu, cut : Line(all, nf, nu, cut)
    BY DEF Flows
  <1>2. pc = "inspect" => other = <<all[cut[Fed]]>>
    BY <1>1 DEF Line, Kept
  <1> QED BY <1>2

-----------------------------------------------------------------------------
(* One request under way *)

\* An offer is no request.
LEMMA OfferAdds ==
  ASSUME NEW q \in Seq(Requests)
  PROVE  /\ NoAsk(q) => NoAsk(Append(q, "offer"))
         /\ OneAsk(q) => OneAsk(Append(q, "offer"))
  <1> DEFINE r == Append(q, "offer")
  <1>1. /\ Len(r) = Len(q) + 1 /\ Len(q) \in Nat
        /\ \A i \in 1..Len(q) : r[i] = q[i]
        /\ r[Len(q) + 1] = "offer"
    <2>1. "offer" \in Requests
      BY DEF Requests
    <2> QED BY <2>1, AppendProperties
  <1> HIDE DEF r
  <1>2. \A i \in 1..Len(r) : r[i] # "offer" => i \in 1..Len(q) /\ q[i] # "offer"
    BY <1>1
  <1>3. NoAsk(q) => NoAsk(r)
    BY <1>2 DEF NoAsk
  <1>4. ASSUME OneAsk(q) PROVE OneAsk(r)
    <2>1. PICK i \in 1..Len(q) : q[i] # "offer" /\ \A j \in 1..Len(q) : q[j] # "offer" => j = i
      BY <1>4 DEF OneAsk
    <2>2. i \in 1..Len(r) /\ r[i] # "offer"
      BY <1>1, <2>1
    <2>3. \A j \in 1..Len(r) : r[j] # "offer" => j = i
      BY <1>2, <2>1
    <2> QED BY <2>2, <2>3 DEF OneAsk
  <1> QED BY <1>3, <1>4 DEF r

\* A request behind none is one.
LEMMA AskAdds ==
  ASSUME NEW q \in Seq(Requests), NoAsk(q), NEW x \in Requests, x # "offer"
  PROVE  OneAsk(Append(q, x))
  <1> DEFINE r == Append(q, x)
  <1>1. /\ Len(r) = Len(q) + 1 /\ Len(q) \in Nat
        /\ \A i \in 1..Len(q) : r[i] = q[i]
        /\ r[Len(q) + 1] = x
    BY AppendProperties
  <1> HIDE DEF r
  <1>2. \A i \in 1..Len(r) : r[i] # "offer" => i = Len(q) + 1
    BY <1>1 DEF NoAsk
  <1>3. Len(q) + 1 \in 1..Len(r)
    BY <1>1
  <1>4. OneAsk(r)
    BY <1>1, <1>2, <1>3 DEF OneAsk
  <1> QED BY <1>4 DEF r

\* The Mac takes the first.
LEMMA AskTaken ==
  ASSUME NEW q \in Seq(Requests), q # <<>>
  PROVE  /\ Head(q) # "offer" => ~NoAsk(q) /\ (OneAsk(q) => NoAsk(Tail(q)))
         /\ Head(q) = "offer" => /\ NoAsk(q) => NoAsk(Tail(q))
                                 /\ OneAsk(q) => OneAsk(Tail(q))
  <1> DEFINE r == Tail(q)
  <1>1. /\ Len(r) = Len(q) - 1 /\ Len(q) \in Nat /\ Len(q) > 0 /\ Head(q) = q[1] /\ 1 \in 1..Len(q)
        /\ \A i \in 1..Len(r) : i + 1 \in 1..Len(q) /\ r[i] = q[i + 1] /\ i + 1 # 1
    OBVIOUS
  <1> HIDE DEF r
  <1>2. ASSUME Head(q) # "offer" PROVE ~NoAsk(q) /\ (OneAsk(q) => NoAsk(r))
    <2>1. ~NoAsk(q)
      BY <1>1, <1>2 DEF NoAsk
    <2>2. ASSUME OneAsk(q), NEW i \in 1..Len(r), r[i] # "offer" PROVE FALSE
      <3>1. PICK k \in 1..Len(q) : \A j \in 1..Len(q) : q[j] # "offer" => j = k
        BY <2>2 DEF OneAsk
      <3>2. 1 = k /\ i + 1 = k
        BY <1>1, <1>2, <2>2, <3>1
      <3> QED BY <1>1, <3>2
    <2> QED BY <2>1, <2>2 DEF NoAsk
  <1>3. ASSUME Head(q) = "offer", NoAsk(q) PROVE NoAsk(r)
    BY <1>1, <1>3 DEF NoAsk
  <1>4. ASSUME Head(q) = "offer", OneAsk(q) PROVE OneAsk(r)
    <2>1. PICK k \in 1..Len(q) : q[k] # "offer" /\ \A j \in 1..Len(q) : q[j] # "offer" => j = k
      BY <1>4 DEF OneAsk
    <2>2. k # 1
      BY <1>1, <1>4, <2>1
    <2>3. k - 1 \in 1..Len(r) /\ (k - 1) + 1 = k
      BY <1>1, <2>2
    <2>4. r[k - 1] # "offer"
      BY <1>1, <2>1, <2>3
    <2>5. ASSUME NEW j \in 1..Len(r), r[j] # "offer" PROVE j = k - 1
      <3>1. j + 1 = k
        BY <1>1, <2>1, <2>5
      <3> QED BY <2>3, <3>1, <1>1
    <2> QED BY <2>3, <2>4, <2>5 DEF OneAsk
  <1> QED BY <1>2, <1>3, <1>4 DEF r

\* The Mac says one more, at the end.
LEMMA UpdateAdded ==
  ASSUME TypeOK, Said, Flows, NEW u \in Updates, MacSays(u), UNCHANGED gots
  PROVE  /\ Len(sentUpdates') = Len(sentUpdates) + 1 /\ Len(sentUpdates) \in Nat
         /\ \A i \in 1..Len(sentUpdates) : sentUpdates'[i] = sentUpdates[i]
         /\ sentUpdates'[Len(sentUpdates) + 1] = u
         /\ Len(gotUpdates) \in 0..Len(sentUpdates) /\ gotUpdates' = gotUpdates
  <1>1. sentUpdates \in Seq(Updates) /\ sentUpdates' = Append(sentUpdates, u)
    BY DEF Said, MacSays
  <1>2. /\ Len(gotUpdates) \in 0..Len(sentUpdates) /\ gotUpdates' = gotUpdates
        /\ Len(sentUpdates) \in Nat
    BY Gots DEF gots
  <1> QED BY <1>1, <1>2, AppendProperties

\* An answer is not an update; an update is one to act on.
LEMMA FreshSays ==
  ASSUME TypeOK, Said, Flows, NEW u \in Updates, MacSays(u), UNCHANGED gots
  PROVE  /\ ~u.complete => (NoFresh => NoFresh') /\ (OneFresh => OneFresh')
         /\ u.complete => (NoFresh => OneFresh')
  <1>1. PICK n : n = Len(sentUpdates)
    OBVIOUS
  <1>2. /\ Len(sentUpdates') = n + 1 /\ n \in Nat
        /\ \A i \in 1..n : sentUpdates'[i] = sentUpdates[i]
        /\ sentUpdates'[n + 1] = u
        /\ Len(gotUpdates) \in 0..n /\ gotUpdates' = gotUpdates
    BY <1>1, UpdateAdded
  <1>3. \A i \in 1..n : Fresh(i)' <=> Fresh(i)
    <2> SUFFICES ASSUME NEW i \in 1..n PROVE Fresh(i)' <=> Fresh(i)
      OBVIOUS
    <2>1. i \in Len(gotUpdates) + 1..n <=> i \in Len(gotUpdates) + 1..n + 1
      BY <1>2
    <2> QED BY <1>1, <1>2, <2>1 DEF Fresh
  <1>4. Fresh(n + 1)' <=> u.complete
    <2>1. n + 1 \in Len(gotUpdates) + 1..n + 1
      BY <1>2
    <2> QED BY <1>2, <2>1 DEF Fresh
  <1>5. \A i \in 1..Len(sentUpdates') : i \in 1..n \/ i = n + 1
    BY <1>2
  <1>6. /\ n + 1 \in 1..Len(sentUpdates') /\ n + 1 \notin 1..n
        /\ \A i \in 1..n : i \in 1..Len(sentUpdates')
    BY <1>2
  <1>7. ASSUME ~u.complete, NoFresh PROVE NoFresh'
    <2>1. \A i \in 1..n : ~Fresh(i)
      BY <1>1, <1>7 DEF NoFresh
    <2>2. \A i \in 1..Len(sentUpdates') : ~Fresh(i)'
      BY <1>3, <1>4, <1>5, <1>7, <2>1
    <2> QED BY <2>2 DEF NoFresh
  <1>8. ASSUME ~u.complete, OneFresh PROVE OneFresh'
    <2>1. PICK i \in 1..n : Fresh(i) /\ \A j \in 1..n : Fresh(j) => j = i
      BY <1>1, <1>8 DEF OneFresh
    <2>2. /\ i \in 1..Len(sentUpdates') /\ Fresh(i)'
          /\ \A j \in 1..Len(sentUpdates') : Fresh(j)' => j = i
      BY <1>3, <1>4, <1>5, <1>6, <1>8, <2>1
    <2> QED BY <2>2 DEF OneFresh
  <1>9. ASSUME u.complete, NoFresh PROVE OneFresh'
    <2>1. \A i \in 1..n : ~Fresh(i)
      BY <1>1, <1>9 DEF NoFresh
    <2>2. /\ n + 1 \in 1..Len(sentUpdates') /\ Fresh(n + 1)'
          /\ \A j \in 1..Len(sentUpdates') : Fresh(j)' => j = n + 1
      BY <1>3, <1>4, <1>5, <1>6, <1>9, <2>1
    <2> QED BY <2>2 DEF OneFresh
  <1> QED BY <1>7, <1>8, <1>9

\* The client acts on the next one.
LEMMA FreshSeen ==
  ASSUME Said, UNCHANGED sentUpdates,
         Len(gotUpdates) \in Nat, Len(gotUpdates') = Len(gotUpdates) + 1,
         NEW k, k = Len(gotUpdates) + 1, k \in 1..Len(sentUpdates)
  PROVE  /\ sentUpdates[k].complete => (OneFresh => NoFresh') /\ ~NoFresh
         /\ ~sentUpdates[k].complete => (NoFresh => NoFresh') /\ (OneFresh => OneFresh')
  <1> DEFINE n == Len(sentUpdates)
  <1>1. n \in Nat /\ k \in Nat
    BY DEF Said
  <1>2. \A i \in 1..n : Fresh(i)' <=> Fresh(i) /\ i # k
    BY <1>1 DEF Fresh
  <1>3. Fresh(k) <=> sentUpdates[k].complete
    BY <1>1 DEF Fresh
  <1> QED BY <1>2, <1>3 DEF NoFresh, OneFresh

\* What the client makes of the next update, unless that ends the session.
LEMMA InspectDoes ==
  ASSUME TypeOK, Said, Flows, Inspect, pc' # "over"
  PROVE  \E k \in 1..Len(sentUpdates) :
           /\ k = Len(gotUpdates) + 1 /\ Len(gotUpdates') = k /\ Len(gotUpdates) \in Nat
           /\ sentUpdates[k] \in Updates /\ sentUpdates[k].canvas # Refused
           /\ Observe(DisplayLayout(sentUpdates[k]))
           /\ config' = (IF ParseAnswer(sentUpdates[k]) = None THEN config
                                                   ELSE ParseAnswer(sentUpdates[k]))
           /\ current' = (IF config = None /\ ParseAnswer(sentUpdates[k]) # None
                            THEN ParseAnswer(sentUpdates[k]) ELSE current)
           /\ ~sentUpdates[k].complete => toMac' = toMac
           /\ sentUpdates[k].complete =>
                \E x \in {"full", "incremental"} : toMac' = Append(toMac, x)
  <1>1. PICK all, nf, nu, cut : Line(all, nf, nu, cut)
    BY DEF Flows
  <1>2. pc = "inspect" /\ other # <<>>
    BY OtherThere DEF Inspect
  <1>3. PICK c \in Nat :
           /\ nu[c] = Len(gotUpdates) /\ nu[c] + 1 \in 1..Len(sentUpdates)
           /\ Scan(Head(other)) = sentUpdates[nu[c] + 1]
    <2>1. \E c \in Nat :
           /\ cut[Fed] = c + 1 /\ decoder = <<>> /\ c + 1 <= Len(all) /\ other # <<>>
           /\ nu[c] = Len(gotUpdates) /\ nf[c + 1] = nf[c] /\ nu[c + 1] = nu[c] + 1
           /\ nu[c] + 1 \in 1..Len(sentUpdates)
           /\ Scan(Head(other)) = sentUpdates[nu[c] + 1]
           /\ c + 1 < Len(all) => all[c + 2].part = 1
           /\ gotFiles = SubSeq(sentFiles, 1, nf[c])
           /\ gotUpdates = SubSeq(sentUpdates, 1, nu[c])
      BY <1>1, <1>2, InspectSees
    <2> QED BY <2>1
  <1> DEFINE k == Len(gotUpdates) + 1
             u == Scan(Head(other))
  <1>4. k \in 1..Len(sentUpdates) /\ u = sentUpdates[k]
    BY <1>3
  <1>5. gotUpdates \in Seq(Updates) /\ Len(gotUpdates) \in Nat /\ sentUpdates \in Seq(Updates)
    BY Gots DEF Said
  <1>6. u \in Updates
    BY <1>4, <1>5
  <1> HIDE DEF u
  <1>7. u.canvas # Refused
    BY DEF Inspect, Over, u
  <1>8. /\ Observe(DisplayLayout(u))
        /\ config' = (IF ParseAnswer(u) # None THEN ParseAnswer(u) ELSE config)
        /\ current' = (IF config = None /\ ParseAnswer(u) # None THEN ParseAnswer(u) ELSE current)
    BY <1>7, Zenon DEF Inspect, u
  <1>9. /\ toMac' = (IF ~u.complete THEN toMac
                     ELSE Append(toMac, IF u.layout = None THEN "incremental" ELSE "full"))
        /\ gotUpdates' = Append(gotUpdates, u)
    <2>1. \/ u.complete /\ SendFails
          \/ /\ toMac' = IF ~u.complete THEN toMac
                         ELSE Append(toMac, IF u.layout = None THEN "incremental" ELSE "full")
             /\ gotUpdates' = Append(gotUpdates, u)
      BY <1>7, Zenon DEF Inspect, u
    <2> QED BY <2>1 DEF SendFails, Over
  <1>10. Len(gotUpdates') = k
    BY <1>5, <1>6, <1>9, AppendProperties
  <1>11. /\ ~u.complete => toMac' = toMac
         /\ u.complete => \E x \in {"full", "incremental"} : toMac' = Append(toMac, x)
    BY <1>9
  <1>12. config' = (IF ParseAnswer(u) = None THEN config ELSE ParseAnswer(u))
    BY <1>8
  <1> QED BY <1>4, <1>5, <1>6, <1>7, <1>8, <1>10, <1>11, <1>12

\* Every step that does not end the session leaves one request under way.
LEMMA OneAskedStep ==
  ASSUME TypeOK, Said, Flows, OneAsked, Next, pc' # "over"
  PROVE  OneAsked'
  <1>1. toMac \in Seq(Requests)
    BY DEF TypeOK
  <1>2. ASSUME UNCHANGED <<macRequest, sentUpdates, gotUpdates>>,
               toMac' \in {toMac, Append(toMac, "offer")}
        PROVE  OneAsked'
    <2>1. (NoFresh' <=> NoFresh) /\ (OneFresh' <=> OneFresh) /\ UNCHANGED macRequest
      BY <1>2 DEF NoFresh, OneFresh, Fresh
    <2>2. (NoAsk(toMac) => NoAsk(toMac')) /\ (OneAsk(toMac) => OneAsk(toMac'))
      BY <1>1, <1>2, OfferAdds
    <2>3. \/ OneAsk(toMac') /\ macRequest' = "none" /\ NoFresh'
          \/ NoAsk(toMac') /\ macRequest' # "none" /\ NoFresh'
          \/ NoAsk(toMac') /\ macRequest' = "none" /\ OneFresh'
      BY <2>1, <2>2 DEF OneAsked
    <2>4. (OneAsk(toMac)' <=> OneAsk(toMac')) /\ (NoAsk(toMac)' <=> NoAsk(toMac'))
      BY DEF OneAsk, NoAsk
    <2> QED BY <2>3, <2>4 DEF OneAsked
  <1>3. (OneAsk(toMac)' <=> OneAsk(toMac')) /\ (NoAsk(toMac)' <=> NoAsk(toMac'))
    BY DEF OneAsk, NoAsk
  <1>4. CASE Poll
    BY <1>2, <1>4 DEF Poll, mac, sents, gots
  <1>5. ASSUME NEW n \in 1..MaxChunk, Read(n) PROVE OneAsked'
    BY <1>2, <1>5 DEF Read, mac, sents, gots
  <1>6. CASE ReadInterrupted
    BY <1>2, <1>6 DEF ReadInterrupted, mac, sents, gots
  <1>7. CASE Drain
    BY <1>2, <1>7 DEF Drain, mac, sents, gots
  <1>8. CASE Feed
    BY <1>2, <1>8 DEF Feed, FeedFrom, mac, sents, gots
  <1>9. CASE Inspect
    <2>1. PICK k \in 1..Len(sentUpdates) :
            /\ k = Len(gotUpdates) + 1 /\ Len(gotUpdates') = k /\ Len(gotUpdates) \in Nat
            /\ ~sentUpdates[k].complete => toMac' = toMac
            /\ sentUpdates[k].complete =>
                 \E x \in {"full", "incremental"} : toMac' = Append(toMac, x)
      BY <1>9, InspectDoes
    <2>2. UNCHANGED <<sentUpdates, macRequest>>
      BY <1>9 DEF Inspect, sents, mac
    <2>3. /\ sentUpdates[k].complete => (OneFresh => NoFresh') /\ ~NoFresh
          /\ ~sentUpdates[k].complete => (NoFresh => NoFresh') /\ (OneFresh => OneFresh')
      BY <2>1, <2>2, FreshSeen
    <2>4. sentUpdates[k].complete => (NoAsk(toMac) => OneAsk(toMac'))
      <3>1. \A x \in {"full", "incremental"} : x \in Requests /\ x # "offer"
        BY DEF Requests
      <3> QED BY <1>1, <2>1, <3>1, AskAdds
    <2> QED BY <1>3, <2>1, <2>2, <2>3, <2>4 DEF OneAsked
  <1>10. CASE TakeDue
    <2>1. toMac' \in {toMac, Append(toMac, "offer")}
      BY <1>10 DEF TakeDue
    <2> QED BY <1>2, <1>10, <2>1 DEF TakeDue, mac, sents, gots
  <1>11. CASE AfterPoll
    <2>1. toMac' \in {toMac, Append(toMac, "offer")}
      BY <1>11 DEF AfterPoll
    <2> QED BY <1>2, <1>11, <2>1 DEF AfterPoll, mac, sents, gots
  <1>12. CASE Tick
    BY <1>2, <1>12 DEF Tick, mac, sents, gots
  <1>13. CASE Mac
    <2>1. UNCHANGED gots /\ UNCHANGED gotUpdates
      BY <1>13, MacKeeps DEF gots
    <2>2. CASE MacTakesRequest
      <3>1. /\ toMac # <<>> /\ Head(toMac) # "offer" /\ toMac' = Tail(toMac)
            /\ macRequest' = Head(toMac) /\ UNCHANGED <<sentUpdates, gotUpdates>>
        BY <2>1, <2>2 DEF MacTakesRequest, sents
      <3>2. OneAsk(toMac) => NoAsk(toMac')
        BY <1>1, <3>1, AskTaken
      <3>3. ~NoAsk(toMac)
        BY <1>1, <3>1, AskTaken
      <3>4. macRequest' # "none" /\ (NoFresh' <=> NoFresh)
        <4>1. Head(toMac) \in Requests
          BY <1>1, <3>1
        <4> QED BY <3>1, <4>1 DEF Requests, NoFresh, Fresh
      <3> QED BY <1>3, <3>2, <3>3, <3>4 DEF OneAsked
    <2>3. CASE MacTakesOffer
      <3>1. /\ toMac # <<>> /\ Head(toMac) = "offer" /\ toMac' = Tail(toMac)
            /\ UNCHANGED macRequest
        BY <2>3 DEF MacTakesOffer
      <3>2. PICK u \in Updates : MacSays(u) /\ ~u.complete
        <4>1. macLayout \in Sizes
          BY DEF TypeOK
        <4> QED BY <2>3, <4>1, AnswersTyped, SaysIs DEF MacTakesOffer
      <3>3. (NoFresh => NoFresh') /\ (OneFresh => OneFresh')
        BY <2>1, <3>2, FreshSays
      <3>4. (NoAsk(toMac) => NoAsk(toMac')) /\ (OneAsk(toMac) => OneAsk(toMac'))
        BY <1>1, <3>1, AskTaken
      <3> QED BY <1>3, <3>1, <3>3, <3>4 DEF OneAsked
    <2>4. CASE MacUpdates
      <3>1. macRequest # "none" /\ macRequest' = "none" /\ UNCHANGED toMac
        BY <2>4 DEF MacUpdates
      <3>2. PICK u \in Updates : MacSays(u) /\ u.complete
        <4>1. macLayout \in Sizes
          BY DEF TypeOK
        <4> QED BY <2>4, <4>1, AnswersTyped, SaysIs DEF MacUpdates
      <3>3. NoFresh => OneFresh'
        BY <2>1, <3>2, FreshSays
      <3> QED BY <1>3, <3>1, <3>3 DEF OneAsked
    <2>5. CASE MacSendsFile \/ MacCloses
      BY <1>2, <2>1, <2>5 DEF MacSendsFile, MacCloses, sents
    <2>6. ASSUME NEW size \in Sizes, MacRelayouts(size) PROVE OneAsked'
      BY <1>2, <2>1, <2>6 DEF MacRelayouts, sents
    <2>7. ASSUME NEW n \in 1..MaxUnits, MacPacks(n) PROVE OneAsked'
      BY <1>2, <2>1, <2>7 DEF MacPacks, sents
    <2> QED BY <1>13, <2>2, <2>3, <2>4, <2>5, <2>6, <2>7 DEF Mac
  <1> QED BY <1>4, <1>5, <1>6, <1>7, <1>8, <1>9, <1>10, <1>11, <1>12, <1>13 DEF Next, Client

-----------------------------------------------------------------------------
(* The layout *)

\* Steps that touch neither the layout, what was told of it nor what was made of that.
LEMMA TrackingStays ==
  ASSUME Tracking, UNCHANGED <<config, current, due, told, macLayout, sentUpdates, gotUpdates>>
  PROVE  Tracking'
  BY DEF Tracking, NoneAfter, First

\* The update that the client acts on was the first of those it had not seen.
LEMMA TrackingInspect ==
  ASSUME TypeOK, Said, Flows, Tracking, Inspect, pc' # "over"
  PROVE  Tracking'
  <1>1. PICK k \in 1..Len(sentUpdates) :
           /\ k = Len(gotUpdates) + 1 /\ Len(gotUpdates') = k /\ Len(gotUpdates) \in Nat
           /\ sentUpdates[k] \in Updates
           /\ Observe(DisplayLayout(sentUpdates[k]))
           /\ config' = (IF ParseAnswer(sentUpdates[k]) = None THEN config
                                                   ELSE ParseAnswer(sentUpdates[k]))
           /\ current' = (IF config = None /\ ParseAnswer(sentUpdates[k]) # None
                            THEN ParseAnswer(sentUpdates[k]) ELSE current)
    BY InspectDoes
  <1> DEFINE u == sentUpdates[k]
  <1>2. UNCHANGED <<sentUpdates, macLayout, told>>
    BY DEF Inspect, sents, mac
  <1>3. None \notin Sizes
    BY Constants
  <1>4. IF u.complete THEN u.canvas = None ELSE u.layout = None
    BY DEF Said
  <1>5. ParseAnswer(u) = (IF u.canvas \in Sizes THEN u.canvas ELSE None)
    BY DEF ParseAnswer
  <1>6. DisplayLayout(u) = u.layout
    BY <1>4 DEF DisplayLayout
  <1>7. due' = IF u.layout = None \/ current = None THEN due
               ELSE IF u.layout = current THEN None ELSE u.layout
    BY <1>1, <1>6 DEF Observe
  <1>8. Len(sentUpdates) \in Nat /\ k \in Nat
    BY DEF Said
  <1>9. \A i \in k..Len(sentUpdates) : NoneAfter(i)' => NoneAfter(i)
    BY <1>1, <1>2, <1>8 DEF NoneAfter
  <1>10. NoneAfter(0)' => NoneAfter(k) /\ (u.layout = None => NoneAfter(0))
    BY <1>1, <1>2, <1>8 DEF NoneAfter
  <1>11. config' = None => current' = None /\ due' = None
    BY <1>1, <1>3, <1>5, <1>7 DEF Tracking
  <1>12. config' # None => current' # None
    BY <1>1, <1>3, <1>5, <1>7 DEF Tracking
  <1>13. ASSUME told,
                NEW i \in k + 1..Len(sentUpdates), sentUpdates[i].layout # None, NoneAfter(i)'
         PROVE  sentUpdates[i].layout = macLayout
    <2>1. i \in Len(gotUpdates) + 1..Len(sentUpdates) /\ NoneAfter(i)
      BY <1>1, <1>8, <1>9, <1>13
    <2> QED BY <1>13, <2>1 DEF Tracking
  <1>14. ASSUME told, config' # None, NoneAfter(0)'
         PROVE  macLayout = IF due' = None THEN current' ELSE due'
    <2>1. k \in Len(gotUpdates) + 1..Len(sentUpdates)
      BY <1>1, <1>8
    <2>2. CASE config # None /\ u.layout = None
      BY <1>1, <1>7, <1>10, <1>14, <2>2 DEF Tracking
    <2>3. CASE config # None /\ u.layout # None
      <3>1. u.layout = macLayout
        BY <1>10, <1>14, <2>1, <2>3 DEF Tracking
      <3>2. current # None /\ current' = current
        BY <1>1, <2>3 DEF Tracking
      <3> QED BY <1>7, <2>3, <3>1, <3>2
    <2>4. CASE config = None
      <3>1. u.canvas \in Sizes /\ current' = u.canvas
        BY <1>1, <1>5, <1>14, <2>4
      <3>2. First(k)
        BY <1>1, <1>8, <3>1 DEF First
      <3>3. u.canvas = macLayout
        BY <1>10, <1>14, <2>1, <2>4, <3>2 DEF Tracking
      <3>4. due' = None
        BY <1>7, <2>4 DEF Tracking
      <3> QED BY <3>1, <3>3, <3>4
    <2> QED BY <2>2, <2>3, <2>4
  <1>15. ASSUME told, config' = None,
                NEW i \in k + 1..Len(sentUpdates), First(i)', NoneAfter(i)'
         PROVE  sentUpdates[i].canvas = macLayout
    <2>1. config = None /\ u.canvas \notin Sizes
      BY <1>1, <1>3, <1>5, <1>15
    <2>2. i \in Len(gotUpdates) + 1..Len(sentUpdates) /\ NoneAfter(i)
      BY <1>1, <1>8, <1>9, <1>15
    <2>3. First(i)
      <3>1. sentUpdates[i].canvas \in Sizes
            /\ \A j \in k + 1..i - 1 : sentUpdates[j].canvas \notin Sizes
        BY <1>1, <1>2, <1>15 DEF First
      <3>2. \A j \in Len(gotUpdates) + 1..i - 1 : j = k \/ j \in k + 1..i - 1
        BY <1>1, <1>8
      <3> QED BY <2>1, <3>1, <3>2 DEF First
    <2> QED BY <1>15, <2>1, <2>2, <2>3 DEF Tracking
  <1> QED BY <1>1, <1>2, <1>11, <1>12, <1>13, <1>14, <1>15 DEF Tracking

\* What the Mac says next tells the client of the layout, or of nothing.
LEMMA TrackingSays ==
  ASSUME TypeOK, Said, Flows, Tracking, NEW u \in Updates, MacSays(u), UNCHANGED gots,
         UNCHANGED <<config, current, due, macLayout>>,
         u.canvas \in Sizes => u.canvas = macLayout,
         \/ u.layout = None /\ UNCHANGED told
         \/ u.layout = macLayout /\ u.canvas = None
  PROVE  Tracking'
  <1>1. PICK n : n = Len(sentUpdates)
    OBVIOUS
  <1>2. /\ Len(sentUpdates') = n + 1 /\ n \in Nat
        /\ \A i \in 1..n : sentUpdates'[i] = sentUpdates[i]
        /\ sentUpdates'[n + 1] = u
        /\ Len(gotUpdates) \in 0..n /\ gotUpdates' = gotUpdates
    BY <1>1, UpdateAdded
  <1>3. None \notin Sizes /\ macLayout \in Sizes
    BY Constants DEF TypeOK
  <1>4. \A i \in Len(gotUpdates) + 1..n + 1 :
          i = n + 1 \/ (i \in Len(gotUpdates) + 1..n /\ i \in 1..n)
    <2>1. \A g \in Nat : \A i \in g + 1..n + 1 : i = n + 1 \/ (i \in g + 1..n /\ i \in 1..n)
      BY <1>2
    <2> QED BY <1>2, <2>1
  <1>5. ASSUME NEW i \in 0..n, NoneAfter(i)' PROVE u.layout = None /\ NoneAfter(i)
    <2>1. \A j \in 1..n + 1 : j > i /\ j > Len(gotUpdates) => sentUpdates'[j].layout = None
      BY <1>2, <1>5 DEF NoneAfter
    <2>2. n + 1 \in 1..n + 1 /\ n + 1 > i /\ n + 1 > Len(gotUpdates)
      BY <1>2
    <2>3. \A j \in 1..n : j \in 1..n + 1 /\ sentUpdates'[j] = sentUpdates[j]
      BY <1>2
    <2> QED BY <1>1, <1>2, <2>1, <2>2, <2>3 DEF NoneAfter
  <1>6. ASSUME NEW i \in Len(gotUpdates) + 1..n, First(i)' PROVE First(i)
    <2>1. \A j \in Len(gotUpdates) + 1..i : j \in 1..n /\ sentUpdates'[j] = sentUpdates[j]
      BY <1>2
    <2>2. /\ i \in Len(gotUpdates) + 1..i
          /\ \A j \in Len(gotUpdates) + 1..i - 1 : j \in Len(gotUpdates) + 1..i
      BY <1>2
    <2> QED BY <1>2, <1>6, <2>1, <2>2 DEF First
  <1>7. u.layout = None => UNCHANGED told
    BY <1>3
  <1>8. ASSUME told', NEW i \in Len(gotUpdates) + 1..n + 1,
               sentUpdates'[i].layout # None, NoneAfter(i)'
        PROVE  sentUpdates'[i].layout = macLayout
    <2>1. CASE i = n + 1
      BY <1>2, <1>8, <2>1
    <2>2. CASE i # n + 1
      <3>1. i \in Len(gotUpdates) + 1..n /\ sentUpdates'[i] = sentUpdates[i] /\ i \in 0..n
        BY <1>2, <1>4, <2>2
      <3>2. NoneAfter(i) /\ told
        BY <1>5, <1>7, <1>8, <3>1
      <3> QED BY <1>1, <1>8, <3>1, <3>2 DEF Tracking
    <2> QED BY <2>1, <2>2
  <1>9. ASSUME told', config # None, NoneAfter(0)'
        PROVE  macLayout = IF due = None THEN current ELSE due
    <2>1. 0 \in 0..n
      BY <1>2
    <2>2. NoneAfter(0) /\ u.layout = None
      BY <1>5, <1>9, <2>1
    <2>3. told
      BY <1>7, <1>9, <2>2
    <2> QED BY <1>9, <2>2, <2>3 DEF Tracking
  <1>10. ASSUME told', config = None, NEW i \in Len(gotUpdates) + 1..n + 1, First(i)', NoneAfter(i)'
        PROVE  sentUpdates'[i].canvas = macLayout
    <2>1. CASE i = n + 1
      BY <1>2, <1>10, <2>1 DEF First
    <2>2. CASE i # n + 1
      <3>1. i \in Len(gotUpdates) + 1..n /\ sentUpdates'[i] = sentUpdates[i] /\ i \in 0..n
        BY <1>2, <1>4, <2>2
      <3>2. NoneAfter(i) /\ told /\ First(i)
        BY <1>5, <1>6, <1>7, <1>10, <3>1
      <3> QED BY <1>1, <1>10, <3>1, <3>2 DEF Tracking
    <2> QED BY <2>1, <2>2
  <1> QED BY <1>2, <1>8, <1>9, <1>10 DEF Tracking

\* Every step that does not end the session keeps track of the layout.
LEMMA TrackingStep ==
  ASSUME TypeOK, Said, Flows, Tracking, Next, pc' # "over"
  PROVE  Tracking'
  <1> DEFINE kept == <<config, current, due, told, macLayout, sentUpdates, gotUpdates>>
  <1>1. CASE Poll
    <2>1. UNCHANGED kept
      BY <1>1 DEF Poll, recovery, mac, sents, gots
    <2> QED BY <2>1, TrackingStays
  <1>2. ASSUME NEW n \in 1..MaxChunk, Read(n) PROVE Tracking'
    <2>1. UNCHANGED kept
      BY <1>2 DEF Read, recovery, mac, sents, gots
    <2> QED BY <2>1, TrackingStays
  <1>3. CASE ReadInterrupted
    <2>1. UNCHANGED kept
      BY <1>3 DEF ReadInterrupted, recovery, mac, sents, gots
    <2> QED BY <2>1, TrackingStays
  <1>4. CASE Drain
    <2>1. UNCHANGED kept
      BY <1>4 DEF Drain, recovery, mac, sents, gots
    <2> QED BY <2>1, TrackingStays
  <1>5. CASE Feed
    <2>1. UNCHANGED kept
      BY <1>5 DEF Feed, FeedFrom, recovery, mac, sents, gots
    <2> QED BY <2>1, TrackingStays
  <1>6. CASE Inspect
    BY <1>6, TrackingInspect
  <1>7. CASE TakeDue
    <2>1. UNCHANGED <<config, told, macLayout, sentUpdates, gotUpdates>>
      BY <1>7 DEF TakeDue, mac, sents, gots
    <2>2. \/ UNCHANGED <<current, due>>
          \/ due # None /\ current' = due /\ due' = None
      BY <1>7 DEF TakeDue, recovery
    <2>3. CASE UNCHANGED <<current, due>>
      BY <2>1, <2>3, TrackingStays
    <2>4. CASE due # None /\ current' = due /\ due' = None
      <3>1. config # None
        BY <2>4 DEF Tracking
      <3> QED BY <2>1, <2>4, <3>1 DEF Tracking, NoneAfter
    <2> QED BY <2>2, <2>3, <2>4
  <1>8. CASE AfterPoll
    <2>1. UNCHANGED kept
      BY <1>8 DEF AfterPoll, recovery, mac, sents, gots
    <2> QED BY <2>1, TrackingStays
  <1>9. CASE Tick
    <2>1. UNCHANGED kept
      BY <1>9 DEF Tick, mac, sents, gots
    <2> QED BY <2>1, TrackingStays
  <1>10. CASE Mac
    <2>1. UNCHANGED gots /\ UNCHANGED <<config, current, due, gotUpdates>>
      BY <1>10, MacKeeps DEF conn, gots, recovery
    <2>2. macLayout \in Sizes /\ None \notin Sizes /\ Unusable \notin Sizes /\ Refused \notin Sizes
      BY Constants DEF TypeOK
    <2>3. CASE MacTakesOffer
      <3>1. PICK u \in Updates :
               MacSays(u) /\ u.layout = None /\ (u.canvas \in Sizes => u.canvas = macLayout)
        BY <2>2, <2>3, AnswersTyped, SaysIs DEF MacTakesOffer
      <3>2. UNCHANGED <<macLayout, told>>
        BY <2>3 DEF MacTakesOffer
      <3> QED BY <2>1, <3>1, <3>2, TrackingSays
    <2>4. CASE MacUpdates
      <3>1. UNCHANGED macLayout
        BY <2>4 DEF MacUpdates
      <3>2. CASE told
        <4>1. MacSays(Update(None)) /\ UNCHANGED told
          BY <2>4, <3>2 DEF MacUpdates
        <4>2. Update(None).layout = None /\ Update(None).canvas \notin Sizes
          BY <2>2, SaysIs
        <4>3. Update(None) \in Updates
          BY AnswersTyped
        <4> QED BY <2>1, <3>1, <4>1, <4>2, <4>3, TrackingSays
      <3>3. CASE ~told
        <4>1. MacSays(Update(macLayout))
          BY <2>4, <3>3 DEF MacUpdates
        <4>2. /\ Update(macLayout).layout = macLayout /\ Update(macLayout).canvas = None
              /\ Update(macLayout) \in Updates
          BY <2>2, SaysIs, AnswersTyped
        <4>3. PICK u \in Updates : u = Update(macLayout)
          BY <4>2
        <4> QED BY <2>1, <2>2, <3>1, <4>1, <4>2, <4>3, TrackingSays
      <3> QED BY <3>2, <3>3
    <2>5. ASSUME NEW size \in Sizes, MacRelayouts(size) PROVE Tracking'
      <3>1. ~told' /\ UNCHANGED <<config, current, due>>
        BY <2>1, <2>5 DEF MacRelayouts
      <3> QED BY <3>1 DEF Tracking
    <2>6. CASE MacTakesRequest \/ MacSendsFile \/ MacCloses
      <3>1. UNCHANGED kept
        BY <2>1, <2>6 DEF MacTakesRequest, MacSendsFile, MacCloses, sents
      <3> QED BY <3>1, TrackingStays
    <2>7. ASSUME NEW n \in 1..MaxUnits, MacPacks(n) PROVE Tracking'
      <3>1. UNCHANGED kept
        BY <2>1, <2>7 DEF MacPacks, sents
      <3> QED BY <3>1, TrackingStays
    <2> QED BY <1>10, <2>3, <2>4, <2>5, <2>6, <2>7 DEF Mac
  <1> QED BY <1>1, <1>2, <1>3, <1>4, <1>5, <1>6, <1>7, <1>8, <1>9, <1>10 DEF Next, Client

-----------------------------------------------------------------------------
(* The invariant *)

\* The inductive invariant: it holds at first and every step keeps it.
THEOREM Invariance == Spec => []IInv
  <1>1. Init => IInv
    <2> SUFFICES ASSUME Init PROVE IInv
      OBVIOUS
    <2>1. TypeOK /\ Flows
      BY TypeInit, FlowsInit
    <2>2. Said
      <3>1. <<>> \in Seq(FileMessages) /\ <<>> \in Seq(Updates) /\ 1..Len(<<>>) = {}
        OBVIOUS
      <3>2. sentFiles = <<>> /\ sentUpdates = <<>>
        BY DEF Init
      <3> QED BY <3>1, <3>2 DEF Said
    <2>3. BlamesRightly
      BY DEF Init, BlamesRightly
    <2>4. Reading
      <3>1. pc = "idle" /\ Len(pending) = 0 /\ bodies = <<>>
        BY DEF Init
      <3> QED BY <3>1 DEF Reading
    <2>5. OneAsked
      <3>1. toMac = <<"full", "offer">> /\ Len(toMac) = 2
        BY DEF Init
      <3>2. OneAsk(toMac)
        <4>1. toMac[1] = "full" /\ toMac[2] = "offer" /\ 1..Len(toMac) = {1, 2}
          BY <3>1
        <4> QED BY <4>1 DEF OneAsk
      <3>3. NoFresh
        <4>1. Len(sentUpdates) = 0 /\ 1..0 = {}
          BY DEF Init
        <4> QED BY <4>1 DEF NoFresh
      <3>4. macRequest = "none"
        BY DEF Init
      <3> QED BY <3>2, <3>3, <3>4 DEF OneAsked
    <2>6. Tracking
      <3>1. /\ config = None /\ current = None /\ due = None
            /\ Len(sentUpdates) = 0 /\ Len(gotUpdates) = 0 /\ 0 + 1..0 = {}
        BY DEF Init
      <3> QED BY <3>1 DEF Tracking
    <2> QED BY <2>1, <2>2, <2>3, <2>4, <2>5, <2>6 DEF IInv
  <1>2. IInv /\ [Next]_vars => IInv'
    <2> SUFFICES ASSUME IInv, [Next]_vars PROVE IInv'
      OBVIOUS
    <2>1. CASE UNCHANGED vars
      <3>1. TypeOK' /\ Said' /\ BlamesRightly'
        BY <2>1 DEF IInv, vars, conn, thread, buffers, recovery, waiting, mac, sents, counts,
                    TypeOK, Said, BlamesRightly
      <3>2. UNCHANGED <<streamed, pc, faults>>
        BY <2>1 DEF vars, conn, thread, buffers, mac, streamed, counts
      <3>3. Flows => Flows'
        BY <3>2, FlowsStay
      <3>4. Reading => Reading'
        BY <2>1 DEF vars, conn, thread, buffers, Reading
      <3>5. (OneAsked => OneAsked') /\ (Tracking => Tracking')
        BY <2>1 DEF vars, conn, recovery, mac, sents, gots, OneAsked, OneAsk, NoAsk, NoFresh,
                    OneFresh, Fresh, Tracking, NoneAfter, First
      <3> QED BY <3>1, <3>2, <3>3, <3>4, <3>5 DEF IInv
    <2>2. CASE Next
      <3>1. pc # "over"
        BY <2>2, OverRests
      <3>2. TypeOK /\ Said /\ BlamesRightly /\ Flows /\ Reading /\ OneAsked /\ Tracking
        BY <3>1 DEF IInv
      <3>3. TypeOK' /\ Reading'
        BY <2>2, <3>2, OtherThere, TypeStep
      <3>4. Said' /\ BlamesRightly'
        BY <2>2, <3>2, SaidKeeps, BlameStep
      <3>5. pc' # "over" => Flows' /\ OneAsked' /\ Tracking'
        BY <2>2, <3>2, FlowsStep, OneAskedStep, TrackingStep
      <3> QED BY <3>3, <3>4, <3>5 DEF IInv
    <2> QED BY <2>1, <2>2
  <1> QED BY <1>1, <1>2, PTL DEF Spec

\* The types hold, and what waits to be decrypted stays within one poll.
THEOREM TypeCorrect == Spec => []TypeOK
  <1>1. IInv => TypeOK
    BY DEF IInv
  <1> QED BY <1>1, Invariance, PTL

\* A session that is broken off for a record, a file message or the end of the
\* connection is broken off because of the Mac.
THEOREM Blames == Spec => []BlamesRightly
  <1>1. IInv => BlamesRightly
    BY DEF IInv
  <1> QED BY <1>1, Invariance, PTL

-----------------------------------------------------------------------------
(* What the invariant says of the runs' properties *)

\* The requests in the queue are none or one.
LEMMA AsksCounted ==
  ASSUME NEW q \in Seq(Requests)
  PROVE  /\ NoAsk(q) => Cardinality({i \in DOMAIN q : q[i] # "offer"}) = 0
         /\ OneAsk(q) => Cardinality({i \in DOMAIN q : q[i] # "offer"}) = 1
  <1> DEFINE A == {i \in DOMAIN q : q[i] # "offer"}
  <1>1. DOMAIN q = 1..Len(q)
    OBVIOUS
  <1>2. ASSUME NoAsk(q) PROVE Cardinality(A) = 0
    <2>1. A = {}
      BY <1>1, <1>2 DEF NoAsk
    <2> QED BY <2>1, FS_EmptySet
  <1>3. ASSUME OneAsk(q) PROVE Cardinality(A) = 1
    <2>1. PICK i \in 1..Len(q) : q[i] # "offer" /\ \A j \in 1..Len(q) : q[j] # "offer" => j = i
      BY <1>3 DEF OneAsk
    <2>2. A = {i}
      BY <1>1, <2>1
    <2> QED BY <2>2, FS_Singleton
  <1> QED BY <1>2, <1>3

\* The updates that the client has not seen, by their number.
LEMMA UnseenAre ==
  ASSUME TypeOK, Said, Flows
  PROVE  /\ DOMAIN Unseen = 1..Len(sentUpdates) - Len(gotUpdates)
         /\ \A i \in DOMAIN Unseen :
              /\ Len(gotUpdates) + i \in Len(gotUpdates) + 1..Len(sentUpdates)
              /\ Len(gotUpdates) + i \in 1..Len(sentUpdates)
              /\ Unseen[i] = sentUpdates[Len(gotUpdates) + i]
         /\ \A j \in Len(gotUpdates) + 1..Len(sentUpdates) :
              j \in 1..Len(sentUpdates) /\ j - Len(gotUpdates) \in DOMAIN Unseen
  <1>1. sentUpdates \in Seq(Updates) /\ Len(gotUpdates) \in 0..Len(sentUpdates)
        /\ Len(sentUpdates) \in Nat
    BY Gots DEF Said
  <1>2. PICK g \in Nat, n \in Nat : g = Len(gotUpdates) /\ n = Len(sentUpdates)
    BY <1>1
  <1>3. g + 1 \in 1..n + 1 /\ n \in g..n
    BY <1>1, <1>2
  <1>4. Len(Unseen) = n - g /\ Unseen \in Seq(Updates)
        /\ \A i \in 1..n - g : Unseen[i] = sentUpdates[g + i]
    <2>1. Unseen = SubSeq(sentUpdates, g + 1, n)
      BY <1>2 DEF Unseen
    <2>2. /\ g + 1 <= n + 1 /\ n - (g + 1) + 1 = n - g
          /\ \A i \in 1..n - g : (g + 1) + i - 1 = g + i
      BY <1>1, <1>2
    <2> QED BY <1>1, <1>2, <2>1, <2>2, SubSeqProperties
  <1>5. DOMAIN Unseen = 1..n - g
    BY <1>4
  <1>6. /\ \A i \in 1..n - g : g + i \in g + 1..n /\ g + i \in 1..n
        /\ \A j \in g + 1..n : j \in 1..n /\ j - g \in 1..n - g
    BY <1>3
  <1> QED BY <1>2, <1>4, <1>5, <1>6

\* While the session lasts there is exactly one request or the update that
\* answers it, on its way or waiting.
THEOREM OneUnderWay == Spec => []OneRequest
  <1>1. IInv => OneRequest
    <2> SUFFICES ASSUME IInv, pc # "over"
                 PROVE  Cardinality({i \in DOMAIN toMac : toMac[i] # "offer"})
                        + (IF macRequest = "none" THEN 0 ELSE 1)
                        + Cardinality({i \in DOMAIN Unseen : Unseen[i].complete}) = 1
      BY DEF OneRequest
    <2>1. TypeOK /\ Said /\ Flows /\ OneAsked
      BY DEF IInv
    <2> DEFINE F == {i \in DOMAIN Unseen : Unseen[i].complete}
               A == {i \in DOMAIN toMac : toMac[i] # "offer"}
    <2>2. toMac \in Seq(Requests)
      BY <2>1 DEF TypeOK
    <2>3. (NoAsk(toMac) => Cardinality(A) = 0) /\ (OneAsk(toMac) => Cardinality(A) = 1)
      BY <2>2, AsksCounted
    <2>4. \A i \in DOMAIN Unseen :
            /\ Len(gotUpdates) + i \in 1..Len(sentUpdates)
            /\ Fresh(Len(gotUpdates) + i) <=> Unseen[i].complete
      BY <2>1, UnseenAre DEF Fresh
    <2>5. ASSUME NoFresh PROVE Cardinality(F) = 0
      <3>1. F = {}
        BY <2>4, <2>5 DEF NoFresh
      <3> QED BY <3>1, FS_EmptySet
    <2>6. ASSUME OneFresh PROVE Cardinality(F) = 1
      <3>1. PICK k \in 1..Len(sentUpdates) :
                   Fresh(k) /\ \A j \in 1..Len(sentUpdates) : Fresh(j) => j = k
        BY <2>6 DEF OneFresh
      <3>2. PICK g \in Nat : g = Len(gotUpdates)
        <4>1. Len(gotUpdates) \in Nat
          BY <2>1, Gots
        <4> QED BY <4>1
      <3>3. k \in g + 1..Len(sentUpdates) /\ Len(sentUpdates) \in Nat /\ k \in Nat
        BY <2>1, <3>1, <3>2, Gots DEF Fresh
      <3>4. k - g \in DOMAIN Unseen /\ g + (k - g) = k
        BY <2>1, <3>2, <3>3, UnseenAre
      <3>5. Unseen[k - g].complete
        BY <2>4, <3>1, <3>2, <3>4
      <3>6. ASSUME NEW i \in DOMAIN Unseen, Unseen[i].complete PROVE i = k - g
        <4>1. g + i = k
          BY <2>4, <3>1, <3>2, <3>6
        <4>2. i \in Int
          BY <2>1, UnseenAre
        <4> QED BY <3>2, <3>3, <4>1, <4>2
      <3>7. F = {k - g}
        BY <3>4, <3>5, <3>6
      <3> QED BY <3>7, FS_Singleton
    <2> HIDE DEF F, A
    <2>7. Cardinality(A) + (IF macRequest = "none" THEN 0 ELSE 1) + Cardinality(F) = 1
      BY <2>1, <2>3, <2>5, <2>6 DEF OneAsked
    <2> QED BY <2>7 DEF F, A
  <1> QED BY <1>1, Invariance, PTL

\* Once the client has been told everything, its offer was for the layout of the
\* Mac, or the next one will be.
THEOREM TracksLayout == Spec => []LayoutTracked
  <1>1. IInv => LayoutTracked
    <2> SUFFICES ASSUME IInv, pc # "over", config # None, told,
                        \A i \in DOMAIN Unseen : Unseen[i].layout = None
                 PROVE  due = macLayout \/ (due = None /\ current = macLayout)
      BY DEF LayoutTracked
    <2>1. TypeOK /\ Said /\ Flows /\ Tracking
      BY DEF IInv
    <2>2. ASSUME NEW j \in 1..Len(sentUpdates), j > 0, j > Len(gotUpdates)
          PROVE  sentUpdates[j].layout = None
      <3>1. PICK g \in Nat : g = Len(gotUpdates)
        <4>1. Len(gotUpdates) \in Nat
          BY <2>1, Gots
        <4> QED BY <4>1
      <3>2. j \in g + 1..Len(sentUpdates) /\ g + (j - g) = j
        BY <2>2, <3>1
      <3>3. j - g \in DOMAIN Unseen
        BY <2>1, <3>1, <3>2, UnseenAre
      <3>4. Unseen[j - g] = sentUpdates[j]
        BY <2>1, <3>1, <3>2, <3>3, UnseenAre
      <3> QED BY <3>3, <3>4
    <2>3. NoneAfter(0)
      BY <2>2 DEF NoneAfter
    <2>4. macLayout = IF due = None THEN current ELSE due
      BY <2>1, <2>3 DEF Tracking
    <2> QED BY <2>4
  <1> QED BY <1>1, Invariance, PTL

-----------------------------------------------------------------------------
(* What was sent arrives as two streams *)

\* What the client has got is the beginning of what was sent.
GotBegins ==
  /\ sentFiles \in Seq(FileMessages) /\ gotFiles \in Seq(FileMessages)
  /\ gotFiles = SubSeq(sentFiles, 1, Len(gotFiles)) /\ Len(gotFiles) \in 0..Len(sentFiles)
  /\ sentUpdates \in Seq(Updates) /\ gotUpdates \in Seq(Updates)
  /\ gotUpdates = SubSeq(sentUpdates, 1, Len(gotUpdates))
  /\ Len(gotUpdates) \in 0..Len(sentUpdates)

\* The invariant says so while the session lasts.
LEMMA Begins == (IInv /\ pc # "over") => GotBegins
  <1> SUFFICES ASSUME IInv, pc # "over" PROVE GotBegins
    OBVIOUS
  <1>1. TypeOK /\ Said /\ Flows
    BY DEF IInv
  <1>2. sentFiles \in Seq(FileMessages) /\ sentUpdates \in Seq(Updates)
    BY <1>1 DEF Said
  <1>3. /\ gotFiles \in Seq(FileMessages) /\ Len(gotFiles) \in 0..Len(sentFiles)
        /\ gotFiles = SubSeq(sentFiles, 1, Len(gotFiles))
        /\ gotUpdates \in Seq(Updates) /\ Len(gotUpdates) \in 0..Len(sentUpdates)
        /\ gotUpdates = SubSeq(sentUpdates, 1, Len(gotUpdates))
    BY <1>1, Gots
  <1> QED BY <1>2, <1>3 DEF GotBegins

\* g is the beginning of s.
Beginning(S, s, g) == s \in Seq(S) /\ Len(g) \in 0..Len(s) /\ g = SubSeq(s, 1, Len(g))

\* Nothing, or the messages from the next one to one further on, are handed over.
Handover(s, g, h) ==
  h = g \/ \E n \in Len(g) + 1..Len(s) : h = g \o SubSeq(s, Len(g) + 1, n)

\* The messages between two beginnings are handed over together.
LEMMA Handed ==
  ASSUME NEW S, NEW s, NEW g, NEW h, Beginning(S, s, g), Beginning(S, s, h), Len(g) <= Len(h)
  PROVE  Handover(s, g, h)
  <1>1. /\ s \in Seq(S) /\ Len(g) \in 0..Len(s) /\ g = SubSeq(s, 1, Len(g))
        /\ Len(h) \in 0..Len(s) /\ h = SubSeq(s, 1, Len(h))
    BY DEF Beginning
  <1>2. CASE Len(g) = Len(h)
    BY <1>1, <1>2 DEF Handover
  <1>3. CASE Len(g) # Len(h)
    <2>1. PICK a, b : a = Len(g) /\ b = Len(h)
      OBVIOUS
    <2>2. a \in 0..Len(s) /\ b \in 0..Len(s) /\ a <= b /\ a # b /\ Len(s) \in Nat
      <3>1. s \in Seq(S) /\ Len(g) \in 0..Len(s) /\ Len(h) \in 0..Len(s)
        BY <1>1
      <3>2. Len(s) \in Nat
        BY <3>1
      <3> QED BY <1>3, <2>1, <3>1, <3>2
    <2>3. a \in Nat /\ b \in Nat /\ a <= b /\ b \in 0..Len(s) /\ b \in a + 1..Len(s) /\ 0 <= a
      BY <2>2
    <2>4. 0 \in Nat /\ 0 + 1 = 1
      OBVIOUS
    <2>5. SubSeq(s, 0 + 1, a) \o SubSeq(s, a + 1, b) = SubSeq(s, 0 + 1, b)
      BY <1>1, <2>3, <2>4, PartsJoin
    <2>6. h = g \o SubSeq(s, a + 1, b)
      BY <1>1, <2>1, <2>4, <2>5
    <2> QED BY <2>1, <2>3, <2>6 DEF Handover
  <1> QED BY <1>2, <1>3

\* What is fed is added to what the client has got.
LEMMA FeedGrows ==
  ASSUME TypeOK, GotBegins, Feed, pc' # "over"
  PROVE  Len(gotFiles') >= Len(gotFiles)
  <1> DEFINE us == decoder \o Head(bodies)
             d == Decoded(us)
  <1>1. gotFiles' = gotFiles \o (IF d.sound THEN d.messages ELSE <<None>>)
    <2>1. CASE d.failed
      BY <2>1 DEF Feed, FeedFrom, Over
    <2>2. CASE ~d.failed /\ Len(files) + Len(d.messages) > FileBacklog
      BY <2>2 DEF Feed, FeedFrom, Over
    <2>3. CASE ~d.failed /\ ~(Len(files) + Len(d.messages) > FileBacklog)
      BY <2>3, Zenon DEF Feed, FeedFrom, Goes
    <2> QED BY <2>1, <2>2, <2>3
  <1>2. us \in Seq(Units)
    <2>1. decoder \in Seq(Units) /\ bodies \in Seq(Seq(Units))
      BY DEF TypeOK
    <2>2. bodies # <<>>
      BY DEF Feed, FeedFrom
    <2> QED BY <2>1, <2>2
  <1> HIDE DEF us, d
  <1>3. PICK n \in Nat : DecodedAs(us, Decoded(us), n)
    BY <1>2, DecoderTakes
  <1>4. d.messages \in Seq({us[2 * i - 1].m : i \in 1..n})
    <2> DEFINE M == {us[2 * i - 1].m : i \in 1..n}
    <2>1. d.messages = [i \in 1..n |-> us[2 * i - 1].m]
      BY <1>3 DEF DecodedAs, d
    <2>2. [i \in 1..n |-> us[2 * i - 1].m] \in [1..n -> M]
      OBVIOUS
    <2> HIDE DEF M
    <2>3. \A k \in Nat : \A t \in [1..k -> M] : t \in Seq(M)
      OBVIOUS
    <2>4. d.messages \in Seq(M)
      BY <2>1, <2>2, <2>3
    <2> QED BY <2>4 DEF M
  <1>5. \A S : \A s, t \in Seq(S) : Len(s \o t) >= Len(s)
    OBVIOUS
  <1>6. PICK S : gotFiles \in Seq(S) /\ d.messages \in Seq(S) /\ <<None>> \in Seq(S)
    <2> DEFINE S == FileMessages \cup {us[2 * i - 1].m : i \in 1..n} \cup {None}
    <2>1. gotFiles \in Seq(FileMessages)
      BY DEF GotBegins
    <2>2. gotFiles \in Seq(S) /\ d.messages \in Seq(S) /\ <<None>> \in Seq(S)
      BY <1>4, <2>1
    <2> QED BY <2>2
  <1> QED BY <1>1, <1>5, <1>6

\* What a step does to the file messages.
LEMMA FilesMove ==
  ASSUME IInv, Next
  PROVE  \/ UNCHANGED <<sentFiles, gotFiles>> /\ pc' # "over"
         \/ UNCHANGED <<sentFiles, gotFiles>> /\ pc' = "over"
         \/ pc' # "over" /\ gotFiles' = gotFiles
            /\ \E f \in FileMessages : sentFiles' = Append(sentFiles, f)
         \/ pc' # "over" /\ sentFiles' = sentFiles /\ Len(gotFiles') >= Len(gotFiles)
  <1>1. TypeOK /\ Said /\ GotBegins
    <2>1. pc # "over"
      BY OverRests
    <2> QED BY <2>1, Begins DEF IInv
  <1>2. CASE Feed
    <2>1. sentFiles' = sentFiles
      BY <1>2 DEF Feed, FeedFrom, sents
    <2>2. CASE pc' # "over"
      BY <1>1, <1>2, <2>1, <2>2, FeedGrows
    <2>3. CASE pc' = "over"
      <3>1. gotFiles' = gotFiles
        BY <1>2, <2>3 DEF Feed, FeedFrom, Goes
      <3> QED BY <2>1, <2>3, <3>1
    <2> QED BY <2>2, <2>3
  <1>3. CASE Mac
    <2>1. pc' # "over" /\ gotFiles' = gotFiles
      BY <1>3, MacKeeps DEF conn, thread, gots
    <2>2. CASE MacSendsFile
      <3>1. PICK good \in BOOLEAN :
              sentFiles' = Append(sentFiles, [k |-> "file", id |-> Len(sentFiles) + 1, good |-> good])
        BY <2>2 DEF MacSendsFile
      <3>2. [k |-> "file", id |-> Len(sentFiles) + 1, good |-> good] \in FileMessages
        BY <1>1, <2>2, Constants DEF MacSendsFile, FileMessages, Said
      <3> QED BY <2>1, <3>1, <3>2
    <2>3. CASE MacTakesRequest \/ MacTakesOffer \/ MacUpdates \/ MacCloses
      BY <2>1, <2>3 DEF MacTakesRequest, MacTakesOffer, MacUpdates, MacCloses, sents
    <2>4. ASSUME NEW size \in Sizes, MacRelayouts(size) PROVE sentFiles' = sentFiles
      BY <2>4 DEF MacRelayouts, sents
    <2>5. ASSUME NEW n \in 1..MaxUnits, MacPacks(n) PROVE sentFiles' = sentFiles
      BY <2>5 DEF MacPacks, sents
    <2> QED BY <1>3, <2>1, <2>2, <2>3, <2>4, <2>5 DEF Mac
  <1>4. ASSUME NEW n \in 1..MaxChunk, Read(n) PROVE UNCHANGED <<sentFiles, gotFiles>>
    BY <1>4 DEF Read, sents, gots
  <1>5. CASE Poll \/ ReadInterrupted \/ Drain \/ Inspect \/ TakeDue \/ AfterPoll \/ Tick
    BY <1>5 DEF Poll, ReadInterrupted, Drain, Inspect, TakeDue, AfterPoll, Tick, sents, gots
  <1> QED BY <1>2, <1>3, <1>4, <1>5 DEF Next, Client

\* What a step does to the updates.
LEMMA UpdatesMove ==
  ASSUME IInv, Next
  PROVE  \/ UNCHANGED <<sentUpdates, gotUpdates>> /\ pc' # "over"
         \/ UNCHANGED <<sentUpdates, gotUpdates>> /\ pc' = "over"
         \/ pc' # "over" /\ gotUpdates' = gotUpdates
            /\ \E u \in Updates : sentUpdates' = Append(sentUpdates, u)
         \/ pc' # "over" /\ sentUpdates' = sentUpdates /\ Len(gotUpdates') >= Len(gotUpdates)
  <1>1. TypeOK /\ Said /\ Flows
    BY OverRests DEF IInv
  <1>2. CASE Inspect
    <2>1. sentUpdates' = sentUpdates
      BY <1>2 DEF Inspect, sents
    <2>2. CASE pc' # "over"
      <3>1. Len(gotUpdates') = Len(gotUpdates) + 1 /\ Len(gotUpdates) \in Nat
        BY <1>1, <1>2, <2>2, InspectDoes
      <3> QED BY <2>1, <2>2, <3>1
    <2>3. CASE pc' = "over"
      <3>1. gotUpdates' = gotUpdates
        BY <1>2, <2>3, Zenon DEF Inspect, Goes
      <3> QED BY <2>1, <2>3, <3>1
    <2> QED BY <2>2, <2>3
  <1>3. CASE Mac
    <2>1. pc' # "over" /\ gotUpdates' = gotUpdates
      BY <1>3, MacKeeps DEF conn, thread, gots
    <2>2. macLayout \in Sizes
      BY <1>1 DEF TypeOK
    <2>3. CASE MacTakesOffer \/ MacUpdates
      <3>1. PICK u \in Updates : MacSays(u)
        BY <2>2, <2>3, AnswersTyped DEF MacTakesOffer, MacUpdates
      <3> QED BY <2>1, <3>1 DEF MacSays
    <2>4. CASE MacTakesRequest \/ MacSendsFile \/ MacCloses
      BY <2>1, <2>4 DEF MacTakesRequest, MacSendsFile, MacCloses, sents
    <2>5. ASSUME NEW size \in Sizes, MacRelayouts(size) PROVE sentUpdates' = sentUpdates
      BY <2>5 DEF MacRelayouts, sents
    <2>6. ASSUME NEW n \in 1..MaxUnits, MacPacks(n) PROVE sentUpdates' = sentUpdates
      BY <2>6 DEF MacPacks, sents
    <2> QED BY <1>3, <2>1, <2>3, <2>4, <2>5, <2>6 DEF Mac
  <1>4. ASSUME NEW n \in 1..MaxChunk, Read(n) PROVE UNCHANGED <<sentUpdates, gotUpdates>>
    BY <1>4 DEF Read, sents, gots
  <1>5. CASE Poll \/ ReadInterrupted \/ Drain \/ Feed \/ TakeDue \/ AfterPoll \/ Tick
    BY <1>5 DEF Poll, ReadInterrupted, Drain, Feed, FeedFrom, TakeDue, AfterPoll, Tick, sents, gots
  <1> QED BY <1>2, <1>3, <1>4, <1>5 DEF Next, Client

\* ControlInbound implements two streams: the file messages and the updates of the
\* Mac arrive whole, once each and in order, however they are cut into records.
THEOREM ImplementsStreams == Spec => StreamsSpec
  <1>1. Init => FileStream!Init /\ UpdateStream!Init
    BY DEF Init, FileStream!Init, UpdateStream!Init, BlamesRightly
  <1>2. (IInv /\ pc # "over")' => GotBegins'
    BY Begins, PTL
  <1>3. IInv /\ IInv' /\ [Next]_vars
          => [FileStream!Next]_<<sentFiles, gotFiles, pc # "over", BlamesRightly>>
    <2> SUFFICES ASSUME IInv, IInv', [Next]_vars
                 PROVE  [FileStream!Next]_<<sentFiles, gotFiles, pc # "over", BlamesRightly>>
      OBVIOUS
    <2>1. BlamesRightly /\ BlamesRightly'
      BY DEF IInv
    <2>2. CASE UNCHANGED vars
      BY <2>1, <2>2 DEF vars, conn, thread, sents, gots
    <2>3. CASE Next
      <3>1. pc # "over"
        BY <2>3, OverRests
      <3>2. CASE UNCHANGED <<sentFiles, gotFiles>> /\ pc' # "over"
        BY <2>1, <3>1, <3>2
      <3>3. CASE UNCHANGED <<sentFiles, gotFiles>> /\ pc' = "over"
        BY <2>1, <3>1, <3>3 DEF FileStream!Next, FileStream!Close
      <3>4. CASE pc' # "over" /\ gotFiles' = gotFiles
                 /\ \E f \in FileMessages : sentFiles' = Append(sentFiles, f)
        BY <2>1, <3>1, <3>4 DEF FileStream!Next, FileStream!Send
      <3>5. CASE pc' # "over" /\ sentFiles' = sentFiles /\ Len(gotFiles') >= Len(gotFiles)
        <4>1. GotBegins /\ GotBegins'
          BY <1>2, <3>1, <3>5, Begins
        <4>2. \/ gotFiles' = gotFiles
              \/ \E n \in Len(gotFiles) + 1..Len(sentFiles) :
                   gotFiles' = gotFiles \o SubSeq(sentFiles, Len(gotFiles) + 1, n)
          <5> DEFINE s == sentFiles
          <5>1. PICK g, h : g = gotFiles /\ h = gotFiles'
            OBVIOUS
          <5>2. /\ sentFiles \in Seq(FileMessages)
                /\ Len(gotFiles) \in 0..Len(sentFiles) /\ Len(gotFiles') \in 0..Len(sentFiles)
                /\ gotFiles = SubSeq(sentFiles, 1, Len(gotFiles))
                /\ gotFiles' = SubSeq(sentFiles, 1, Len(gotFiles'))
            BY <3>5, <4>1 DEF GotBegins
          <5>3. Beginning(FileMessages, s, g) /\ Beginning(FileMessages, s, h)
            BY <5>1, <5>2 DEF Beginning
          <5>4. Len(g) <= Len(h)
            BY <3>5, <5>1, <5>2
          <5> HIDE DEF s
          <5>5. Handover(s, g, h)
            BY <5>3, <5>4, Handed
          <5> QED BY <5>1, <5>5 DEF Handover, s
        <4> QED BY <2>1, <3>1, <3>5, <4>2 DEF FileStream!Next, FileStream!Deliver
      <3> QED BY <2>3, <3>2, <3>3, <3>4, <3>5, FilesMove
    <2> QED BY <2>2, <2>3
  <1>4. IInv /\ IInv' /\ [Next]_vars
          => [UpdateStream!Next]_<<sentUpdates, gotUpdates, pc # "over", BlamesRightly>>
    <2> SUFFICES ASSUME IInv, IInv', [Next]_vars
                 PROVE  [UpdateStream!Next]_<<sentUpdates, gotUpdates, pc # "over", BlamesRightly>>
      OBVIOUS
    <2>1. BlamesRightly /\ BlamesRightly'
      BY DEF IInv
    <2>2. CASE UNCHANGED vars
      BY <2>1, <2>2 DEF vars, conn, thread, sents, gots
    <2>3. CASE Next
      <3>1. pc # "over"
        BY <2>3, OverRests
      <3>2. CASE UNCHANGED <<sentUpdates, gotUpdates>> /\ pc' # "over"
        BY <2>1, <3>1, <3>2
      <3>3. CASE UNCHANGED <<sentUpdates, gotUpdates>> /\ pc' = "over"
        BY <2>1, <3>1, <3>3 DEF UpdateStream!Next, UpdateStream!Close
      <3>4. CASE pc' # "over" /\ gotUpdates' = gotUpdates
                 /\ \E u \in Updates : sentUpdates' = Append(sentUpdates, u)
        BY <2>1, <3>1, <3>4 DEF UpdateStream!Next, UpdateStream!Send
      <3>5. CASE pc' # "over" /\ sentUpdates' = sentUpdates /\ Len(gotUpdates') >= Len(gotUpdates)
        <4>1. GotBegins /\ GotBegins'
          BY <1>2, <3>1, <3>5, Begins
        <4>2. \/ gotUpdates' = gotUpdates
              \/ \E n \in Len(gotUpdates) + 1..Len(sentUpdates) :
                   gotUpdates' = gotUpdates \o SubSeq(sentUpdates, Len(gotUpdates) + 1, n)
          <5> DEFINE s == sentUpdates
          <5>1. PICK g, h : g = gotUpdates /\ h = gotUpdates'
            OBVIOUS
          <5>2. /\ sentUpdates \in Seq(Updates)
                /\ Len(gotUpdates) \in 0..Len(sentUpdates) /\ Len(gotUpdates') \in 0..Len(sentUpdates)
                /\ gotUpdates = SubSeq(sentUpdates, 1, Len(gotUpdates))
                /\ gotUpdates' = SubSeq(sentUpdates, 1, Len(gotUpdates'))
            BY <3>5, <4>1 DEF GotBegins
          <5>3. Beginning(Updates, s, g) /\ Beginning(Updates, s, h)
            BY <5>1, <5>2 DEF Beginning
          <5>4. Len(g) <= Len(h)
            BY <3>5, <5>1, <5>2
          <5> HIDE DEF s
          <5>5. Handover(s, g, h)
            BY <5>3, <5>4, Handed
          <5> QED BY <5>1, <5>5 DEF Handover, s
        <4> QED BY <2>1, <3>1, <3>5, <4>2 DEF UpdateStream!Next, UpdateStream!Deliver
      <3> QED BY <2>3, <3>2, <3>3, <3>4, <3>5, UpdatesMove
    <2> QED BY <2>2, <2>3
  <1> QED BY <1>1, <1>3, <1>4, Invariance, PTL
          DEF Spec, StreamsSpec, FileStream!Spec, UpdateStream!Spec

=============================================================================
