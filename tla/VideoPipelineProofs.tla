------------------------ MODULE VideoPipelineProofs ------------------------
(***************************************************************************)
(* Proofs about VideoPipeline and the Depacketizer in it, for any sources, *)
(* plans, limits and times, and any size of the spaces of sequence numbers *)
(* and timestamps: the limits on what waits, that access units are whole   *)
(* pictures in the Mac's order, and what a published picture is made of.   *)
(*                                                                         *)
(* The inductive invariant IInv says that there is a plan such that all    *)
(* packets are of it (Sound).  A group has packets of one picture, so that *)
(* the arithmetic of reassembly can be compared with the plan's (GroupIs): *)
(* consecutive from the marker back to the first slice is whole.  InLine   *)
(* keeps units, bands and the last timestamp of each source in the order   *)
(* of its pictures.  Decoded is about the decoder and the canvas.          *)
(*                                                                         *)
(* poll and the replay of a candidate's packets are folds; PollFold and    *)
(* ReplayFold unfold them, Induct goes along.                              *)
(***************************************************************************)
EXTENDS VideoPipeline, FunctionTheorems, SequenceTheorems, FiniteSetTheorems, TLAPS

\* What the Mac sends of a plan, and the timestamp of picture n.
Sent(plan) == UNION {Sends(s, plan[s]) : s \in Sources}
Ts(n)      == (TsSpace - 3 + n) % TsSpace

Groups(plan) == [src : Sources, ts : Nat, packets : SUBSET Sent(plan), age : Nat, idle : Nat, held : Nat]

Depacketizers(plan) ==
  [tiles : Nat, sources : SUBSET Sources, groups : Seq(Groups(plan)),
   begun : BOOLEAN, since : Nat, haveKey : BOOLEAN, lastTs : [Sources -> Nat \cup {NoTs}],
   packets : [Sources -> Nat], silent : [Sources -> Nat],
   prefix : [Sources -> Seq(Sent(plan))], generation : Nat, epoch : Nat,
   givenUp : SUBSET [src : Sources, pic : Nat, whole : {FALSE}]]

Units == [src : Sources, pic : Nat \ {0}, geo : Nat, key : BOOLEAN, whole : {TRUE}, tile : Nat,
          generation : Nat, epoch : Nat]

\* The packets of a group are of one source and of one time.
OnePicture(g) ==
  /\ IsFiniteSet(g.packets) /\ g.packets # {}
  /\ \A p \in g.packets : p.src = g.src /\ p.ts = g.ts

\* No two groups are of the same picture, and the older is first.
Ordered(gs) ==
  \A i \in 1..Len(gs) : \A j \in 1..i - 1 :
    /\ gs[j].src # gs[i].src \/ gs[j].ts # gs[i].ts
    /\ gs[j].age >= gs[i].age

\* The groups of a depacketizer z, within the limits.
Waiting(z) ==
  /\ Len(z.groups) <= MAX_GROUPS /\ Pending(z) <= MAX_PENDING_BYTES
  /\ \A i \in 1..Len(z.groups) : OnePicture(z.groups[i]) /\ z.groups[i].src \in z.sources
  /\ Ordered(z.groups)

\* No group is oversized.
Fits(z) == \A i \in 1..Len(z.groups) : Cardinality(z.groups[i].packets) <= MAX_GROUP_BYTES

\* Packets are kept of a source only that may take over, one picture wide.
Candidates(z) ==
  \A s \in Sources :
    /\ Len(z.prefix[s]) <= CANDIDATE
    /\ \A i \in 1..Len(z.prefix[s]) : z.prefix[s][i].src = s
    /\ z.prefix[s] # <<>> => z.tiles = 1 /\ z.sources # {} /\ s \notin z.sources

\* Picture n of source s, or a later one, is the last that left.
Reached(z, plan, s, n) == \E m \in DOMAIN plan[s] : z.lastTs[s] = Ts(m) /\ n <= m

Reassembly(z, plan) ==
  /\ z \in Depacketizers(plan)
  /\ z.tiles \in TileCounts /\ IsFiniteSet(z.sources) /\ Cardinality(z.sources) <= z.tiles
  /\ Waiting(z) /\ Candidates(z)
  /\ \A s \in Sources : z.lastTs[s] # NoTs => Reached(z, plan, s, 0)

\* Units us have left in order, after what the bands tl show, and before what z has.
InLine(z, plan, us, tl) ==
  /\ us \in Seq(Units)
  /\ \A i \in 1..Len(us) :
       /\ us[i].tile < z.tiles
       /\ us[i].generation <= z.generation
       /\ us[i].generation = z.generation => Reached(z, plan, us[i].src, us[i].pic)
  /\ \A j \in 1..Len(us) : \A i \in 1..j - 1 :
       us[i].src = us[j].src /\ us[i].generation = us[j].generation => us[i].pic < us[j].pic
  /\ \A i \in DOMAIN tl :
       /\ tl[i].src \in Sources /\ tl[i].pic \in Nat /\ tl[i].stamp[2] \in 0..z.generation
       /\ tl[i].stamp[2] = z.generation => Reached(z, plan, tl[i].src, tl[i].pic)
       /\ \A j \in 1..Len(us) :
            tl[i].src = us[j].src /\ tl[i].stamp[2] = us[j].generation => tl[i].pic < us[j].pic

\* Pictures are decoded from a keyframe on, and show nothing from before it.
Decoded ==
  /\ DOMAIN tiles \subseteq 0..d.tiles - 1 /\ bases \in [Sources -> Nat]
  /\ dirty => ~needsKey
  /\ phase # "over" /\ ~needsKey =>
       /\ \E s \in Sources : bases[s] # 0
       /\ generation \in 0..d.generation
       /\ \A i \in DOMAIN tiles : tiles[i].stamp = <<canvas, generation, lossEpoch>>
  /\ phase # "over" /\ dirty => DOMAIN tiles = 0..d.tiles - 1

\* What is under way, waits, has left and is shown is of one plan.
Sound(plan) ==
  /\ air \subseteq Sent(plan)
  /\ Reassembly(d, plan) /\ Fits(d) /\ InLine(d, plan, units, tiles)

\* The session's own variables.
Session ==
  /\ phase \in {"receive", "decode", "over"}
  /\ generation \in Nat \cup {NoGeneration} /\ lossEpoch \in Nat
  /\ {needsKey, dirty} \subseteq BOOLEAN

\* The inductive invariant.
IInv == (\E plan \in Plans : Sound(plan)) /\ Decoded /\ Session

-----------------------------------------------------------------------------
(* Numbers and folds *)

\* A set of numbers has a least one.
LEMMA LeastNat ==
  ASSUME NEW S \in SUBSET Nat, S # {}
  PROVE  \E n \in S : \A m \in S : n <= m
  <1> DEFINE T == {1..n : n \in S}
  <1>1. T \subseteq FiniteSubsetsOf(Nat)
    <2> SUFFICES ASSUME NEW n \in S PROVE 1..n \in FiniteSubsetsOf(Nat)
      OBVIOUS
    <2>1. IsFiniteSet(1..n) BY FS_Interval
    <2> QED BY <2>1 DEF FiniteSubsetsOf
  <1>2. T # {} OBVIOUS
  <1>3. PICK x \in T : \A y \in T : ~ (<<y, x>> \in StrictSubsetOrdering(Nat))
    <2> HIDE DEF T
    <2> QED BY <1>1, <1>2, FS_StrictSubsetOrderingWellFounded, WFMin
  <1>4. PICK n \in S : x = 1..n BY <1>3
  <1>5. ASSUME NEW m \in S, m < n PROVE FALSE
    <2>1. 1..m \in T /\ 1..m \subseteq Nat /\ 1..n \subseteq Nat OBVIOUS
    <2>2. 1..m \subseteq 1..n BY <1>5
    <2>3. n \in 1..n /\ n \notin 1..m BY <1>5
    <2>4. <<1..m, 1..n>> \in StrictSubsetOrdering(Nat) BY <2>1, <2>2, <2>3 DEF StrictSubsetOrdering
    <2> QED BY <2>1, <2>4, <1>3, <1>4
  <1> QED BY <1>5

\* Induction, for sets.
LEMMA Induct ==
  ASSUME NEW S, 0 \in S, \A n \in Nat : n \in S => n + 1 \in S
  PROVE  Nat \subseteq S
  <1> SUFFICES ASSUME Nat \ S # {} PROVE FALSE OBVIOUS
  <1>1. PICK n \in Nat \ S : \A m \in Nat \ S : n <= m  BY LeastNat
  <1>2. n # 0 /\ n - 1 \in Nat /\ n - 1 < n BY <1>1
  <1>3. n - 1 \in S BY <1>1, <1>2
  <1> QED BY <1>1, <1>2, <1>3

\* A bounded set of numbers that is not empty has a greatest one.
LEMMA MaxIn ==
  ASSUME NEW m \in Nat, NEW S \in SUBSET (0..m), S # {}
  PROVE  Max(S) \in S /\ \A k \in S : k <= Max(S)
  <1> DEFINE D == {m - k : k \in S}
  <1>1. D \in SUBSET Nat OBVIOUS
  <1>2. D # {} OBVIOUS
  <1>3. PICK n \in D : \A j \in D : n <= j
    <2> HIDE DEF D
    <2> QED BY <1>1, <1>2, LeastNat
  <1>4. PICK x \in S : n = m - x BY <1>3
  <1>5. ASSUME NEW k \in S PROVE x >= k
    <2>1. m - k \in D OBVIOUS
    <2>2. n <= m - k BY <2>1, <1>3
    <2> QED BY <2>2, <1>4
  <1>6. S \subseteq Nat OBVIOUS
  <1> QED BY <1>5, <1>6 DEF Max
\* The greatest member of a set of numbers up to n + 1.
LEMMA MaxOf ==
  ASSUME NEW n \in Nat, NEW s \in SUBSET (1..n + 1)
  PROVE  /\ n + 1 \in s => Max(s) = n + 1 /\ s \ {Max(s)} \in SUBSET (1..n)
         /\ n + 1 \notin s => s \in SUBSET (1..n)
         /\ s # {} => Max(s) \in s
  <1>1. s \in SUBSET (0..n + 1) /\ n + 1 \in Nat
    OBVIOUS
  <1>2. ASSUME s # {} PROVE Max(s) \in s /\ \A k \in s : k <= Max(s)
    BY <1>1, <1>2, MaxIn, Zenon
  <1>3. ASSUME n + 1 \in s PROVE Max(s) = n + 1 /\ s \ {Max(s)} \in SUBSET (1..n)
    <2>1. Max(s) \in s /\ \A k \in s : k <= Max(s)
      BY <1>2, <1>3
    <2>2. Max(s) = n + 1
      <3>1. n + 1 <= Max(s)
        BY <2>1, <1>3, Zenon
      <3>2. Max(s) \in 1..n + 1
        BY <2>1
      <3> QED BY <3>1, <3>2
    <2>3. s \ {n + 1} \in SUBSET (1..n)
      OBVIOUS
    <2> QED BY <2>2, <2>3
  <1>4. n + 1 \notin s => s \in SUBSET (1..n)
    OBVIOUS
  <1> QED BY <1>2, <1>3, <1>4

\* PollGroup, from group to group.
PollGroups(b, gs) == FoldLeft(PollGroup, b, gs)

\* f[k] is what PollGroup has come to after k groups.
PollsTo(f, b, gs, n) ==
  /\ f[0] = b /\ f[n] = PollGroups(b, gs)
  /\ \A k \in 1..n : f[k] = PollGroup(f[k - 1], gs[k])

\* FoldLeft(PollGroup, b, gs) goes from group to group.
LEMMA PollFold ==
  ASSUME NEW b, NEW gs, NEW n \in Nat, DOMAIN gs = 1..n
  PROVE  \E f : PollsTo(f, b, gs, n)
  <1> DEFINE Body(it, s) == IF s = {} THEN b ELSE PollGroup(it[s \ {Max(s)}], gs[Max(s)])
             Iter(m, it) == it = [s \in SUBSET (1..m) |-> Body(it, s)]
             Good == {m \in Nat : \E it : Iter(m, it)}
  <1>1. 0 \in Good
    <2> DEFINE it == [s \in SUBSET (1..0) |-> b]
    <2>1. Iter(0, it)
      BY 1..0 = {}
    <2> QED BY <2>1
  <1>2. ASSUME NEW m \in Nat, m \in Good PROVE m + 1 \in Good
    <2>1. PICK it : Iter(m, it)
      BY <1>2
    <2> DEFINE next == [s \in SUBSET (1..m + 1) |->
                          IF m + 1 \in s THEN PollGroup(it[s \ {m + 1}], gs[m + 1]) ELSE it[s]]
    <2>2. \A s \in SUBSET (1..m) : it[s] = Body(it, s) /\ next[s] = it[s]
      <3>1. \A s \in SUBSET (1..m) : it[s] = Body(it, s)
        BY <2>1
      <3>2. \A s \in SUBSET (1..m) : m + 1 \notin s /\ s \in SUBSET (1..m + 1)
        OBVIOUS
      <3> HIDE DEF Body
      <3> QED BY <3>1, <3>2
    <2>3. ASSUME NEW s \in SUBSET (1..m + 1) PROVE next[s] = Body(next, s)
      <3>1. CASE m + 1 \in s
        <4>1. Max(s) = m + 1 /\ s \ {Max(s)} \in SUBSET (1..m) /\ s # {}
          BY <3>1, MaxOf
        <4>2. next[s] = PollGroup(it[s \ {m + 1}], gs[m + 1])
          BY <3>1
        <4>3. next[s \ {m + 1}] = it[s \ {m + 1}]
          BY <4>1, <2>2
        <4> HIDE DEF next
        <4> QED BY <4>1, <4>2, <4>3
      <3>2. CASE m + 1 \notin s
        <4>1. s \in SUBSET (1..m) /\ s \ {Max(s)} \in SUBSET (1..m)
          BY <3>2, MaxOf
        <4> HIDE DEF next
        <4> QED BY <4>1, <2>2
      <3> QED BY <3>1, <3>2
    <2>4. Iter(m + 1, next)
      <3> HIDE DEF Body
      <3> QED BY <2>3
    <2> HIDE DEF Iter
    <2> QED BY <2>4
  <1>3. n \in Good
    <2> HIDE DEF Good
    <2> QED BY <1>1, <1>2, Induct
  <1> DEFINE iter == CHOOSE it : Iter(n, it)
             f == [k \in 0..n |-> iter[1..k]]
  <1>4. Iter(n, iter)
    <2> HIDE DEF Iter
    <2> QED BY <1>3
  <1>5. PollGroups(b, gs) = iter[1..n]
    BY DEF PollGroups, FoldLeft, MapThenFoldSet
  <1> HIDE DEF iter
  <1>6. \A s \in SUBSET (1..n) : iter[s] = Body(iter, s)
    BY <1>4
  <1>7. f[0] = b
    BY <1>6, 1..0 = {}
  <1>8. ASSUME NEW k \in 1..n PROVE f[k] = PollGroup(f[k - 1], gs[k])
    <2>1. k - 1 \in Nat /\ (k - 1) + 1 = k /\ 1..k \in SUBSET (1..(k - 1) + 1) /\ k \in 1..k
      OBVIOUS
    <2>2. Max(1..k) = k
      <3>1. (k - 1) + 1 \in 1..k
        BY <2>1
      <3> QED BY <2>1, <3>1, MaxOf
    <2>3. (1..k) \ {k} = 1..k - 1
      <3>1. \A i \in 1..k : i # k => i \in 1..k - 1
        OBVIOUS
      <3>2. \A i \in 1..k - 1 : i \in 1..k /\ i # k
        OBVIOUS
      <3> QED BY <3>1, <3>2
    <2>4. 1..k \in SUBSET (1..n) /\ 1..k # {}
      <3>1. k \in 1..k /\ \A i \in 1..k : i \in 1..n
        OBVIOUS
      <3> QED BY <3>1
    <2>5. k - 1 \in 0..n /\ k \in 0..n
      OBVIOUS
    <2> QED BY <1>6, <2>2, <2>3, <2>4, <2>5
  <1>9. f[n] = iter[1..n]
    OBVIOUS
  <1>10. f[n] = PollGroups(b, gs)
    BY <1>5, <1>9
  <1> HIDE DEF f
  <1> QED BY <1>7, <1>8, <1>10 DEF PollsTo

\* The function by which a fold adds b and the members of w.
Adds(it, b, w, n) ==
  it = [s \in SUBSET (1..n) |-> IF s = {} THEN b ELSE it[s \ {Max(s)}] + w[Max(s)]]

\* There is such a function.
LEMMA SumExists ==
  ASSUME NEW b, NEW w, NEW n \in Nat
  PROVE  \E it : Adds(it, b, w, n)
  <1> DEFINE Body(it, s) == IF s = {} THEN b ELSE it[s \ {Max(s)}] + w[Max(s)]
             Iter(m, it) == it = [s \in SUBSET (1..m) |-> Body(it, s)]
             Good == {m \in Nat : \E it : Iter(m, it)}
  <1>1. 0 \in Good
    <2> DEFINE it == [s \in SUBSET (1..0) |-> b]
    <2>1. Iter(0, it)
      BY 1..0 = {}
    <2> QED BY <2>1
  <1>2. ASSUME NEW m \in Nat, m \in Good PROVE m + 1 \in Good
    <2>1. PICK it : Iter(m, it)
      BY <1>2
    <2> DEFINE next == [s \in SUBSET (1..m + 1) |->
                          IF m + 1 \in s THEN it[s \ {m + 1}] + w[m + 1] ELSE it[s]]
    <2>2. \A s \in SUBSET (1..m) : it[s] = Body(it, s) /\ next[s] = it[s]
      <3>1. \A s \in SUBSET (1..m) : it[s] = Body(it, s)
        BY <2>1
      <3>2. \A s \in SUBSET (1..m) : m + 1 \notin s /\ s \in SUBSET (1..m + 1)
        OBVIOUS
      <3> HIDE DEF Body
      <3> QED BY <3>1, <3>2
    <2>3. ASSUME NEW s \in SUBSET (1..m + 1) PROVE next[s] = Body(next, s)
      <3>1. CASE m + 1 \in s
        <4>1. Max(s) = m + 1 /\ s \ {Max(s)} \in SUBSET (1..m) /\ s # {}
          BY <3>1, MaxOf
        <4>2. next[s] = it[s \ {m + 1}] + w[m + 1]
          BY <3>1
        <4>3. next[s \ {m + 1}] = it[s \ {m + 1}]
          BY <4>1, <2>2
        <4> HIDE DEF next
        <4> QED BY <4>1, <4>2, <4>3
      <3>2. CASE m + 1 \notin s
        <4>1. s \in SUBSET (1..m) /\ s \ {Max(s)} \in SUBSET (1..m)
          BY <3>2, MaxOf
        <4> HIDE DEF next
        <4> QED BY <4>1, <2>2
      <3> QED BY <3>1, <3>2
    <2>4. Iter(m + 1, next)
      <3> HIDE DEF Body
      <3> QED BY <2>3
    <2> HIDE DEF Iter
    <2> QED BY <2>4
  <1>3. n \in Good
    <2> HIDE DEF Good
    <2> QED BY <1>1, <1>2, Induct
  <1> QED BY <1>3 DEF Adds

\* f[k] is b and the first k members of w.
Totals(f, b, w, n) ==
  f \in [0..n -> Nat] /\ f[0] = b /\ \A k \in 1..n : f[k] = f[k - 1] + w[k]

\* What the fold adds up to is the last of its partial sums.
LEMMA SumSteps ==
  ASSUME NEW b \in Nat, NEW n \in Nat, NEW w \in [1..n -> Nat], NEW it, Adds(it, b, w, n)
  PROVE  \E f : Totals(f, b, w, n) /\ f[n] = it[1..n]
  <1> DEFINE f == [k \in 0..n |-> it[1..k]]
  <1>1. f[0] = b
    BY 1..0 = {} DEF Adds
  <1>2. ASSUME NEW k \in 1..n PROVE f[k] = f[k - 1] + w[k]
    <2>1. k - 1 \in Nat /\ (k - 1) + 1 = k /\ 1..k \in SUBSET (1..(k - 1) + 1) /\ k \in 1..k
      OBVIOUS
    <2>2. Max(1..k) = k
      <3>1. (k - 1) + 1 \in 1..k
        BY <2>1
      <3> QED BY <2>1, <3>1, MaxOf
    <2>3. (1..k) \ {k} = 1..k - 1
      <3>1. \A i \in 1..k : i # k => i \in 1..k - 1
        OBVIOUS
      <3>2. \A i \in 1..k - 1 : i \in 1..k /\ i # k
        OBVIOUS
      <3> QED BY <3>1, <3>2
    <2>4. 1..k \in SUBSET (1..n) /\ 1..k # {}
      <3>1. k \in 1..k /\ \A i \in 1..k : i \in 1..n
        OBVIOUS
      <3> QED BY <3>1
    <2>5. k - 1 \in 0..n /\ k \in 0..n
      OBVIOUS
    <2>6. it[1..k] = it[(1..k) \ {Max(1..k)}] + w[Max(1..k)]
      BY <2>4 DEF Adds
    <2> QED BY <2>2, <2>3, <2>5, <2>6
  <1> DEFINE Good == {k \in Nat : k <= n => f[k] \in Nat}
  <1>3. \A k \in 0..n : f[k] \in Nat
    <2>1. 0 \in Good
      BY <1>1
    <2>2. ASSUME NEW k \in Nat, k \in Good PROVE k + 1 \in Good
      <3>1. CASE k + 1 <= n
        <4>1. k + 1 \in 1..n /\ (k + 1) - 1 = k /\ k <= n
          BY <3>1
        <4>2. f[k + 1] = f[k] + w[k + 1] /\ w[k + 1] \in Nat
          BY <4>1, <1>2
        <4>3. f[k] \in Nat
          BY <4>1, <2>2
        <4> HIDE DEF f
        <4> QED BY <4>2, <4>3
      <3> HIDE DEF f
      <3> QED BY <3>1
    <2>3. Nat \subseteq Good
      <3> HIDE DEF Good
      <3> QED BY <2>1, <2>2, Induct
    <2> HIDE DEF f
    <2> QED BY <2>3
  <1>4. f \in [0..n -> Nat]
    <2>1. \A k \in 0..n : it[1..k] \in Nat
      BY <1>3
    <2> QED BY <2>1
  <1>5. f[n] = it[1..n]
    OBVIOUS
  <1> HIDE DEF f
  <1> QED BY <1>1, <1>2, <1>4, <1>5 DEF Totals

\* Pending adds up the packets of the groups.
LEMMA PendingSum ==
  ASSUME NEW z, NEW n \in Nat, DOMAIN z.groups = 1..n,
         \A i \in 1..n : Cardinality(z.groups[i].packets) \in Nat
  PROVE  \E f \in [0..n -> Nat] :
           /\ f[0] = 0 /\ f[n] = Pending(z)
           /\ \A k \in 1..n : f[k] = f[k - 1] + Cardinality(z.groups[k].packets)
  <1> DEFINE Iter(it) == it = [s \in SUBSET (1..n) |-> IF s = {} THEN 0
                           ELSE it[s \ {Max(s)}] + Cardinality(z.groups[Max(s)].packets)]
             iter == CHOOSE it : Iter(it)
             w == [i \in 1..n |-> Cardinality(z.groups[i].packets)]
  <1>1. w \in [1..n -> Nat]
    OBVIOUS
  <1>2. ASSUME NEW it
        PROVE  Iter(it) <=> Adds(it, 0, w, n)
    <2>1. ASSUME NEW s \in SUBSET (1..n), s # {}
          PROVE  w[Max(s)] = Cardinality(z.groups[Max(s)].packets)
      <3>1. s \in SUBSET (1..n + 1)
        OBVIOUS
      <3>2. Max(s) \in s
        BY <2>1, <3>1, MaxOf
      <3> QED BY <3>2
    <2> HIDE DEF w
    <2> QED BY <2>1 DEF Adds
  <1> HIDE DEF w
  <1>3. \E it : Iter(it)
    <2>1. PICK it : Adds(it, 0, w, n)
      BY SumExists
    <2> HIDE DEF Iter
    <2> QED BY <1>2, <2>1
  <1>4. Iter(iter)
    <2> HIDE DEF Iter
    <2> QED BY <1>3
  <1>5. Pending(z) = iter[1..n]
    BY DEF Pending, FoldLeft, MapThenFoldSet
  <1> HIDE DEF iter, Iter
  <1>6. PICK f : Totals(f, 0, w, n) /\ f[n] = iter[1..n]
    <2>1. Adds(iter, 0, w, n)
      BY <1>2, <1>4
    <2>2. 0 \in Nat
      OBVIOUS
    <2> QED BY ONLY n \in Nat, <1>1, <2>1, <2>2, SumSteps
  <1>7. \A k \in 1..n : w[k] = Cardinality(z.groups[k].packets)
    BY DEF w
  <1> QED BY <1>5, <1>6, <1>7 DEF Totals

\* The sums of the pictures' sizes, by which a source numbers its packets, are numbers.
LEMMA NumbersAdd ==
  ASSUME NEW b \in Nat, NEW n \in Nat, NEW x, DOMAIN x = 1..n, \A i \in 1..n : Size(x[i]) \in Nat
  PROVE  FoldLeft(LAMBDA sum, y : sum + Size(y), b, x) \in Nat
  <1> DEFINE Iter(it) == it = [s \in SUBSET (1..n) |-> IF s = {} THEN b
                           ELSE it[s \ {Max(s)}] + Size(x[Max(s)])]
             iter == CHOOSE it : Iter(it)
             w == [i \in 1..n |-> Size(x[i])]
  <1>1. w \in [1..n -> Nat]
    OBVIOUS
  <1>2. ASSUME NEW it
        PROVE  Iter(it) <=> Adds(it, b, w, n)
    <2>1. ASSUME NEW s \in SUBSET (1..n), s # {}
          PROVE  w[Max(s)] = Size(x[Max(s)])
      <3>1. s \in SUBSET (1..n + 1)
        OBVIOUS
      <3>2. Max(s) \in s
        BY <2>1, <3>1, MaxOf
      <3> QED BY <3>2
    <2> HIDE DEF w
    <2> QED BY <2>1 DEF Adds
  <1> HIDE DEF w
  <1>3. \E it : Iter(it)
    <2>1. PICK it : Adds(it, b, w, n)
      BY SumExists
    <2> HIDE DEF Iter
    <2> QED BY <1>2, <2>1
  <1>4. Iter(iter)
    <2> HIDE DEF Iter
    <2> QED BY <1>3
  <1>5. FoldLeft(LAMBDA sum, y : sum + Size(y), b, x) = iter[1..n]
    BY DEF FoldLeft, MapThenFoldSet
  <1> HIDE DEF iter, Iter
  <1>6. PICK f : Totals(f, b, w, n) /\ f[n] = iter[1..n]
    <2>1. Adds(iter, b, w, n)
      BY <1>2, <1>4
    <2> QED BY ONLY b \in Nat, n \in Nat, <1>1, <2>1, SumSteps
  <1>7. n \in 0..n
    OBVIOUS
  <1>8. f \in [0..n -> Nat] /\ f[n] = iter[1..n]
    BY ONLY <1>6 DEF Totals
  <1> QED BY ONLY <1>5, <1>7, <1>8

\* Pending is a number; nothing waits in no groups.
LEMMA PendingType ==
  ASSUME NEW z, NEW n \in Nat, DOMAIN z.groups = 1..n,
         \A i \in 1..n : Cardinality(z.groups[i].packets) \in Nat
  PROVE  Pending(z) \in Nat /\ (n = 0 => Pending(z) = 0)
  <1>1. PICK f \in [0..n -> Nat] : f[0] = 0 /\ f[n] = Pending(z)
    BY PendingSum
  <1>2. n \in 0..n
    OBVIOUS
  <1> QED BY <1>1, <1>2

\* No more is pending if no group has grown, and c more if one has grown by that.
LEMMA PendingGrown ==
  ASSUME NEW z, NEW y, NEW n \in Nat, DOMAIN z.groups = 1..n, DOMAIN y.groups = 1..n,
         \A k \in 1..n : Cardinality(z.groups[k].packets) \in Nat,
         \A k \in 1..n : Cardinality(y.groups[k].packets) \in Nat,
         NEW i, NEW c \in Nat,
         \A k \in 1..n : Cardinality(y.groups[k].packets)
                           <= Cardinality(z.groups[k].packets) + IF k = i THEN c ELSE 0
  PROVE  Pending(y) <= Pending(z) + c
  <1> DEFINE Z(k) == Cardinality(z.groups[k].packets)
             Y(k) == Cardinality(y.groups[k].packets)
  <1>1. PICK f \in [0..n -> Nat] : /\ f[0] = 0 /\ f[n] = Pending(z)
                                  /\ \A k \in 1..n : f[k] = f[k - 1] + Z(k)
    BY PendingSum
  <1>2. PICK h \in [0..n -> Nat] : /\ h[0] = 0 /\ h[n] = Pending(y)
                                  /\ \A k \in 1..n : h[k] = h[k - 1] + Y(k)
    BY PendingSum
  <1> DEFINE Good == {k \in Nat : k <= n => h[k] <= f[k] + IF i \in 1..k THEN c ELSE 0}
  <1>3. 0 \in Good
    BY <1>1, <1>2
  <1>4. ASSUME NEW k \in Nat, k \in Good PROVE k + 1 \in Good
    <2> SUFFICES ASSUME k + 1 <= n
                 PROVE  h[k + 1] <= f[k + 1] + IF i \in 1..k + 1 THEN c ELSE 0
      OBVIOUS
    <2>1. k + 1 \in 1..n /\ k \in 0..n /\ k + 1 \in 0..n /\ (k + 1) - 1 = k
      OBVIOUS
    <2>2. Z(k + 1) \in Nat /\ Y(k + 1) \in Nat /\ Y(k + 1) <= Z(k + 1) + IF k + 1 = i THEN c ELSE 0
      BY <2>1
    <2>3. h[k] <= f[k] + IF i \in 1..k THEN c ELSE 0
      BY <1>4, <2>1
    <2>4. f[k + 1] = f[k] + Z(k + 1) /\ h[k + 1] = h[k] + Y(k + 1)
      BY <1>1, <1>2, <2>1
    <2>5. f[k] \in Nat /\ h[k] \in Nat
      BY <2>1
    <2> HIDE DEF Z, Y
    <2>6. CASE i = k + 1
      <3>1. i \notin 1..k /\ i \in 1..k + 1
        BY <2>6
      <3>2. h[k] <= f[k] /\ Y(k + 1) <= Z(k + 1) + c
        BY <2>2, <2>3, <2>5, <2>6, <3>1
      <3>3. h[k + 1] <= f[k + 1] + c
        BY ONLY <2>2, <2>4, <2>5, <3>2, c \in Nat, SMTT(30)
      <3> QED BY <3>1, <3>3
    <2>7. CASE i # k + 1
      <3>1. i \in 1..k + 1 <=> i \in 1..k
        BY ONLY <2>7, k \in Nat
      <3> DEFINE e == IF i \in 1..k THEN c ELSE 0
      <3>2. e \in Nat /\ e = IF i \in 1..k + 1 THEN c ELSE 0
        BY <3>1
      <3>3. h[k] <= f[k] + e /\ Y(k + 1) <= Z(k + 1)
        BY <2>2, <2>3, <2>7
      <3> HIDE DEF e
      <3>4. h[k + 1] <= f[k + 1] + e
        BY ONLY <2>2, <2>4, <2>5, <3>2, <3>3, SMTT(30)
      <3> QED BY <3>2, <3>4
    <2> QED BY <2>6, <2>7
  <1>5. n \in Good
    <2> HIDE DEF Good
    <2> QED BY <1>3, <1>4, Induct
  <1>6. n \in 0..n
    OBVIOUS
  <1> QED BY <1>1, <1>2, <1>5, <1>6

\* Without one of its groups, no more is pending.
LEMMA PendingLess ==
  ASSUME NEW z, NEW y, NEW n \in Nat, NEW i \in 1..n, DOMAIN z.groups = 1..n,
         DOMAIN y.groups = 1..n - 1,
         \A k \in 1..n : Cardinality(z.groups[k].packets) \in Nat,
         \A k \in 1..n - 1 : y.groups[k] = z.groups[IF k < i THEN k ELSE k + 1]
  PROVE  Pending(y) <= Pending(z)
  <1> DEFINE Z(k) == Cardinality(z.groups[k].packets)
             Y(k) == Cardinality(y.groups[k].packets)
             m == n - 1
  <1>1. PICK f \in [0..n -> Nat] : /\ f[0] = 0 /\ f[n] = Pending(z)
                                  /\ \A k \in 1..n : f[k] = f[k - 1] + Z(k)
    BY PendingSum
  <1>2. m \in Nat /\ \A k \in 1..m : Y(k) = Z(IF k < i THEN k ELSE k + 1) /\ Y(k) \in Nat
    <2>1. ASSUME NEW k \in 1..m PROVE Y(k) = Z(IF k < i THEN k ELSE k + 1) /\ Y(k) \in Nat
      <3> DEFINE j == IF k < i THEN k ELSE k + 1
      <3>1. k \in 1..n - 1 /\ j \in 1..n
        BY ONLY n \in Nat, i \in 1..n, k \in 1..m
      <3>2. y.groups[k] = z.groups[j]
        BY ONLY <3>1, \A x \in 1..n - 1 : y.groups[x] = z.groups[IF x < i THEN x ELSE x + 1]
      <3> HIDE DEF j
      <3>3. Y(k) = Z(j) /\ Y(k) \in Nat
        BY <3>1, <3>2
      <3> QED BY <3>3 DEF j
    <2>2. m \in Nat
      OBVIOUS
    <2> HIDE DEF Y, Z, m
    <2> QED BY ONLY <2>1, <2>2
  <1>3. PICK h \in [0..m -> Nat] : /\ h[0] = 0 /\ h[m] = Pending(y)
                                  /\ \A k \in 1..m : h[k] = h[k - 1] + Y(k)
    BY <1>2, PendingSum
  <1>4. \A k \in 1..n : Z(k) \in Nat
    OBVIOUS
  <1> HIDE DEF Z, Y
  <1> DEFINE Good == {k \in Nat : k <= m => h[k] <= f[k + 1] /\ (k < i => h[k] = f[k])}
  <1>5. 0 \in Good
    <2>1. f[1] \in Nat
      OBVIOUS
    <2> QED BY <1>1, <1>3, <2>1
  <1>6. ASSUME NEW k \in Nat, k \in Good PROVE k + 1 \in Good
    <2> SUFFICES ASSUME k + 1 <= m
                 PROVE  h[k + 1] <= f[k + 2] /\ (k + 1 < i => h[k + 1] = f[k + 1])
      OBVIOUS
    <2>1. /\ {k + 1, k + 2} \subseteq 1..n /\ {k, k + 1, k + 2} \subseteq 0..n
          /\ {k, k + 1} \subseteq 0..m /\ k + 1 \in 1..m
          /\ (k + 1) - 1 = k /\ (k + 2) - 1 = k + 1 /\ (k + 1) + 1 = k + 2
      OBVIOUS
    <2>2. Z(k + 1) \in Nat /\ Z(k + 2) \in Nat
      BY <1>4, <2>1
    <2>3. h[k] <= f[k + 1] /\ (k < i => h[k] = f[k])
      BY <1>6, <2>1
    <2>4. f[k + 1] = f[k] + Z(k + 1) /\ f[k + 2] = f[k + 1] + Z(k + 2)
      BY <1>1, <2>1
    <2>5. h[k + 1] = h[k] + Z(IF k + 1 < i THEN k + 1 ELSE k + 2)
      BY <1>2, <1>3, <2>1
    <2>6. {f[k], f[k + 1], f[k + 2], h[k], h[k + 1]} \subseteq Nat
      BY <2>1
    <2>7. CASE k + 1 < i
      <3>1. k < i
        BY <2>7
      <3> QED BY ONLY <2>2, <2>3, <2>4, <2>5, <2>6, <2>7, <3>1, k \in Nat, SMTT(30)
    <2>8. CASE ~(k + 1 < i)
      BY ONLY <2>2, <2>3, <2>4, <2>5, <2>6, <2>8, k \in Nat, i \in 1..n, n \in Nat, SMTT(30)
    <2> QED BY <2>7, <2>8
  <1>7. m \in Good
    <2> HIDE DEF Good
    <2> QED BY <1>2, <1>5, <1>6, Induct
  <1>8. m + 1 = n
    OBVIOUS
  <1> QED BY <1>1, <1>2, <1>3, <1>7, <1>8

\* With one group more, its packets are pending too.
LEMMA PendingMore ==
  ASSUME NEW z, NEW y, NEW n \in Nat, DOMAIN z.groups = 1..n, DOMAIN y.groups = 1..n + 1,
         \A k \in 1..n : Cardinality(z.groups[k].packets) \in Nat,
         \A k \in 1..n : y.groups[k] = z.groups[k],
         Cardinality(y.groups[n + 1].packets) \in Nat
  PROVE  Pending(y) = Pending(z) + Cardinality(y.groups[n + 1].packets)
  <1> DEFINE Z(k) == Cardinality(z.groups[k].packets)
             Y(k) == Cardinality(y.groups[k].packets)
  <1>1. PICK f \in [0..n -> Nat] : /\ f[0] = 0 /\ f[n] = Pending(z)
                                  /\ \A k \in 1..n : f[k] = f[k - 1] + Z(k)
    BY PendingSum
  <1>2. n + 1 \in Nat /\ \A k \in 1..n + 1 : Y(k) \in Nat
    <2>1. ASSUME NEW k \in 1..n + 1 PROVE Y(k) \in Nat
      <3>1. CASE k = n + 1
        BY <3>1
      <3>2. CASE k \in 1..n
        BY <3>2
      <3> QED BY <3>1, <3>2
    <2> QED BY <2>1
  <1>3. PICK h \in [0..n + 1 -> Nat] : /\ h[0] = 0 /\ h[n + 1] = Pending(y)
                                      /\ \A k \in 1..n + 1 : h[k] = h[k - 1] + Y(k)
    BY <1>2, PendingSum
  <1>4. \A k \in 1..n : Y(k) = Z(k)
    OBVIOUS
  <1> HIDE DEF Z, Y
  <1> DEFINE Good == {k \in Nat : k <= n => h[k] = f[k]}
  <1>5. 0 \in Good
    BY <1>1, <1>3
  <1>6. ASSUME NEW k \in Nat, k \in Good PROVE k + 1 \in Good
    <2> SUFFICES ASSUME k + 1 <= n PROVE h[k + 1] = f[k + 1]
      OBVIOUS
    <2>1. k + 1 \in 1..n /\ k + 1 \in 1..n + 1 /\ (k + 1) - 1 = k
      OBVIOUS
    <2>2. f[k + 1] = f[k] + Z(k + 1) /\ h[k + 1] = h[k] + Y(k + 1) /\ Y(k + 1) = Z(k + 1)
      BY <1>1, <1>3, <1>4, <2>1
    <2> QED BY <1>6, <2>2
  <1>7. n \in Good
    <2> HIDE DEF Good
    <2> QED BY <1>5, <1>6, Induct
  <1>8. h[n + 1] = h[n] + Y(n + 1)
    <2>1. n + 1 \in 1..n + 1 /\ (n + 1) - 1 = n
      OBVIOUS
    <2> QED BY <1>3, <2>1
  <1>9. h[n] = Pending(z)
    BY <1>1, <1>7
  <1> QED BY <1>3, <1>8, <1>9 DEF Y

\* One packet of those that Replay pushes.
ReplayStep(r, q, victim) ==
  LET n == PushSelected(r.d, q, victim) IN [n EXCEPT !.out = r.out \o @]

\* All of them.
ReplaySteps(b, gs, victim) == FoldLeft(LAMBDA r, q : ReplayStep(r, q, victim), b, gs)

\* f[k] is what Replay has come to after k packets.
ReplaysTo(f, b, gs, n, victim) ==
  /\ f[0] = b /\ f[n] = ReplaySteps(b, gs, victim)
  /\ \A k \in 1..n : f[k] = ReplayStep(f[k - 1], gs[k], victim)

\* Replay goes from packet to packet.
LEMMA ReplayFold ==
  ASSUME NEW victim, NEW b, NEW gs, NEW n \in Nat, DOMAIN gs = 1..n
  PROVE  \E f : ReplaysTo(f, b, gs, n, victim)
  <1> DEFINE Body(it, s) == IF s = {} THEN b ELSE ReplayStep(it[s \ {Max(s)}], gs[Max(s)], victim)
             Iter(m, it) == it = [s \in SUBSET (1..m) |-> Body(it, s)]
             Good == {m \in Nat : \E it : Iter(m, it)}
  <1>1. 0 \in Good
    <2> DEFINE it == [s \in SUBSET (1..0) |-> b]
    <2>1. Iter(0, it)
      BY 1..0 = {}
    <2> QED BY <2>1
  <1>2. ASSUME NEW m \in Nat, m \in Good PROVE m + 1 \in Good
    <2>1. PICK it : Iter(m, it)
      BY <1>2
    <2> DEFINE next == [s \in SUBSET (1..m + 1) |->
                          IF m + 1 \in s THEN ReplayStep(it[s \ {m + 1}], gs[m + 1], victim) ELSE it[s]]
    <2>2. \A s \in SUBSET (1..m) : it[s] = Body(it, s) /\ next[s] = it[s]
      <3>1. \A s \in SUBSET (1..m) : it[s] = Body(it, s)
        BY <2>1
      <3>2. \A s \in SUBSET (1..m) : m + 1 \notin s /\ s \in SUBSET (1..m + 1)
        OBVIOUS
      <3> HIDE DEF Body
      <3> QED BY <3>1, <3>2
    <2>3. ASSUME NEW s \in SUBSET (1..m + 1) PROVE next[s] = Body(next, s)
      <3>1. CASE m + 1 \in s
        <4>1. Max(s) = m + 1 /\ s \ {Max(s)} \in SUBSET (1..m) /\ s # {}
          BY <3>1, MaxOf
        <4>2. next[s] = ReplayStep(it[s \ {m + 1}], gs[m + 1], victim)
          BY <3>1
        <4>3. next[s \ {m + 1}] = it[s \ {m + 1}]
          BY <4>1, <2>2
        <4> HIDE DEF next
        <4> QED BY <4>1, <4>2, <4>3
      <3>2. CASE m + 1 \notin s
        <4>1. s \in SUBSET (1..m) /\ s \ {Max(s)} \in SUBSET (1..m)
          BY <3>2, MaxOf
        <4> HIDE DEF next
        <4> QED BY <4>1, <2>2
      <3> QED BY <3>1, <3>2
    <2>4. Iter(m + 1, next)
      <3> HIDE DEF Body
      <3> QED BY <2>3
    <2> HIDE DEF Iter
    <2> QED BY <2>4
  <1>3. n \in Good
    <2> HIDE DEF Good
    <2> QED BY <1>1, <1>2, Induct
  <1> DEFINE iter == CHOOSE it : Iter(n, it)
             f == [k \in 0..n |-> iter[1..k]]
  <1>4. Iter(n, iter)
    <2> HIDE DEF Iter
    <2> QED BY <1>3
  <1>5. ReplaySteps(b, gs, victim) = iter[1..n]
    BY DEF ReplaySteps, FoldLeft, MapThenFoldSet
  <1> HIDE DEF iter
  <1>6. \A s \in SUBSET (1..n) : iter[s] = Body(iter, s)
    BY <1>4
  <1>7. f[0] = b
    <2>1. iter[{}] = Body(iter, {})
      <3> HIDE DEF Body
      <3> QED BY <1>6
    <2>2. f[0] = iter[1..0] /\ 1..0 = {}
      OBVIOUS
    <2> QED BY <2>1, <2>2
  <1>8. ASSUME NEW k \in 1..n PROVE f[k] = ReplayStep(f[k - 1], gs[k], victim)
    <2>1. k - 1 \in Nat /\ (k - 1) + 1 = k /\ 1..k \in SUBSET (1..(k - 1) + 1) /\ k \in 1..k
      OBVIOUS
    <2>2. Max(1..k) = k
      <3>1. (k - 1) + 1 \in 1..k
        BY <2>1
      <3> QED BY <2>1, <3>1, MaxOf
    <2>3. (1..k) \ {k} = 1..k - 1
      <3>1. \A i \in 1..k : i # k => i \in 1..k - 1
        OBVIOUS
      <3>2. \A i \in 1..k - 1 : i \in 1..k /\ i # k
        OBVIOUS
      <3> QED BY <3>1, <3>2
    <2>4. 1..k \in SUBSET (1..n) /\ 1..k # {}
      <3>1. k \in 1..k /\ \A i \in 1..k : i \in 1..n
        OBVIOUS
      <3> QED BY <3>1
    <2>5. k - 1 \in 0..n /\ k \in 0..n
      OBVIOUS
    <2> QED BY <1>6, <2>2, <2>3, <2>4, <2>5
  <1>9. f[n] = iter[1..n]
    OBVIOUS
  <1>10. f[n] = ReplaySteps(b, gs, victim)
    BY <1>5, <1>9
  <1> HIDE DEF f
  <1> QED BY <1>7, <1>8, <1>10 DEF ReplaysTo

-----------------------------------------------------------------------------
(* Numbers that wrap *)

\* Less than N above a multiple of it.
LEMMA ModIs ==
  ASSUME NEW N \in Nat \ {0}, NEW q \in Int, NEW b \in 0..N - 1
  PROVE  (N * q + b) % N = b
  <1> DEFINE a == N * q + b
             k == a \div N
             r == a % N
  <1>1. a \in Int /\ N * q \in Int
    OBVIOUS
  <1> HIDE DEF a
  <1>2. a = N * k + r /\ r \in 0..N - 1 /\ k \in Int
    BY <1>1
  <1>3. a = N * q + b
    BY DEF a
  <1> HIDE DEF k, r
  <1>4. N * (q - k) = N * q - N * k
    BY <1>2
  <1>5. N * k \in Int /\ N * q \in Int
    BY <1>2
  <1>6. N * (q - k) < N /\ -N < N * (q - k)
    BY <1>2, <1>3, <1>4, <1>5
  <1>7. q - k \in Int
    BY <1>2
  <1>8. q - k = 0
    BY <1>6, <1>7
  <1>9. q = k
    BY <1>2, <1>8
  <1>10. r = b
    BY <1>2, <1>3, <1>5, <1>9
  <1> QED BY <1>10 DEF r, a

\* b and c more make a, but for t times N.
Apart(N, a, b, t, c) ==
  a \in Int /\ b \in Int /\ t \in Int /\ c \in 0..N - 1 /\ a - b = N * t + c

\* What lies between two wrapped numbers is what lies between the numbers, wrapped.
LEMMA ModBetween ==
  ASSUME NEW N \in Nat \ {0}, NEW a, NEW b, NEW c, NEW t, Apart(N, a, b, t, c)
  PROVE  ((a % N) - (b % N)) % N = c
  <1> DEFINE i == a \div N
             j == b \div N
             u == a % N
             v == b % N
  <1>1. a = N * i + u /\ u \in Int /\ i \in Int
    BY DEF Apart
  <1>2. b = N * j + v /\ v \in Int /\ j \in Int
    BY DEF Apart
  <1> HIDE DEF i, j, u, v
  <1>3. N * (t - i + j) = N * t - N * i + N * j
    BY <1>1, <1>2 DEF Apart
  <1>4. N * t \in Int /\ N * i \in Int /\ N * j \in Int
    BY <1>1, <1>2 DEF Apart
  <1>5. u - v = N * (t - i + j) + c
    BY <1>1, <1>2, <1>3, <1>4 DEF Apart
  <1>6. t - i + j \in Int /\ c \in 0..N - 1
    BY <1>1, <1>2 DEF Apart
  <1>7. (N * (t - i + j) + c) % N = c
    BY <1>6, ModIs
  <1> QED BY <1>5, <1>7 DEF u, v

\* The timestamps of a source's pictures differ, and by them the later one is known.
LEMMA TimesApart ==
  ASSUME NEW n \in 1..TsSpace \div 2, NEW m \in 1..TsSpace \div 2
  PROVE  /\ Ts(n) \in Nat
         /\ Ts(n) = Ts(m) => n = m
         /\ (Ts(n) - Ts(m)) % TsSpace \in 1..TsSpace \div 2 - 1 => m < n
  <1> DEFINE N == TsSpace
             h == TsSpace \div 2
  <1>1. N \in Nat \ {0} /\ h \in Nat /\ 2 * h <= N
    BY DepacketizerAssumption
  <1>2. n \in 1..h /\ m \in 1..h
    OBVIOUS
  <1>3. Ts(n) = (N - 3 + n) % N /\ Ts(m) = (N - 3 + m) % N
    BY DEF Ts
  <1> HIDE DEF N, h
  <1>4. N - 3 + n \in Int /\ N - 3 + m \in Int /\ n \in Int /\ m \in Int
    BY <1>1, <1>2
  <1>5. Ts(n) \in Nat /\ Ts(m) \in Nat
    BY <1>1, <1>3, <1>4
  <1>6. CASE m < n
    <2>1. n - m \in 0..N - 1 /\ n - m # 0
      BY <1>1, <1>2, <1>6
    <2>2. (N - 3 + n) - (N - 3 + m) = N * 0 + (n - m)
      BY <1>1, <1>4
    <2>3. (Ts(n) - Ts(m)) % N = n - m
      <3> DEFINE a == N - 3 + n
                 b == N - 3 + m
                 c == n - m
                 t == 0
      <3>1. Apart(N, a, b, t, c)
        BY <1>4, <2>1, <2>2 DEF Apart
      <3> HIDE DEF a, b, c, t
      <3>2. ((a % N) - (b % N)) % N = c
        BY <1>1, <3>1, ModBetween
      <3> QED BY <1>3, <3>2 DEF a, b, c
    <2>4. Ts(n) # Ts(m)
      <3>1. Ts(n) = Ts(m) => Ts(n) - Ts(m) = 0
        BY <1>5
      <3>2. 0 % N = 0
        BY <1>1
      <3> QED BY <2>1, <2>3, <3>1, <3>2
    <2> QED BY <1>5, <1>6, <2>4
  <1>7. CASE n < m
    <2>1. n - m + N \in 0..N - 1 /\ n - m + N # 0 /\ n - m + N > h - 1
      BY <1>1, <1>2, <1>7
    <2>2. (N - 3 + n) - (N - 3 + m) = N * (-1) + (n - m + N)
      BY <1>1, <1>4
    <2>3. (Ts(n) - Ts(m)) % N = n - m + N
      <3> DEFINE a == N - 3 + n
                 b == N - 3 + m
                 c == n - m + N
                 t == (-1)
      <3>1. Apart(N, a, b, t, c)
        BY <1>4, <2>1, <2>2 DEF Apart
      <3> HIDE DEF a, b, c, t
      <3>2. ((a % N) - (b % N)) % N = c
        BY <1>1, <3>1, ModBetween
      <3> QED BY <1>3, <3>2 DEF a, b, c
    <2>4. Ts(n) # Ts(m)
      <3>1. Ts(n) = Ts(m) => Ts(n) - Ts(m) = 0
        BY <1>5
      <3>2. 0 % N = 0
        BY <1>1
      <3> QED BY <2>1, <2>3, <3>1, <3>2
    <2>5. (Ts(n) - Ts(m)) % N \notin 1..h - 1
      BY <1>1, <1>2, <2>1, <2>3
    <2> QED BY <1>5, <2>4, <2>5 DEF N, h
  <1>8. CASE n = m
    <2>1. Ts(n) - Ts(m) = 0 /\ 0 % N = 0
      BY <1>1, <1>5, <1>8
    <2> QED BY <1>1, <1>5, <1>8, <2>1 DEF N
  <1> QED BY <1>4, <1>6, <1>7, <1>8

-----------------------------------------------------------------------------
(* Packets and pictures *)

\* The number of the first packet of picture n.
From(plan, s, n) ==
  FoldLeft(LAMBDA sum, y : sum + Size(y), SeqSpace - 1, SubSeq(plan[s], 1, n - 1))

\* Packet i of picture n of source s.
Packet(plan, s, n, i) ==
  LET x == plan[s][n] IN
  [src |-> s, pic |-> n, geo |-> x.geo, key |-> x.key,
   ts |-> (TsSpace - 3 + n) % TsSpace, seq |-> (From(plan, s, n) + i) % SeqSpace,
   lead |-> x.lead /\ i = 0, first |-> i = Size(x) - x.slices,
   marker |-> i = Size(x) - 1, slices |-> x.slices]

\* The pictures of a plan.
LEMMA PicturesAre ==
  ASSUME NEW plan \in Plans, NEW s \in Sources
  PROVE  /\ Len(plan[s]) \in Nat /\ DOMAIN plan[s] = 1..Len(plan[s])
         /\ 1..Len(plan[s]) \subseteq 1..TsSpace \div 2
         /\ \A n \in 1..Len(plan[s]) :
              /\ plan[s][n] \in [key : BOOLEAN, lead : BOOLEAN, slices : Nat, geo : Nat]
              /\ Size(plan[s][n]) \in 0..SeqSpace
              /\ Size(plan[s][n]) = plan[s][n].slices + IF plan[s][n].lead THEN 1 ELSE 0
              /\ From(plan, s, n) \in Nat
  <1> DEFINE P == [key : BOOLEAN, lead : BOOLEAN, slices : Nat, geo : Nat]
  <1>1. /\ plan[s] \in Seq(P) /\ Len(plan[s]) <= TsSpace \div 2
        /\ \A n \in DOMAIN plan[s] : Size(plan[s][n]) <= SeqSpace
    BY PlansAssumption
  <1>2. TsSpace \div 2 \in Nat /\ SeqSpace \in Nat \ {0}
    BY DepacketizerAssumption
  <1>3. Len(plan[s]) \in Nat /\ DOMAIN plan[s] = 1..Len(plan[s])
    BY <1>1
  <1>4. 1..Len(plan[s]) \subseteq 1..TsSpace \div 2
    BY <1>1, <1>2, <1>3
  <1>5. \A n \in 1..Len(plan[s]) : plan[s][n] \in P
    <2> HIDE DEF P
    <2> QED BY <1>1, <1>3
  <1>6. ASSUME NEW x \in P PROVE Size(x) \in Nat /\ Size(x) = x.slices + IF x.lead THEN 1 ELSE 0
    <2>1. x.slices \in Nat
      OBVIOUS
    <2> HIDE DEF P
    <2> QED BY <2>1 DEF Size
  <1> HIDE DEF P
  <1>7. ASSUME NEW n \in 1..Len(plan[s]) PROVE From(plan, s, n) \in Nat
    <2> DEFINE x == SubSeq(plan[s], 1, n - 1)
    <2>1. x \in Seq(P) /\ Len(x) = n - 1 /\ n - 1 \in Nat
      BY <1>1, <1>3, SubSeqProperties
    <2> HIDE DEF x
    <2>2. DOMAIN x = 1..n - 1 /\ \A i \in 1..n - 1 : Size(x[i]) \in Nat
      <3>1. DOMAIN x = 1..n - 1
        BY <2>1
      <3>2. \A i \in 1..n - 1 : x[i] \in P
        BY <2>1, <3>1
      <3> QED BY <3>1, <3>2, <1>6
    <2>3. SeqSpace - 1 \in Nat
      BY <1>2
    <2>4. FoldLeft(LAMBDA sum, y : sum + Size(y), SeqSpace - 1, x) \in Nat
      BY <2>1, <2>2, <2>3, NumbersAdd
    <2> QED BY <2>4 DEF From, x
  <1>8. ASSUME NEW n \in 1..Len(plan[s]) PROVE Size(plan[s][n]) \in 0..SeqSpace
    <2>1. Size(plan[s][n]) \in Nat /\ Size(plan[s][n]) <= SeqSpace
      BY <1>1, <1>3, <1>5, <1>6
    <2> QED BY <2>1, <1>2
  <1> QED BY <1>3, <1>4, <1>5, <1>6, <1>7, <1>8 DEF P

\* What a source sends is its pictures, packet by packet.
LEMMA SentIs ==
  ASSUME NEW plan \in Plans, NEW p \in Sent(plan)
  PROVE  /\ p.src \in Sources
         /\ \E n \in 1..Len(plan[p.src]) : \E i \in 0..Size(plan[p.src][n]) - 1 :
              p = Packet(plan, p.src, n, i)
  <1>1. PICK s \in Sources : p \in Sends(s, plan[s])
    BY DEF Sent
  <1>2. PICK n \in DOMAIN plan[s] : p \in Packets(s, n, plan[s][n], From(plan, s, n))
    BY <1>1 DEF Sends, From
  <1>3. PICK i \in 0..Size(plan[s][n]) - 1 : p = Packet(plan, s, n, i)
    BY <1>2 DEF Packets, Packet
  <1>4. p.src = s
    BY <1>3 DEF Packet
  <1>5. n \in 1..Len(plan[s])
    BY PicturesAre
  <1> QED BY <1>3, <1>4, <1>5

\* What a packet says.
LEMMA PacketSays ==
  ASSUME NEW plan \in Plans, NEW s \in Sources, NEW n \in 1..Len(plan[s]), NEW i,
         NEW p, p = Packet(plan, s, n, i)
  PROVE  /\ p.src = s /\ p.pic = n /\ p.ts = Ts(n)
         /\ p.geo \in Nat /\ p.key \in BOOLEAN /\ p.slices = plan[s][n].slices
         /\ p.seq = (From(plan, s, n) + i) % SeqSpace
         /\ p.lead <=> plan[s][n].lead /\ i = 0
         /\ p.first <=> i = Size(plan[s][n]) - plan[s][n].slices
         /\ p.marker <=> i = Size(plan[s][n]) - 1
  <1>1. plan[s][n] \in [key : BOOLEAN, lead : BOOLEAN, slices : Nat, geo : Nat]
    BY PicturesAre
  <1>2. plan[s][n].geo \in Nat /\ plan[s][n].key \in BOOLEAN
    BY <1>1
  <1> QED BY <1>2 DEF Packet, Ts

\* How far a packet is from the last one of its picture.
LEMMA PacketDistance ==
  ASSUME NEW plan \in Plans, NEW s \in Sources, NEW n \in 1..Len(plan[s]),
         NEW z, z = Size(plan[s][n]), NEW i \in 0..z - 1
  PROVE  /\ z \in Nat \ {0}
         /\ (Packet(plan, s, n, z - 1).seq - Packet(plan, s, n, i).seq) % SeqSpace = z - 1 - i
  <1> DEFINE N == SeqSpace
             f == From(plan, s, n)
             a == f + (z - 1)
             b == f + i
             c == z - 1 - i
             t == 0
  <1>1. N \in Nat \ {0} /\ z \in 0..N /\ f \in Nat
    BY DepacketizerAssumption, PicturesAre
  <1>2. Packet(plan, s, n, z - 1).seq = a % N /\ Packet(plan, s, n, i).seq = b % N
    BY DEF Packet
  <1> HIDE DEF f, N
  <1>3. Apart(N, a, b, t, c)
    BY <1>1 DEF Apart
  <1> HIDE DEF a, b, c, t
  <1>4. ((a % N) - (b % N)) % N = c
    BY <1>1, <1>3, ModBetween
  <1>5. z \in Nat \ {0}
    BY <1>1
  <1> QED BY <1>2, <1>4, <1>5 DEF N, c

\* So many packets are from b to the last of a picture.
LEMMA PacketsCount ==
  ASSUME NEW plan \in Plans, NEW s \in Sources, NEW n \in 1..Len(plan[s]),
         NEW z, z = Size(plan[s][n]), NEW b \in 0..z,
         NEW ps, ps = {Packet(plan, s, n, i) : i \in b..z - 1}
  PROVE  IsFiniteSet(ps) /\ Cardinality(ps) = z - b
  <1> DEFINE I == b..z - 1
             F == [i \in I |-> Packet(plan, s, n, i)]
  <1>1. z \in Nat
    BY PicturesAre
  <1>2. IsFiniteSet(I) /\ Cardinality(I) = z - b
    <2>1. b \in Int /\ z - 1 \in Int /\ (IF b > z - 1 THEN 0 ELSE z - 1 - b + 1) = z - b
      BY <1>1
    <2> QED BY <2>1, FS_Interval
  <1>3. ASSUME NEW i \in I, NEW j \in I, F[i] = F[j] PROVE i = j
    <2>1. i \in 0..z - 1 /\ j \in 0..z - 1
      BY <1>1
    <2>2. z - 1 - i = z - 1 - j
      BY <1>3, <2>1, PacketDistance
    <2> QED BY <1>1, <2>1, <2>2
  <1>4. F \in [I -> ps]
    OBVIOUS
  <1>5. \A p \in ps : \E i \in I : F[i] = p
    OBVIOUS
  <1> HIDE DEF F, I
  <1>6. F \in Injection(I, ps)
    BY <1>3, <1>4, Fun_IsInj
  <1>7. F \in Surjection(I, ps)
    BY <1>4, <1>5, Fun_IsSurj
  <1>8. ExistsBijection(I, ps)
    BY <1>6, <1>7 DEF ExistsBijection, Bijection
  <1>9. IsFiniteSet(ps) /\ Cardinality(ps) = z - b
    BY <1>2, <1>8, FS_Bijection
  <1> QED BY <1>9

\* A group has packets of one picture; it is complete from the first slice on exactly
\* if it is whole.
LEMMA GroupIs ==
  ASSUME NEW plan \in Plans, NEW g, g.src \in Sources, g.packets \subseteq Sent(plan), OnePicture(g)
  PROVE  \E n \in 1..Len(plan[g.src]) :
           /\ g.ts = Ts(n) /\ Sample(g).pic = n
           /\ Sample(g).geo \in Nat /\ Sample(g).key \in BOOLEAN
           /\ ~Marked(g) \/ ~Consecutive(g) \/ Headless(g) => ~Whole(g)
           /\ Marked(g) /\ Consecutive(g) /\ ~Headless(g) /\ Slices(g) # {} => Whole(g)
  <1> DEFINE s == g.src
             L == Len(plan[s])
  <1>1. g.packets # {}
    BY DEF OnePicture
  <1>2. Sample(g) \in g.packets
    BY <1>1 DEF Sample
  <1>3. \A p \in g.packets : /\ p.src = s /\ p.ts = g.ts
                             /\ \E m \in 1..L : \E i \in 0..Size(plan[s][m]) - 1 : p = Packet(plan, s, m, i)
    BY SentIs DEF OnePicture
  <1>4. PICK n \in 1..L : \E i \in 0..Size(plan[s][n]) - 1 : Sample(g) = Packet(plan, s, n, i)
    BY <1>2, <1>3
  <1>5. g.ts = Ts(n)
    BY <1>2, <1>3, <1>4, PacketSays
  <1> DEFINE x == plan[s][n]
             z == Size(x)
             Pk(i) == Packet(plan, s, n, i)
             b == z - x.slices
  <1>6. \A p \in g.packets : \E i \in 0..z - 1 : p = Pk(i)
    <2> SUFFICES ASSUME NEW p \in g.packets PROVE \E i \in 0..z - 1 : p = Pk(i)
      OBVIOUS
    <2>1. PICK m \in 1..L : \E i \in 0..Size(plan[s][m]) - 1 : p = Packet(plan, s, m, i)
      BY <1>3
    <2>2. p.ts = Ts(m)
      BY <2>1, PacketSays
    <2>3. m \in 1..TsSpace \div 2 /\ n \in 1..TsSpace \div 2
      BY PicturesAre
    <2>4. m = n
      BY <1>3, <1>5, <2>2, <2>3, TimesApart
    <2> QED BY <2>1, <2>4
  <1>7. /\ z \in 0..SeqSpace /\ z \in Nat /\ x.slices \in Nat /\ x.lead \in BOOLEAN
        /\ z = x.slices + (IF x.lead THEN 1 ELSE 0)
    <2>1. x \in [key : BOOLEAN, lead : BOOLEAN, slices : Nat, geo : Nat]
      BY PicturesAre
    <2> QED BY <2>1, PicturesAre
  <1>8. b \in 0..z /\ b \in {0, 1} /\ (x.lead <=> b = 1)
    BY <1>7
  <1>9. \A i \in 0..z - 1 :
          /\ ~Pk(i).lead <=> i >= b
          /\ Pk(i).first <=> i = b
          /\ Pk(i).marker <=> i = z - 1
          /\ Pk(i).slices = z - b
          /\ (Pk(z - 1).seq - Pk(i).seq) % SeqSpace = z - 1 - i
    <2> SUFFICES ASSUME NEW i \in 0..z - 1
                 PROVE  /\ ~Pk(i).lead <=> i >= b
                        /\ Pk(i).first <=> i = b
                        /\ Pk(i).marker <=> i = z - 1
                        /\ Pk(i).slices = z - b
                        /\ (Pk(z - 1).seq - Pk(i).seq) % SeqSpace = z - 1 - i
      OBVIOUS
    <2>1. /\ Pk(i).lead <=> x.lead /\ i = 0
          /\ Pk(i).first <=> i = z - x.slices
          /\ Pk(i).marker <=> i = z - 1
          /\ Pk(i).slices = x.slices
      BY PacketSays
    <2>2. (Pk(z - 1).seq - Pk(i).seq) % SeqSpace = z - 1 - i
      BY PacketDistance
    <2>3. z - b = x.slices
      BY <1>7
    <2>4. z - x.slices = b
      OBVIOUS
    <2>5. i \in 0..z - 1 /\ z \in Nat
      BY <1>7
    <2> HIDE DEF Pk, x, z, b
    <2>6. ~Pk(i).lead <=> i >= b
      BY ONLY <1>8, <2>1, <2>5
    <2> QED BY ONLY <2>1, <2>2, <2>3, <2>4, <2>6
  <1>10. Sample(g).slices = z - b
    <2> HIDE DEF z, b, Pk
    <2> QED BY <1>2, <1>6, <1>9
  <1>11. \A c \in 0..z : /\ IsFiniteSet({Pk(i) : i \in c..z - 1})
                         /\ Cardinality({Pk(i) : i \in c..z - 1}) = z - c
    <2> SUFFICES ASSUME NEW c \in 0..z
                 PROVE  /\ IsFiniteSet({Pk(i) : i \in c..z - 1})
                        /\ Cardinality({Pk(i) : i \in c..z - 1}) = z - c
      OBVIOUS
    <2> DEFINE ps == {Packet(plan, s, n, i) : i \in c..z - 1}
    <2>1. z = Size(plan[s][n]) /\ ps = {Packet(plan, s, n, i) : i \in c..z - 1}
      OBVIOUS
    <2> HIDE DEF ps, z
    <2>2. IsFiniteSet(ps) /\ Cardinality(ps) = z - c
      BY ONLY plan \in Plans, s \in Sources, n \in 1..Len(plan[s]), c \in 0..z, <2>1, PacketsCount
    <2> QED BY ONLY <2>2 DEF ps
  <1>12. Sample(g).pic = n /\ Sample(g).geo \in Nat /\ Sample(g).key \in BOOLEAN
    BY <1>4, PacketSays
  <1>13. /\ ~Marked(g) \/ ~Consecutive(g) \/ Headless(g) => ~Whole(g)
         /\ Marked(g) /\ Consecutive(g) /\ ~Headless(g) /\ Slices(g) # {} => Whole(g)
    <2> HIDE DEF Pk, b, z, x, s, L
    <2>1. z \in Nat /\ b \in 0..z /\ b <= 1
      BY <1>7, <1>8
    <2>2. \A p \in g.packets : p \in Slices(g) <=> ~p.lead
      BY DEF Slices
    <2> DEFINE all == {Pk(i) : i \in b..z - 1}
    <2>3. Slices(g) \subseteq all
      <3> SUFFICES ASSUME NEW p \in Slices(g) PROVE p \in all
        OBVIOUS
      <3>1. p \in g.packets /\ ~p.lead
        BY DEF Slices
      <3>2. PICK i \in 0..z - 1 : p = Pk(i)
        BY <1>6, <3>1
      <3>3. i >= b
        BY <1>9, <3>1, <3>2
      <3>4. i \in b..z - 1
        BY <2>1, <3>3
      <3> QED BY <3>2, <3>4
    <2>4. Whole(g) <=> Slices(g) = all
      <3>1. IsFiniteSet(all) /\ Cardinality(all) = z - b
        BY <1>11, <2>1
      <3>2. Whole(g) <=> Cardinality(Slices(g)) = z - b
        BY <1>10 DEF Whole
      <3> HIDE DEF all
      <3> QED BY <2>3, <3>1, <3>2, FS_Subset
    <2>5. ASSUME Marked(g) PROVE Pk(z - 1) \in g.packets /\ End(g) = Pk(z - 1).seq
      <3>1. \A p \in g.packets : p.marker => p = Pk(z - 1)
        BY <1>6, <1>9
      <3>2. (CHOOSE p \in g.packets : p.marker) \in g.packets /\ (CHOOSE p \in g.packets : p.marker).marker
        BY <2>5 DEF Marked
      <3> QED BY <3>1, <3>2 DEF End
    <2>6. ASSUME Marked(g), Consecutive(g), ~Headless(g), Slices(g) # {} PROVE Whole(g)
      <3>1. PICK p \in Slices(g) : p.first
        BY <2>6 DEF Headless
      <3>2. p \in g.packets
        BY DEF Slices
      <3>3. PICK j \in 0..z - 1 : p = Pk(j)
        BY <1>6, <3>2
      <3>4. j = b
        BY <1>9, <3>1, <3>3
      <3>5. {(Pk(z - 1).seq - q.seq) % SeqSpace : q \in g.packets} = 0..Cardinality(g.packets) - 1
        BY <2>5, <2>6 DEF Consecutive
      <3>6. z - 1 - b \in 0..Cardinality(g.packets) - 1
        BY <1>9, <3>2, <3>3, <3>4, <3>5
      <3>7. Cardinality(g.packets) \in Nat
        BY FS_CardinalityType DEF OnePicture
      <3>8. ASSUME NEW i \in b..z - 1 PROVE Pk(i) \in g.packets
        <4>1. z - 1 - i \in 0..Cardinality(g.packets) - 1 /\ i \in 0..z - 1
          BY <2>1, <3>6, <3>7
        <4>2. PICK q \in g.packets : (Pk(z - 1).seq - q.seq) % SeqSpace = z - 1 - i
          BY <3>5, <4>1
        <4>3. PICK k \in 0..z - 1 : q = Pk(k)
          BY <1>6
        <4>4. z - 1 - k = z - 1 - i
          BY <1>9, <4>2, <4>3
        <4>5. k = i
          <5>1. k \in Int /\ i \in Int
            BY <2>1
          <5> QED BY ONLY <2>1, <4>4, <5>1
        <4> QED BY <4>3, <4>5
      <3>9. \A i \in b..z - 1 : Pk(i) \in Slices(g)
        <4> SUFFICES ASSUME NEW i \in b..z - 1 PROVE Pk(i) \in Slices(g)
          OBVIOUS
        <4>1. i \in 0..z - 1 /\ i >= b
          BY <2>1
        <4> QED BY <1>9, <2>2, <3>8, <4>1
      <3> QED BY <2>3, <2>4, <3>9
    <2>7. ASSUME Whole(g) PROVE Marked(g) /\ Consecutive(g) /\ ~Headless(g)
      <3>1. \A i \in b..z - 1 : Pk(i) \in g.packets
        BY <2>4, <2>7 DEF Slices
      <3> DEFINE c == IF Pk(0) \in g.packets THEN 0 ELSE b
      <3>2. z > 0
        <4>1. Sample(g) \in g.packets
          BY <1>2
        <4>2. PICK i \in 0..z - 1 : Sample(g) = Pk(i)
          BY <1>6, <4>1
        <4> QED BY <2>1
      <3>3. c \in 0..z - 1
        <4>1. CASE b = z
          <5>1. PICK i \in 0..z - 1 : Sample(g) = Pk(i)
            BY <1>2, <1>6
          <5>2. i = 0
            BY <2>1, <4>1
          <5>3. Pk(0) \in g.packets
            BY <1>2, <5>1, <5>2
          <5> QED BY <2>1, <3>2, <5>3
        <4>2. CASE b # z
          BY <2>1, <3>2, <4>2
        <4> QED BY <4>1, <4>2
      <3>4. \A i \in c..z - 1 : Pk(i) \in g.packets
        <4> SUFFICES ASSUME NEW i \in c..z - 1, i \notin b..z - 1 PROVE Pk(i) \in g.packets
          BY <3>1
        <4>1. i = 0 /\ c = 0 /\ b # 0
          BY <2>1, <3>3
        <4> QED BY <4>1
      <3>5. \A i \in 0..z - 1 : Pk(i) \in g.packets => i \in c..z - 1
        <4> SUFFICES ASSUME NEW i \in 0..z - 1, Pk(i) \in g.packets, i < c PROVE FALSE
          BY <3>3
        <4>1. i = 0 /\ c = b
          BY <2>1
        <4> QED BY <4>1
      <3> HIDE DEF c
      <3>6. g.packets = {Pk(i) : i \in c..z - 1}
        <4>1. c..z - 1 \subseteq 0..z - 1
          BY <3>3
        <4> QED BY <1>6, <3>4, <3>5, <4>1
      <3>7. Cardinality(g.packets) = z - c
        <4>1. c \in 0..z
          BY <2>1, <3>3
        <4> QED BY <1>11, <3>6, <4>1
      <3>8. Marked(g)
        <4>1. z - 1 \in c..z - 1 /\ z - 1 \in 0..z - 1
          BY <2>1, <3>2, <3>3
        <4> QED BY <1>9, <3>4, <4>1 DEF Marked
      <3>9. Consecutive(g)
        <4> DEFINE D == {(Pk(z - 1).seq - q.seq) % SeqSpace : q \in g.packets}
        <4>1. D \subseteq 0..z - c - 1
          <5> SUFFICES ASSUME NEW q \in g.packets
                       PROVE  (Pk(z - 1).seq - q.seq) % SeqSpace \in 0..z - c - 1
            OBVIOUS
          <5>1. PICK i \in 0..z - 1 : q = Pk(i)
            BY <1>6
          <5>2. i \in c..z - 1
            BY <3>5, <5>1
          <5>3. z - 1 - i \in 0..z - c - 1
            BY <2>1, <3>3, <5>2
          <5> QED BY <1>9, <5>1, <5>3
        <4>2. 0..z - c - 1 \subseteq D
          <5> SUFFICES ASSUME NEW k \in 0..z - c - 1 PROVE k \in D
            OBVIOUS
          <5> DEFINE i == z - 1 - k
          <5>1. i \in c..z - 1 /\ i \in 0..z - 1 /\ z - 1 - i = k
            BY <2>1, <3>3
          <5> HIDE DEF i
          <5> QED BY <1>9, <3>4, <5>1
        <4> HIDE DEF D
        <4>3. D = 0..z - c - 1
          BY <4>1, <4>2
        <4> QED BY <2>5, <3>7, <3>8, <4>3 DEF Consecutive, D
      <3>10. ASSUME Headless(g) PROVE FALSE
        <4>1. PICK p \in Slices(g) : ~p.first
          BY <3>10 DEF Headless
        <4>2. PICK i \in b..z - 1 : p = Pk(i)
          BY <2>3
        <4>3. b \in b..z - 1 /\ b \in 0..z - 1
          BY <2>1
        <4>4. Pk(b).first /\ ~Pk(b).lead
          BY <1>9, <2>1, <4>3
        <4>5. Pk(b) \in Slices(g)
          BY <2>2, <3>1, <4>3, <4>4
        <4> QED BY <3>10, <4>4, <4>5 DEF Headless
      <3> QED BY <3>8, <3>9, <3>10
    <2> QED BY <2>6, <2>7
  <1> QED BY <1>5, <1>12, <1>13

-----------------------------------------------------------------------------
(* Changes of the depacketizer *)

\* What poll and the groups leave alone.
Selected(y, z) ==
  y.tiles = z.tiles /\ y.sources = z.sources /\ y.prefix = z.prefix /\ y.generation = z.generation

\* What PollGroup passes on.
Results(plan) == [d : Depacketizers(plan), out : Seq(Units), stopped : BOOLEAN]

\* Other groups.
LEMMA WithGroups ==
  ASSUME NEW plan, NEW z \in Depacketizers(plan), NEW gs \in Seq(Groups(plan)),
         NEW y, y = [z EXCEPT !.groups = gs]
  PROVE  y \in Depacketizers(plan) /\ Selected(y, z) /\ y.lastTs = z.lastTs /\ y.groups = gs
  <1> DEFINE G == Groups(plan)
             S == Sent(plan)
  <1>1. gs \in Seq(G)
    OBVIOUS
  <1> HIDE DEF G, S
  <1> QED BY <1>1 DEF Depacketizers, Selected, G, S

\* One more loss.
LEMMA WithLoss ==
  ASSUME NEW plan, NEW z \in Depacketizers(plan)
  PROVE  LET y == RecordLoss(z) IN
           /\ y \in Depacketizers(plan) /\ Selected(y, z)
           /\ y.lastTs = z.lastTs /\ y.groups = z.groups
  <1> DEFINE y == [z EXCEPT !.epoch = z.epoch + 1]
  <1>1. RecordLoss(z) = y
    BY DEF RecordLoss
  <1>2. z.epoch + 1 \in Nat
    BY DEF Depacketizers
  <1>3. y \in Depacketizers(plan)
    BY <1>2 DEF Depacketizers
  <1>4. Selected(y, z) /\ y.lastTs = z.lastTs /\ y.groups = z.groups
    BY DEF Depacketizers, Selected
  <1> HIDE DEF y
  <1> QED BY <1>1, <1>3, <1>4

\* The first group is taken out.
TakenOut(r) == [r EXCEPT !.d.groups = Tail(@)]

\* The group in hand leaves the queue.
LEMMA LeftIs ==
  ASSUME NEW plan, NEW r \in Results(plan), r.d.groups # <<>>,
         NEW q, q = TakenOut(r)
  PROVE  /\ q \in Results(plan) /\ q.out = r.out /\ q.stopped = r.stopped
         /\ Selected(q.d, r.d) /\ q.d.lastTs = r.d.lastTs
         /\ q.d.groups = Tail(r.d.groups)
         /\ q.d.haveKey = r.d.haveKey
  <1>1. r.d \in Depacketizers(plan) /\ r.d.groups \in Seq(Groups(plan))
    BY DEF Results, Depacketizers
  <1>2. Tail(r.d.groups) \in Seq(Groups(plan))
    BY <1>1
  <1> DEFINE y == [r.d EXCEPT !.groups = Tail(r.d.groups)]
  <1>3. q = [r EXCEPT !.d = y]
    BY DEF TakenOut, Results, Depacketizers
  <1>4. y.haveKey = r.d.haveKey
    BY <1>1 DEF Depacketizers
  <1>5. y \in Depacketizers(plan) /\ Selected(y, r.d) /\ y.lastTs = r.d.lastTs /\ y.groups = Tail(r.d.groups)
    <2> DEFINE gs == Tail(r.d.groups)
    <2>1. y = [r.d EXCEPT !.groups = gs] /\ gs \in Seq(Groups(plan))
      BY <1>2
    <2> HIDE DEF y, gs
    <2>2. y \in Depacketizers(plan) /\ Selected(y, r.d) /\ y.lastTs = r.d.lastTs /\ y.groups = gs
      BY <1>1, <2>1, WithGroups
    <2> QED BY <2>2 DEF gs
  <1> HIDE DEF y
  <1> QED BY <1>3, <1>4, <1>5 DEF Results

\* A group is given up.
LEMMA GiveUpIs ==
  ASSUME NEW plan, NEW r \in Results(plan), NEW g, g.src \in Sources, Sample(g).pic \in Nat, ~Whole(g)
  PROVE  LET q == GiveUp(r, g) IN
           /\ q \in Results(plan) /\ q.out = r.out /\ q.stopped = r.stopped
           /\ Selected(q.d, r.d) /\ q.d.lastTs = r.d.lastTs /\ q.d.groups = r.d.groups
  <1> DEFINE x == [src |-> g.src, pic |-> Sample(g).pic, whole |-> Whole(g)]
             y == [RecordLoss(r.d) EXCEPT !.givenUp = r.d.givenUp \cup {x}]
  <1>1. r.d \in Depacketizers(plan)
    BY DEF Results
  <1>2. x \in [src : Sources, pic : Nat, whole : {FALSE}]
    BY DEF Whole
  <1> HIDE DEF x
  <1>3. /\ y \in Depacketizers(plan) /\ Selected(y, r.d)
        /\ y.lastTs = r.d.lastTs /\ y.groups = r.d.groups
    <2>1. RecordLoss(r.d) \in Depacketizers(plan)
      BY <1>1, WithLoss
    <2>2. r.d.givenUp \cup {x} \in SUBSET [src : Sources, pic : Nat, whole : {FALSE}]
      BY <1>1, <1>2 DEF Depacketizers
    <2>3. y \in Depacketizers(plan)
      <3> DEFINE l == RecordLoss(r.d)
                 more == r.d.givenUp \cup {x}
      <3> HIDE DEF l, more
      <3>1. [l EXCEPT !.givenUp = more] \in Depacketizers(plan)
        BY <2>1, <2>2 DEF Depacketizers, l, more
      <3> QED BY <3>1 DEF l, more
    <2> QED BY <1>1, <2>3 DEF Depacketizers, Selected, RecordLoss
  <1>4. GiveUp(r, g) = [r EXCEPT !.d = y]
    BY DEF GiveUp, x
  <1> HIDE DEF y
  <1> QED BY <1>3, <1>4 DEF Results

\* A group becomes an access unit.
LEMMA EmitIs ==
  ASSUME NEW plan, NEW r \in Results(plan), NEW g, g.src \in Sources, g.ts \in Nat,
         Sample(g).key \in BOOLEAN, NEW u \in Units, u = AccessUnit(r.d, g),
         NEW q, q = Emit(r, g)
  PROVE  /\ q \in Results(plan) /\ q.out = Append(r.out, u)
         /\ q.stopped = r.stopped /\ Selected(q.d, r.d) /\ q.d.groups = r.d.groups
         /\ q.d.lastTs = [r.d.lastTs EXCEPT ![g.src] = g.ts]
  <1> DEFINE key == r.d.haveKey \/ Sample(g).key
             last == [r.d.lastTs EXCEPT ![g.src] = g.ts]
             y == [r.d EXCEPT !.haveKey = key, !.lastTs = last]
  <1>1. r.d \in Depacketizers(plan) /\ r.out \in Seq(Units)
    BY DEF Results
  <1>2. last \in [Sources -> Nat \cup {NoTs}] /\ key \in BOOLEAN
    <2>1. r.d.lastTs \in [Sources -> Nat \cup {NoTs}]
      BY <1>1 DEF Depacketizers
    <2> QED BY <2>1
  <1>3. q = [r EXCEPT !.out = Append(r.out, u), !.d = y]
    BY <1>1 DEF Emit, Results, Depacketizers
  <1> HIDE DEF key, last
  <1>4. y \in Depacketizers(plan) /\ Selected(y, r.d) /\ y.groups = r.d.groups /\ y.lastTs = last
    BY <1>1, <1>2 DEF Depacketizers, Selected
  <1>5. Append(r.out, u) \in Seq(Units)
    BY <1>1
  <1> HIDE DEF y
  <1> QED BY <1>3, <1>4, <1>5 DEF Results, last

\* The band of a source is one of the picture's.
LEMMA TileIs ==
  ASSUME NEW z, z.sources \subseteq Sources, IsFiniteSet(z.sources), NEW s \in z.sources
  PROVE  Tile(z, s) \in Nat /\ Tile(z, s) < Cardinality(z.sources)
  <1> DEFINE below == {r \in z.sources : r < s}
  <1>1. s \in Nat
    BY DepacketizerAssumption
  <1>2. below \in SUBSET (z.sources \ {s})
    BY <1>1
  <1>3. IsFiniteSet(z.sources \ {s}) /\ Cardinality(z.sources \ {s}) = Cardinality(z.sources) - 1
    BY FS_RemoveElement
  <1> HIDE DEF below
  <1>4. IsFiniteSet(below) /\ Cardinality(below) <= Cardinality(z.sources) - 1
    BY <1>2, <1>3, FS_Subset
  <1>5. Cardinality(below) \in Nat /\ Cardinality(z.sources) \in Nat
    BY <1>4, FS_CardinalityType
  <1> QED BY <1>4, <1>5 DEF Tile, below

-----------------------------------------------------------------------------
(* poll *)

\* What is known of a depacketizer of the invariant's.
LEMMA Known ==
  ASSUME NEW plan \in Plans, NEW z, Reassembly(z, plan)
  PROVE  /\ z \in Depacketizers(plan) /\ z.tiles \in Nat /\ z.generation \in Nat
         /\ z.sources \subseteq Sources /\ IsFiniteSet(z.sources)
         /\ z.groups \in Seq(Groups(plan)) /\ Len(z.groups) \in Nat
         /\ DOMAIN z.groups = 1..Len(z.groups)
         /\ \A i \in 1..Len(z.groups) :
              LET g == z.groups[i] IN
              /\ g \in Groups(plan) /\ g.src \in Sources /\ g.src \in z.sources
              /\ g.ts \in Nat /\ g.age \in Nat /\ g.packets \subseteq Sent(plan) /\ OnePicture(g)
              /\ IsFiniteSet(g.packets) /\ Cardinality(g.packets) \in Nat
  <1>1. z \in Depacketizers(plan) /\ Waiting(z) /\ IsFiniteSet(z.sources)
    BY DEF Reassembly
  <1>2. /\ z.tiles \in Nat /\ z.generation \in Nat /\ z.sources \subseteq Sources
        /\ z.groups \in Seq(Groups(plan))
    BY <1>1 DEF Depacketizers
  <1>3. Len(z.groups) \in Nat /\ DOMAIN z.groups = 1..Len(z.groups)
    BY <1>2
  <1>4. ASSUME NEW i \in 1..Len(z.groups)
        PROVE  LET g == z.groups[i] IN
               /\ g \in Groups(plan) /\ g.src \in Sources /\ g.src \in z.sources
               /\ g.ts \in Nat /\ g.age \in Nat /\ g.packets \subseteq Sent(plan) /\ OnePicture(g)
               /\ IsFiniteSet(g.packets) /\ Cardinality(g.packets) \in Nat
    <2> DEFINE g == z.groups[i]
    <2>1. g \in Groups(plan)
      BY <1>2, <1>3
    <2>2. OnePicture(g) /\ g.src \in z.sources
      BY <1>1 DEF Waiting
    <2> HIDE DEF g
    <2>3. g.src \in Sources /\ g.ts \in Nat /\ g.age \in Nat /\ g.packets \subseteq Sent(plan)
      BY <2>1 DEF Groups
    <2>4. IsFiniteSet(g.packets) /\ Cardinality(g.packets) \in Nat
      BY <2>2, FS_CardinalityType DEF OnePicture
    <2> QED BY <2>1, <2>2, <2>3, <2>4 DEF g
  <1> QED BY <1>1, <1>2, <1>3, <1>4

\* With a group less, what waits is still within the limits and in order.
LEMMA WaitingLess ==
  ASSUME NEW plan \in Plans, NEW z, Reassembly(z, plan), NEW y \in Depacketizers(plan),
         Selected(y, z), NEW i \in 1..Len(z.groups), Len(y.groups) = Len(z.groups) - 1,
         \A k \in 1..Len(z.groups) - 1 : y.groups[k] = z.groups[IF k < i THEN k ELSE k + 1]
  PROVE  Waiting(y) /\ (Fits(z) => Fits(y))
  <1> DEFINE n == Len(z.groups)
             Z(k) == z.groups[k]
             Y(k) == y.groups[k]
             to(k) == IF k < i THEN k ELSE k + 1
  <1>1. n \in Nat /\ i \in 1..n /\ DOMAIN z.groups = 1..n
    BY Known
  <1>2. Len(y.groups) = n - 1 /\ DOMAIN y.groups = 1..n - 1
    <2>1. y.groups \in Seq(Groups(plan))
      BY DEF Depacketizers
    <2> QED BY <2>1
  <1>3. \A k \in 1..n - 1 : Y(k) = Z(to(k))
    OBVIOUS
  <1>4. \A k \in 1..n - 1 : to(k) \in 1..n /\ \A j \in 1..k - 1 : to(j) \in 1..to(k) - 1
    BY <1>1
  <1>5. \A k \in 1..n : Cardinality(Z(k).packets) \in Nat
    BY Known
  <1>6. Pending(y) <= Pending(z)
    BY <1>1, <1>2, <1>5, PendingLess
  <1>7. /\ n <= MAX_GROUPS /\ Pending(z) <= MAX_PENDING_BYTES
        /\ \A k \in 1..n : OnePicture(Z(k)) /\ Z(k).src \in z.sources
        /\ \A k \in 1..n : \A j \in 1..k - 1 : /\ Z(j).src # Z(k).src \/ Z(j).ts # Z(k).ts
                                               /\ Z(j).age >= Z(k).age
    BY DEF Reassembly, Waiting, Ordered
  <1>8. Pending(z) \in Nat /\ Pending(y) \in Nat
    <2>1. Pending(z) \in Nat
      BY <1>1, <1>5, PendingType
    <2>2. n - 1 \in Nat
      BY <1>1
    <2>3. \A k \in 1..n - 1 : Cardinality(y.groups[k].packets) \in Nat
      BY <1>3, <1>4, <1>5
    <2>4. Pending(y) \in Nat
      BY <1>2, <2>2, <2>3, PendingType
    <2> QED BY <2>1, <2>4
  <1>9. {MAX_GROUPS, MAX_PENDING_BYTES} \subseteq Nat
    BY DepacketizerAssumption
  <1>10. y.sources = z.sources
    BY DEF Selected
  <1> HIDE DEF n, to
  <1>11. Len(y.groups) <= MAX_GROUPS /\ Pending(y) <= MAX_PENDING_BYTES
    BY <1>1, <1>2, <1>6, <1>7, <1>8, <1>9
  <1>12. \A k \in 1..n - 1 : OnePicture(Y(k)) /\ Y(k).src \in y.sources
    BY <1>3, <1>4, <1>7, <1>10
  <1>13. \A k \in 1..n - 1 : \A j \in 1..k - 1 : /\ Y(j).src # Y(k).src \/ Y(j).ts # Y(k).ts
                                                 /\ Y(j).age >= Y(k).age
    <2> SUFFICES ASSUME NEW k \in 1..n - 1, NEW j \in 1..k - 1
                 PROVE  /\ Y(j).src # Y(k).src \/ Y(j).ts # Y(k).ts
                        /\ Y(j).age >= Y(k).age
      OBVIOUS
    <2>1. j \in 1..n - 1
      BY <1>1
    <2>2. Y(k) = Z(to(k)) /\ Y(j) = Z(to(j)) /\ to(k) \in 1..n /\ to(j) \in 1..to(k) - 1
      BY <1>3, <1>4, <2>1
    <2> HIDE DEF Y, Z
    <2> QED BY <1>7, <2>2
  <1>14. Waiting(y)
    BY <1>2, <1>11, <1>12, <1>13 DEF Waiting, Ordered
  <1>15. ASSUME Fits(z) PROVE Fits(y)
    <2>1. \A k \in 1..n : Cardinality(Z(k).packets) <= MAX_GROUP_BYTES
      BY <1>15 DEF Fits, n
    <2>2. \A k \in 1..n - 1 : Cardinality(Y(k).packets) <= MAX_GROUP_BYTES
      BY <1>3, <1>4, <2>1
    <2> QED BY <1>2, <2>2 DEF Fits
  <1> QED BY <1>14, <1>15

\* What keeps the selection, the groups and the last timestamps sound keeps it all sound.
LEMMA StillReassembles ==
  ASSUME NEW plan \in Plans, NEW z, Reassembly(z, plan), NEW y \in Depacketizers(plan),
         Selected(y, z), Waiting(y),
         \A s \in Sources : y.lastTs[s] = z.lastTs[s] \/ Reached(y, plan, s, 0)
  PROVE  Reassembly(y, plan)
  <1>1. y.tiles \in TileCounts /\ IsFiniteSet(y.sources) /\ Cardinality(y.sources) <= y.tiles
    BY DEF Reassembly, Selected
  <1>2. Candidates(y)
    BY DEF Reassembly, Selected, Candidates
  <1>3. \A s \in Sources : y.lastTs[s] # NoTs => Reached(y, plan, s, 0)
    BY DEF Reassembly, Reached
  <1> QED BY <1>1, <1>2, <1>3 DEF Reassembly

\* Nothing falls out of line while the last timestamps only go on.
LEMMA StillInLine ==
  ASSUME NEW plan, NEW z, NEW y, NEW us, NEW tl, InLine(z, plan, us, tl),
         y.tiles = z.tiles, y.generation = z.generation,
         \A s \in Sources, n \in Nat : Reached(z, plan, s, n) => Reached(y, plan, s, n)
  PROVE  InLine(y, plan, us, tl)
  <1>1. us \in Seq(Units)
    BY DEF InLine
  <1>2. \A i \in 1..Len(us) : us[i].src \in Sources /\ us[i].pic \in Nat
    <2>1. \A i \in 1..Len(us) : us[i] \in Units
      BY <1>1
    <2> QED BY <2>1 DEF Units
  <1>3. \A i \in DOMAIN tl : tl[i].src \in Sources /\ tl[i].pic \in Nat
    BY DEF InLine
  <1> QED BY <1>1, <1>2, <1>3 DEF InLine

\* One unit more, of a picture later than those its source has shown.
LEMMA OneMoreInLine ==
  ASSUME NEW plan, NEW z, NEW us, NEW tl, InLine(z, plan, us, tl), NEW u \in Units,
         u.tile < z.tiles, u.generation = z.generation, z.generation \in Nat,
         NEW y, y.tiles = z.tiles, y.generation = z.generation,
         Reached(y, plan, u.src, u.pic),
         \A s \in Sources, n \in Nat : Reached(z, plan, s, n) => Reached(y, plan, s, n),
         \A n \in Nat : Reached(z, plan, u.src, n) => n < u.pic
  PROVE  InLine(y, plan, Append(us, u), tl)
  <1> DEFINE all == Append(us, u)
             N == Len(us)
  <1>1. us \in Seq(Units) /\ N \in Nat
    BY DEF InLine
  <1>2. \A i \in 1..N : us[i].src \in Sources /\ us[i].pic \in Nat /\ us[i].generation \in Nat
    <2>1. \A i \in 1..N : us[i] \in Units
      BY <1>1
    <2> QED BY <2>1 DEF Units
  <1>3. u.src \in Sources /\ u.pic \in Nat
    BY DEF Units
  <1>4. /\ all \in Seq(Units) /\ Len(all) = N + 1 /\ all[N + 1] = u
        /\ \A i \in 1..N : all[i] = us[i]
    BY <1>1
  <1> HIDE DEF all, N
  <1>5. \A i \in 1..N :
          /\ us[i].tile < z.tiles /\ us[i].generation <= z.generation
          /\ us[i].generation = z.generation => Reached(z, plan, us[i].src, us[i].pic)
    BY DEF InLine, N
  <1>6. \A i \in 1..N + 1 :
          /\ all[i].tile < y.tiles /\ all[i].generation <= y.generation
          /\ all[i].generation = y.generation => Reached(y, plan, all[i].src, all[i].pic)
    <2> SUFFICES ASSUME NEW i \in 1..N + 1
                 PROVE  /\ all[i].tile < y.tiles /\ all[i].generation <= y.generation
                        /\ all[i].generation = y.generation => Reached(y, plan, all[i].src, all[i].pic)
      OBVIOUS
    <2>1. CASE i \in 1..N
      BY <1>2, <1>4, <1>5, <2>1
    <2>2. CASE i = N + 1
      BY <1>4, <2>2
    <2> QED BY <1>1, <2>1, <2>2
  <1>7. \A j \in 1..N : \A i \in 1..j - 1 :
          us[i].src = us[j].src /\ us[i].generation = us[j].generation => us[i].pic < us[j].pic
    BY DEF InLine, N
  <1>8. ASSUME NEW j \in 1..N + 1, NEW i \in 1..j - 1,
               all[i].src = all[j].src, all[i].generation = all[j].generation
        PROVE  all[i].pic < all[j].pic
    <2>1. i \in 1..N
      BY <1>1
    <2>2. CASE j \in 1..N
      BY <1>4, <1>7, <1>8, <2>1, <2>2
    <2>3. CASE j = N + 1
      <3>1. us[i].src = u.src /\ us[i].generation = z.generation
        BY <1>4, <1>8, <2>1, <2>3
      <3>2. Reached(z, plan, u.src, us[i].pic)
        BY <1>5, <2>1, <3>1
      <3> QED BY <1>2, <1>4, <2>1, <2>3, <3>2
    <2> QED BY <1>1, <2>2, <2>3
  <1>9. ASSUME NEW i \in DOMAIN tl
        PROVE  /\ tl[i].src \in Sources /\ tl[i].pic \in Nat /\ tl[i].stamp[2] \in 0..y.generation
               /\ tl[i].stamp[2] = y.generation => Reached(y, plan, tl[i].src, tl[i].pic)
               /\ \A j \in 1..N + 1 : tl[i].src = all[j].src /\ tl[i].stamp[2] = all[j].generation
                                        => tl[i].pic < all[j].pic
    <2>1. /\ tl[i].src \in Sources /\ tl[i].pic \in Nat /\ tl[i].stamp[2] \in 0..z.generation
          /\ tl[i].stamp[2] = z.generation => Reached(z, plan, tl[i].src, tl[i].pic)
          /\ \A j \in 1..N : tl[i].src = us[j].src /\ tl[i].stamp[2] = us[j].generation
                               => tl[i].pic < us[j].pic
      BY DEF InLine, N
    <2>2. ASSUME NEW j \in 1..N + 1, tl[i].src = all[j].src, tl[i].stamp[2] = all[j].generation
          PROVE  tl[i].pic < all[j].pic
      <3>1. CASE j \in 1..N
        BY <1>4, <2>1, <2>2, <3>1
      <3>2. CASE j = N + 1
        BY <1>4, <2>1, <2>2, <3>2
      <3> QED BY <1>1, <3>1, <3>2
    <2> QED BY <2>1, <2>2
  <1>10. \A j \in 1..N + 1 : \A i \in 1..j - 1 :
           all[i].src = all[j].src /\ all[i].generation = all[j].generation => all[i].pic < all[j].pic
    BY <1>8
  <1> QED BY <1>4, <1>6, <1>9, <1>10 DEF InLine, all

\* After k of its n groups: r has what is left of z, and its units follow us.
Polled(r, k, z, plan, us, tl) ==
  /\ r \in Results(plan) /\ Selected(r.d, z)
  /\ Reassembly(r.d, plan) /\ Fits(r.d) /\ InLine(r.d, plan, us \o r.out, tl)
  /\ Len(r.d.groups) <= Len(z.groups)
  /\ ~r.stopped => /\ Len(r.d.groups) = Len(z.groups) - k
                   /\ \A i \in 1..Len(z.groups) - k : r.d.groups[i] = z.groups[k + i]

\* Without the first group.
LEMMA PolledLeft ==
  ASSUME NEW plan \in Plans, NEW z, Reassembly(z, plan), NEW us, NEW tl,
         NEW k \in 0..Len(z.groups) - 1, NEW r, Polled(r, k, z, plan, us, tl), ~r.stopped,
         NEW q, q = TakenOut(r)
  PROVE  Polled(q, k + 1, z, plan, us, tl) /\ q.d.lastTs = r.d.lastTs /\ q.out = r.out /\ ~q.stopped
  <1> DEFINE n == Len(z.groups)
  <1>1. n \in Nat /\ k \in 0..n - 1
    BY Known
  <1>2. /\ Len(r.d.groups) = n - k /\ \A i \in 1..n - k : r.d.groups[i] = z.groups[k + i]
        /\ r \in Results(plan) /\ Selected(r.d, z) /\ Reassembly(r.d, plan) /\ Fits(r.d)
        /\ InLine(r.d, plan, us \o r.out, tl)
    BY DEF Polled
  <1>3. r.d.groups \in Seq(Groups(plan)) /\ r.d \in Depacketizers(plan)
    BY <1>2, Known
  <1> HIDE DEF n
  <1>4. r.d.groups # <<>>
    BY <1>1, <1>2, <1>3
  <1>5. /\ q \in Results(plan) /\ q.out = r.out /\ q.stopped = r.stopped
        /\ Selected(q.d, r.d) /\ q.d.lastTs = r.d.lastTs
        /\ q.d.groups = Tail(r.d.groups)
    BY <1>2, <1>4, LeftIs
  <1>6. /\ Len(q.d.groups) = n - k - 1
        /\ \A i \in 1..n - k - 1 : q.d.groups[i] = r.d.groups[i + 1]
    <2>1. /\ Len(Tail(r.d.groups)) = Len(r.d.groups) - 1
          /\ \A i \in 1..Len(r.d.groups) - 1 : Tail(r.d.groups)[i] = r.d.groups[i + 1]
      BY <1>3, <1>4, HeadTailProperties
    <2> QED BY <1>1, <1>2, <1>5, <2>1
  <1>7. q.d \in Depacketizers(plan)
    BY <1>5 DEF Results
  <1>8. Waiting(q.d) /\ Fits(q.d)
    <2>1. 1 \in 1..Len(r.d.groups)
      BY <1>1, <1>2
    <2>2. \A i \in 1..Len(r.d.groups) - 1 : q.d.groups[i] = r.d.groups[IF i < 1 THEN i ELSE i + 1]
      <3> SUFFICES ASSUME NEW i \in 1..Len(r.d.groups) - 1
                   PROVE  q.d.groups[i] = r.d.groups[IF i < 1 THEN i ELSE i + 1]
        OBVIOUS
      <3>1. i \in 1..n - k - 1 /\ ~(i < 1)
        BY <1>1, <1>2
      <3> QED BY <1>6, <3>1
    <2> QED BY <1>1, <1>2, <1>5, <1>6, <1>7, <2>1, <2>2, WaitingLess
  <1>9. Reassembly(q.d, plan)
    BY <1>2, <1>5, <1>7, <1>8, StillReassembles
  <1>10. InLine(q.d, plan, us \o q.out, tl)
    <2>1. \A s \in Sources, i \in Nat : Reached(r.d, plan, s, i) => Reached(q.d, plan, s, i)
      BY <1>5 DEF Reached
    <2>2. q.d.tiles = r.d.tiles /\ q.d.generation = r.d.generation
      BY <1>5 DEF Selected
    <2> QED BY <1>2, <1>5, <2>1, <2>2, StillInLine
  <1>11. Selected(q.d, z)
    BY <1>2, <1>5 DEF Selected
  <1>12. \A i \in 1..n - (k + 1) : q.d.groups[i] = z.groups[k + 1 + i]
    <2> SUFFICES ASSUME NEW i \in 1..n - (k + 1) PROVE q.d.groups[i] = z.groups[k + 1 + i]
      OBVIOUS
    <2>1. i \in 1..n - k - 1 /\ i + 1 \in 1..n - k /\ k + (i + 1) = k + 1 + i
      BY <1>1
    <2> QED BY <1>2, <1>6, <2>1
  <1>13. Len(q.d.groups) = n - (k + 1) /\ Len(q.d.groups) <= n
    BY <1>1, <1>6
  <1> QED BY <1>5, <1>8, <1>9, <1>10, <1>11, <1>12, <1>13 DEF Polled, n


\* The same groups wait as well.
LEMMA SameGroups ==
  ASSUME NEW z, NEW y, y.groups = z.groups, y.sources = z.sources
  PROVE  (Waiting(z) => Waiting(y)) /\ (Fits(z) => Fits(y))
  BY DEF Waiting, Fits, Pending, Ordered

\* What is done with the group that has been taken out.
LEMMA PolledOn ==
  ASSUME NEW plan \in Plans, NEW z, NEW us, NEW tl, NEW k, NEW q, Polled(q, k, z, plan, us, tl),
         NEW y \in Results(plan), y.stopped = q.stopped, Selected(y.d, q.d), y.d.groups = q.d.groups,
         \A s \in Sources : y.d.lastTs[s] = q.d.lastTs[s] \/ Reached(y.d, plan, s, 0),
         InLine(y.d, plan, us \o y.out, tl)
  PROVE  Polled(y, k, z, plan, us, tl)
  <1>1. Reassembly(q.d, plan) /\ Fits(q.d) /\ Selected(q.d, z)
    BY DEF Polled
  <1>2. y.d \in Depacketizers(plan)
    BY DEF Results
  <1>3. Waiting(y.d) /\ Fits(y.d)
    <2>1. y.d.sources = q.d.sources
      BY DEF Selected
    <2>2. Waiting(q.d)
      BY <1>1 DEF Reassembly
    <2> QED BY <1>1, <2>1, <2>2, SameGroups
  <1>4. Reassembly(y.d, plan)
    BY <1>1, <1>2, <1>3, StillReassembles
  <1>5. Selected(y.d, z)
    BY <1>1 DEF Selected
  <1> QED BY <1>3, <1>4, <1>5 DEF Polled

\* A group whose timestamp is ahead is of a later picture than all that have left.
LEMMA Ahead ==
  ASSUME NEW plan \in Plans, NEW z, NEW g, g.src \in Sources,
         NEW n \in 1..Len(plan[g.src]), g.ts = Ts(n), ~LateTimestamp(z, g),
         NEW m \in Nat, Reached(z, plan, g.src, m)
  PROVE  m < n
  <1> DEFINE L == Len(plan[g.src])
  <1>1. DOMAIN plan[g.src] = 1..L /\ 1..L \subseteq 1..TsSpace \div 2
    BY PicturesAre
  <1>2. PICK l \in 1..L : z.lastTs[g.src] = Ts(l) /\ m <= l
    BY <1>1 DEF Reached
  <1>3. l \in 1..TsSpace \div 2 /\ n \in 1..TsSpace \div 2 /\ l \in Nat /\ n \in Nat
    BY <1>1
  <1>4. Ts(l) \in Nat
    BY <1>3, TimesApart
  <1>5. (Ts(n) - Ts(l)) % TsSpace \in 1..TsSpace \div 2 - 1
    BY <1>2, <1>4 DEF LateTimestamp, NoTs
  <1>6. l < n
    BY <1>3, <1>5, TimesApart
  <1> QED BY <1>2, <1>3, <1>6

\* A group that is whole and not late leaves as an access unit.
LEMMA PolledEmit ==
  ASSUME NEW plan \in Plans, NEW z, NEW us \in Seq(Units), NEW tl, NEW k,
         NEW q, Polled(q, k, z, plan, us, tl),
         NEW g, g.src \in q.d.sources, g.packets \subseteq Sent(plan), OnePicture(g),
         ~LateTimestamp(q.d, g), Whole(g)
  PROVE  Polled(Emit(q, g), k, z, plan, us, tl)
  <1> DEFINE s == g.src
             u == AccessUnit(q.d, g)
             y == Emit(q, g)
  <1>1. q \in Results(plan) /\ Reassembly(q.d, plan) /\ InLine(q.d, plan, us \o q.out, tl)
    BY DEF Polled
  <1>2. /\ q.d \in Depacketizers(plan) /\ q.d.tiles \in Nat /\ q.d.generation \in Nat
        /\ q.d.sources \subseteq Sources /\ IsFiniteSet(q.d.sources)
        /\ Cardinality(q.d.sources) <= q.d.tiles /\ q.d.epoch \in Nat
    BY <1>1, Known DEF Reassembly, Depacketizers
  <1>3. s \in Sources
    BY <1>2
  <1>4. PICK n \in 1..Len(plan[s]) : /\ g.ts = Ts(n) /\ Sample(g).pic = n
                                     /\ Sample(g).geo \in Nat /\ Sample(g).key \in BOOLEAN
    BY <1>3, GroupIs
  <1>5. /\ Len(plan[s]) \in Nat /\ DOMAIN plan[s] = 1..Len(plan[s]) /\ n \in Nat
        /\ g.ts \in Nat
    <2>1. n \in 1..TsSpace \div 2 /\ Len(plan[s]) \in Nat /\ DOMAIN plan[s] = 1..Len(plan[s])
      BY <1>3, PicturesAre
    <2>2. Ts(n) \in Nat
      BY <2>1, TimesApart
    <2> QED BY <1>4, <2>1, <2>2
  <1>6. Tile(q.d, s) \in Nat /\ Tile(q.d, s) < q.d.tiles
    <2>1. Tile(q.d, s) \in Nat /\ Tile(q.d, s) < Cardinality(q.d.sources)
      BY <1>2, TileIs
    <2>2. Cardinality(q.d.sources) \in Nat
      BY <1>2, FS_CardinalityType
    <2> QED BY <1>2, <2>1, <2>2
  <1>7. /\ u \in Units /\ u.src = s /\ u.pic = n /\ u.tile < q.d.tiles
        /\ u.generation = q.d.generation
    BY <1>2, <1>3, <1>4, <1>5, <1>6 DEF AccessUnit, Units
  <1>8. /\ y \in Results(plan) /\ y.out = Append(q.out, u)
        /\ y.stopped = q.stopped /\ Selected(y.d, q.d) /\ y.d.groups = q.d.groups
        /\ y.d.lastTs = [q.d.lastTs EXCEPT ![s] = g.ts]
    <2>1. q \in Results(plan) /\ g.ts \in Nat /\ Sample(g).key \in BOOLEAN /\ u \in Units
      BY <1>1, <1>4, <1>5, <1>7
    <2>2. u = AccessUnit(q.d, g) /\ y = Emit(q, g)
      OBVIOUS
    <2> HIDE DEF u, y
    <2>3. g.src \in Sources
      BY ONLY <1>3
    <2> QED BY ONLY <2>1, <2>2, <2>3, EmitIs, SMTT(30)
  <1> HIDE DEF y, u
  <1>9. y.d.lastTs[s] = Ts(n) /\ \A r \in Sources : r # s => y.d.lastTs[r] = q.d.lastTs[r]
    <2>1. q.d.lastTs \in [Sources -> Nat \cup {NoTs}]
      BY <1>2 DEF Depacketizers
    <2> QED BY <1>3, <1>4, <1>8, <2>1
  <1>10. \A m \in Nat : Reached(q.d, plan, s, m) => m < n
    BY <1>3, <1>4, Ahead
  <1>11. \A m \in Nat : m <= n => Reached(y.d, plan, s, m)
    BY <1>4, <1>5, <1>9 DEF Reached
  <1>12. ASSUME NEW r \in Sources, NEW m \in Nat, Reached(q.d, plan, r, m)
         PROVE  Reached(y.d, plan, r, m)
    <2>1. CASE r = s
      BY <1>5, <1>10, <1>11, <1>12, <2>1
    <2>2. CASE r # s
      BY <1>9, <1>12, <2>2 DEF Reached
    <2> QED BY <2>1, <2>2
  <1>13. y.d.tiles = q.d.tiles /\ y.d.generation = q.d.generation
    BY <1>8 DEF Selected
  <1>14. InLine(y.d, plan, Append(us \o q.out, u), tl)
    <2>1. Reached(y.d, plan, u.src, u.pic) /\ \A m \in Nat : Reached(q.d, plan, u.src, m) => m < u.pic
      BY <1>5, <1>7, <1>10, <1>11
    <2> QED BY <1>1, <1>2, <1>7, <1>12, <1>13, <2>1, OneMoreInLine
  <1>15. Append(us \o q.out, u) = us \o y.out
    <2>1. q.out \in Seq(Units) /\ us \o q.out \in Seq(Units)
      BY <1>1, ConcatProperties DEF Results
    <2>2. Append(us \o q.out, u) = (us \o q.out) \o <<u>> /\ Append(q.out, u) = q.out \o <<u>>
      BY <1>7, <2>1, AppendIsConcat
    <2>3. <<u>> \in Seq(Units)
      BY <1>7
    <2>4. (us \o q.out) \o <<u>> = us \o (q.out \o <<u>>)
      <3> DEFINE w == <<u>>
                 o == q.out
      <3>1. us \in Seq(Units) /\ o \in Seq(Units) /\ w \in Seq(Units)
        BY <2>1, <2>3
      <3> HIDE DEF w, o
      <3>2. (us \o o) \o w = us \o (o \o w)
        BY ONLY <3>1, ConcatAssociative
      <3> QED BY <3>2 DEF w, o
    <2> QED BY <1>8, <2>2, <2>4
  <1>16. \A r \in Sources : y.d.lastTs[r] = q.d.lastTs[r] \/ Reached(y.d, plan, r, 0)
    BY <1>5, <1>9, <1>11
  <1>17. InLine(y.d, plan, us \o y.out, tl)
    BY <1>14, <1>15
  <1>18. Polled(y, k, z, plan, us, tl)
    BY <1>8, <1>16, <1>17, PolledOn
  <1> QED BY <1>18 DEF y

\* A group that is not whole is given up.
LEMMA PolledGiveUp ==
  ASSUME NEW plan \in Plans, NEW z, NEW us, NEW tl, NEW k, NEW q, Polled(q, k, z, plan, us, tl),
         NEW g, g.src \in q.d.sources, g.packets \subseteq Sent(plan), OnePicture(g), ~Whole(g)
  PROVE  Polled(GiveUp(q, g), k, z, plan, us, tl)
  <1> DEFINE y == GiveUp(q, g)
  <1>1. q \in Results(plan) /\ Reassembly(q.d, plan) /\ InLine(q.d, plan, us \o q.out, tl)
    BY DEF Polled
  <1>2. g.src \in Sources
    BY <1>1, Known
  <1>3. Sample(g).pic \in Nat
    BY <1>2, GroupIs, PicturesAre
  <1>4. /\ y \in Results(plan) /\ y.out = q.out /\ y.stopped = q.stopped
        /\ Selected(y.d, q.d) /\ y.d.lastTs = q.d.lastTs /\ y.d.groups = q.d.groups
    BY <1>1, <1>2, <1>3, GiveUpIs
  <1> HIDE DEF y
  <1>5. InLine(y.d, plan, us \o y.out, tl)
    <2>1. \A s \in Sources, n \in Nat : Reached(q.d, plan, s, n) => Reached(y.d, plan, s, n)
      BY <1>4 DEF Reached
    <2>2. y.d.tiles = q.d.tiles /\ y.d.generation = q.d.generation
      BY <1>4 DEF Selected
    <2> QED BY <1>1, <1>4, <2>1, <2>2, StillInLine
  <1>6. Polled(y, k, z, plan, us, tl)
    BY <1>4, <1>5, PolledOn
  <1> QED BY <1>6 DEF y

\* One group of poll.
LEMMA PolledStep ==
  ASSUME NEW plan \in Plans, NEW z, Reassembly(z, plan), NEW us \in Seq(Units), NEW tl,
         NEW k \in 0..Len(z.groups) - 1, NEW r, Polled(r, k, z, plan, us, tl)
  PROVE  Polled(PollGroup(r, z.groups[k + 1]), k + 1, z, plan, us, tl)
  <1> DEFINE g == z.groups[k + 1]
             left == TakenOut(r)
             y == PollGroup(r, g)
  <1>1. k + 1 \in 1..Len(z.groups)
    BY Known
  <1>2. /\ g.src \in z.sources /\ g.src \in Sources /\ g.packets \subseteq Sent(plan)
        /\ OnePicture(g)
    BY <1>1, Known
  <1> SUFFICES Polled(y, k + 1, z, plan, us, tl)
    OBVIOUS
  <1> HIDE DEF g
  <1>3. y = IF r.stopped THEN r
            ELSE IF LateTimestamp(r.d, g) THEN left
            ELSE IF Held(g) THEN [r EXCEPT !.stopped = TRUE]
            ELSE Assemble(left, g)
    BY DEF PollGroup, TakenOut
  <1> HIDE DEF y
  <1>4. CASE r.stopped
    BY <1>3, <1>4 DEF Polled
  <1>5. ASSUME ~r.stopped
        PROVE  /\ Polled(left, k + 1, z, plan, us, tl) /\ left.d.lastTs = r.d.lastTs
               /\ left.out = r.out /\ ~left.stopped
    BY <1>5, PolledLeft
  <1> HIDE DEF left
  <1>6. CASE ~r.stopped /\ LateTimestamp(r.d, g)
    BY <1>3, <1>5, <1>6
  <1>7. CASE ~r.stopped /\ ~LateTimestamp(r.d, g) /\ Held(g)
    <2>1. y = [r EXCEPT !.stopped = TRUE]
      BY <1>3, <1>7
    <2>2. r \in Results(plan)
      BY DEF Polled
    <2>3. y \in Results(plan) /\ y.d = r.d /\ y.out = r.out /\ y.stopped = TRUE
      BY <2>1, <2>2 DEF Results
    <2> QED BY <2>3 DEF Polled
  <1>8. CASE ~r.stopped /\ ~LateTimestamp(r.d, g) /\ ~Held(g)
    <2>1. y = Assemble(left, g)
      BY <1>3, <1>8
    <2>2. ~LateTimestamp(left.d, g)
      BY <1>5, <1>8 DEF LateTimestamp
    <2>3. g.src \in left.d.sources
      BY <1>2, <1>5, <1>8 DEF Polled, Selected
    <2>4. Polled(left, k + 1, z, plan, us, tl)
      BY <1>5, <1>8
    <2>5. /\ ~Marked(g) \/ ~Consecutive(g) \/ Headless(g) => ~Whole(g)
          /\ Marked(g) /\ Consecutive(g) /\ ~Headless(g) /\ Slices(g) # {} => Whole(g)
      BY <1>2, GroupIs
    <2>6. CASE ~Marked(g) \/ ~Consecutive(g) \/ Headless(g)
      <3>1. y = GiveUp(left, g) /\ ~Whole(g)
        BY <2>1, <2>5, <2>6 DEF Assemble
      <3> QED BY <1>2, <2>3, <2>4, <3>1, PolledGiveUp
    <2>7. CASE Marked(g) /\ Consecutive(g) /\ ~Headless(g)
      <3>1. y = left \/ (y = Emit(left, g) /\ Whole(g))
        BY <2>1, <2>5, <2>7 DEF Assemble
      <3>2. CASE y = left
        BY <2>4, <3>2
      <3>3. CASE y = Emit(left, g) /\ Whole(g)
        BY <1>2, <2>2, <2>3, <2>4, <3>3, PolledEmit
      <3> QED BY <3>1, <3>2, <3>3
    <2> QED BY <2>6, <2>7
  <1> QED BY <1>4, <1>6, <1>7, <1>8

\* Poll keeps what is sound so.
LEMMA PollKeeps ==
  ASSUME NEW plan \in Plans, NEW z, Reassembly(z, plan), Fits(z), NEW us \in Seq(Units), NEW tl,
         InLine(z, plan, us, tl), NEW r, r = Poll(z)
  PROVE  /\ r \in Results(plan) /\ Selected(r.d, z)
         /\ Reassembly(r.d, plan) /\ Fits(r.d) /\ InLine(r.d, plan, us \o r.out, tl)
         /\ Len(r.d.groups) <= Len(z.groups)
  <1> DEFINE n == Len(z.groups)
             start == [d |-> z, out |-> <<>>, stopped |-> FALSE]
  <1>1. n \in Nat /\ DOMAIN z.groups = 1..n /\ z \in Depacketizers(plan)
    BY Known
  <1>2. us \o <<>> = us
    BY ConcatEmptySeq
  <1>3. Polled(start, 0, z, plan, us, tl)
    <2>1. start \in Results(plan)
      BY <1>1 DEF Results
    <2>2. start.d = z /\ start.out = <<>> /\ ~start.stopped
      OBVIOUS
    <2> HIDE DEF start
    <2> QED BY <1>1, <1>2, <2>1, <2>2 DEF Polled, Selected
  <1> HIDE DEF start
  <1>4. PICK f : PollsTo(f, start, z.groups, n)
    BY <1>1, PollFold
  <1> DEFINE S == {k \in Nat : k <= n => Polled(f[k], k, z, plan, us, tl)}
  <1>5. 0 \in S
    BY <1>3, <1>4 DEF PollsTo
  <1>6. ASSUME NEW k \in Nat, k \in S PROVE k + 1 \in S
    <2> SUFFICES ASSUME k + 1 <= n PROVE Polled(f[k + 1], k + 1, z, plan, us, tl)
      OBVIOUS
    <2>1. k \in 0..n - 1 /\ k + 1 \in 1..n /\ (k + 1) - 1 = k
      BY <1>1
    <2>2. Polled(f[k], k, z, plan, us, tl)
      BY <1>6, <2>1
    <2>3. f[k + 1] = PollGroup(f[k], z.groups[k + 1])
      BY <1>4, <2>1 DEF PollsTo
    <2> QED BY <2>1, <2>2, <2>3, PolledStep
  <1>7. n \in S
    <2> HIDE DEF S
    <2> QED BY <1>1, <1>5, <1>6, Induct
  <1>8. Polled(f[n], n, z, plan, us, tl)
    BY <1>1, <1>7
  <1>9. r = start \/ r = f[n]
    BY <1>4 DEF Poll, PollsTo, PollGroups, start
  <1> QED BY <1>3, <1>8, <1>9 DEF Polled

-----------------------------------------------------------------------------
(* push_selected *)

\* Other groups, perhaps: what the selection and the last timestamps say is the same.
Changed(y, z, plan) == y \in Depacketizers(plan) /\ Selected(y, z) /\ y.lastTs = z.lastTs

\* What a packet is good for.
LEMMA PacketIs ==
  ASSUME NEW plan \in Plans, NEW p \in Sent(plan)
  PROVE  p.src \in Sources /\ p.ts \in Nat
  <1>1. PICK n \in 1..Len(plan[p.src]) : \E i \in 0..Size(plan[p.src][n]) - 1 :
               p = Packet(plan, p.src, n, i)
    BY SentIs
  <1>2. p.src \in Sources
    BY SentIs
  <1>3. p.ts = Ts(n)
    BY <1>1, <1>2, PacketSays
  <1>4. n \in 1..TsSpace \div 2
    BY <1>2, PicturesAre
  <1> QED BY <1>2, <1>3, <1>4, TimesApart

\* Such a change keeps all but what waits.
LEMMA ChangedKeeps ==
  ASSUME NEW plan \in Plans, NEW z, Reassembly(z, plan), NEW y, Changed(y, z, plan)
  PROVE  /\ Waiting(y) => Reassembly(y, plan)
         /\ \A us, tl : InLine(z, plan, us, tl) => InLine(y, plan, us, tl)
  <1>1. y \in Depacketizers(plan) /\ Selected(y, z) /\ y.lastTs = z.lastTs
    BY DEF Changed
  <1>2. Waiting(y) => Reassembly(y, plan)
    BY <1>1, StillReassembles
  <1>3. ASSUME NEW us, NEW tl, InLine(z, plan, us, tl) PROVE InLine(y, plan, us, tl)
    <2>1. \A s \in Sources, n \in Nat : Reached(z, plan, s, n) => Reached(y, plan, s, n)
      BY <1>1 DEF Reached
    <2>2. y.tiles = z.tiles /\ y.generation = z.generation
      BY <1>1 DEF Selected
    <2> QED BY <1>3, <2>1, <2>2, StillInLine
  <1> QED BY <1>2, <1>3

\* One after the other.
LEMMA ChangedTwice ==
  ASSUME NEW plan, NEW x, NEW y, NEW z, Changed(x, y, plan), Changed(y, z, plan)
  PROVE  Changed(x, z, plan)
  BY DEF Changed, Selected

\* What RemoveAt leaves.
LEMMA Removed ==
  ASSUME NEW S, NEW gs \in Seq(S), NEW i \in 1..Len(gs)
  PROVE  LET rs == RemoveAt(gs, i) IN
           /\ rs \in Seq(S) /\ Len(rs) = Len(gs) - 1
           /\ \A k \in 1..Len(gs) - 1 : rs[k] = gs[IF k < i THEN k ELSE k + 1]
  <1> DEFINE n == Len(gs)
             a == SubSeq(gs, 1, i - 1)
             b == SubSeq(gs, i + 1, n)
  <1>1. n \in Nat /\ i \in 1..n
    OBVIOUS
  <1>2. a \in Seq(S) /\ Len(a) = i - 1 /\ \A k \in 1..i - 1 : a[k] = gs[k]
    OBVIOUS
  <1>3. b \in Seq(S) /\ Len(b) = n - i /\ \A k \in 1..n - i : b[k] = gs[i + k]
    OBVIOUS
  <1>4. RemoveAt(gs, i) = a \o b
    BY DEF RemoveAt
  <1> HIDE DEF a, b, n
  <1>5. /\ a \o b \in Seq(S) /\ Len(a \o b) = Len(a) + Len(b)
        /\ \A k \in 1..Len(a) + Len(b) : (a \o b)[k] = IF k <= Len(a) THEN a[k] ELSE b[k - Len(a)]
    BY <1>2, <1>3, ConcatProperties
  <1>6. Len(a \o b) = n - 1
    BY <1>1, <1>2, <1>3, <1>5
  <1>7. ASSUME NEW k \in 1..n - 1 PROVE (a \o b)[k] = gs[IF k < i THEN k ELSE k + 1]
    <2>1. (a \o b)[k] = IF k <= i - 1 THEN a[k] ELSE b[k - (i - 1)]
      BY <1>1, <1>2, <1>3, <1>5
    <2>2. CASE k < i
      BY <1>1, <1>2, <2>1, <2>2
    <2>3. CASE ~(k < i)
      <3>1. k - (i - 1) \in 1..n - i /\ i + (k - (i - 1)) = k + 1
        BY <1>1, <2>3
      <3>2. (a \o b)[k] = b[k - (i - 1)]
        BY <1>1, <2>1, <2>3
      <3>3. (a \o b)[k] = gs[k + 1]
        BY <1>3, <3>1, <3>2
      <3> QED BY <2>3, <3>3
    <2> QED BY <2>2, <2>3
  <1> QED BY <1>4, <1>5, <1>6, <1>7 DEF n

\* One group is dropped, and counted as a loss.
Dropped(z, i) == RecordLoss([z EXCEPT !.groups = RemoveAt(@, i)])

\* A group dropped leaves the others as they were.
LEMMA DroppedIs ==
  ASSUME NEW plan \in Plans, NEW z, Reassembly(z, plan), NEW i \in 1..Len(z.groups),
         NEW y, y = Dropped(z, i)
  PROVE  /\ Changed(y, z, plan) /\ Waiting(y) /\ (Fits(z) => Fits(y))
         /\ Len(y.groups) = Len(z.groups) - 1
         /\ \A k \in 1..Len(z.groups) - 1 : y.groups[k] = z.groups[IF k < i THEN k ELSE k + 1]
  <1> DEFINE gs == RemoveAt(z.groups, i)
             x == [z EXCEPT !.groups = gs]
  <1>1. z \in Depacketizers(plan) /\ z.groups \in Seq(Groups(plan))
    BY Known
  <1>2. /\ gs \in Seq(Groups(plan)) /\ Len(gs) = Len(z.groups) - 1
        /\ \A k \in 1..Len(z.groups) - 1 : gs[k] = z.groups[IF k < i THEN k ELSE k + 1]
    BY <1>1, Removed
  <1>3. y = RecordLoss(x)
    BY DEF Dropped
  <1>4. x \in Depacketizers(plan) /\ Selected(x, z) /\ x.lastTs = z.lastTs /\ x.groups = gs
    <2>1. x = [z EXCEPT !.groups = gs]
      OBVIOUS
    <2> HIDE DEF x, gs
    <2> QED BY <1>1, <1>2, <2>1, WithGroups
  <1> HIDE DEF x, gs
  <1>5. y \in Depacketizers(plan) /\ Selected(y, x) /\ y.lastTs = x.lastTs /\ y.groups = x.groups
    BY <1>3, <1>4, WithLoss
  <1>6. Changed(y, z, plan) /\ y.groups = gs /\ y \in Depacketizers(plan) /\ Selected(y, z)
    BY <1>4, <1>5 DEF Changed, Selected
  <1>7. Waiting(y) /\ (Fits(z) => Fits(y))
    <2>1. Len(y.groups) = Len(z.groups) - 1
      BY <1>2, <1>6
    <2>2. \A k \in 1..Len(z.groups) - 1 : y.groups[k] = z.groups[IF k < i THEN k ELSE k + 1]
      BY <1>2, <1>6
    <2> QED BY <1>6, <2>1, <2>2, WaitingLess
  <1> QED BY <1>2, <1>6, <1>7

\* push_selected has a time to count from.
LEMMA BegunIs ==
  ASSUME NEW plan \in Plans, NEW z, Reassembly(z, plan), NEW e, e = [z EXCEPT !.begun = TRUE]
  PROVE  /\ Changed(e, z, plan) /\ e.groups = z.groups
         /\ Reassembly(e, plan) /\ (Fits(z) => Fits(e)) /\ Pending(e) = Pending(z)
  <1>1. z \in Depacketizers(plan) /\ Waiting(z)
    BY DEF Reassembly
  <1>2. e \in Depacketizers(plan) /\ Selected(e, z) /\ e.lastTs = z.lastTs /\ e.groups = z.groups
    BY <1>1 DEF Depacketizers, Selected
  <1>3. Changed(e, z, plan) /\ e.sources = z.sources
    BY <1>2 DEF Changed, Selected
  <1>4. Waiting(e) /\ (Fits(z) => Fits(e))
    BY <1>1, <1>2, <1>3, SameGroups
  <1>5. Reassembly(e, plan)
    BY <1>3, <1>4, ChangedKeeps
  <1> QED BY <1>2, <1>3, <1>4, <1>5 DEF Pending

\* At the limit a group makes way for a new one.
LEMMA RoomIs ==
  ASSUME NEW plan \in Plans, NEW z, Reassembly(z, plan), Fits(z), NEW p, NEW victim,
         Len(z.groups) < MAX_GROUPS \/ victim \in 1..Len(z.groups),
         NEW m, m = MakeRoom(z, p, victim)
  PROVE  /\ Changed(m, z, plan) /\ Reassembly(m, plan) /\ Fits(m)
         /\ GroupOf(m, p) = {} => Len(m.groups) < MAX_GROUPS
         /\ Pending(m) <= Pending(z) /\ Len(m.groups) <= Len(z.groups)
  <1>1. z \in Depacketizers(plan) /\ z.groups \in Seq(Groups(plan)) /\ Len(z.groups) \in Nat
    BY Known
  <1>2. DOMAIN z.groups = 1..Len(z.groups)
    BY Known
  <1>3. Pending(z) \in Nat
    BY <1>1, <1>2, Known, PendingType
  <1>4. Len(z.groups) <= MAX_GROUPS /\ MAX_GROUPS \in Nat
    BY DepacketizerAssumption DEF Reassembly, Waiting
  <1>5. CASE GroupOf(z, p) = {} /\ Len(z.groups) >= MAX_GROUPS
    <2>1. m = Dropped(z, victim) /\ victim \in 1..Len(z.groups)
      BY <1>1, <1>4, <1>5 DEF MakeRoom, Dropped
    <2>2. /\ Changed(m, z, plan) /\ Waiting(m) /\ Fits(m) /\ Len(m.groups) = Len(z.groups) - 1
          /\ \A k \in 1..Len(z.groups) - 1 :
               m.groups[k] = z.groups[IF k < victim THEN k ELSE k + 1]
      BY <2>1, DroppedIs
    <2>3. Reassembly(m, plan)
      BY <2>2, ChangedKeeps
    <2>4. Pending(m) <= Pending(z)
      <3>1. DOMAIN m.groups = 1..Len(z.groups) - 1
        BY <2>2, <2>3, Known
      <3> QED BY <1>1, <1>2, <2>1, <2>2, <3>1, Known, PendingLess
    <2> QED BY <1>1, <1>4, <2>2, <2>3, <2>4
  <1>6. CASE ~(GroupOf(z, p) = {} /\ Len(z.groups) >= MAX_GROUPS)
    <2>1. m = z
      BY <1>6 DEF MakeRoom
    <2>2. Changed(m, z, plan)
      BY <1>1, <2>1 DEF Changed, Selected
    <2> QED BY <1>1, <1>3, <1>4, <1>6, <2>1, <2>2
  <1> QED BY <1>5, <1>6

\* A packet inserted: only its group may have become too large.
Inserted(y, z, p, plan) ==
  /\ Changed(y, z, plan) /\ Waiting(y)
  /\ \A k \in 1..Len(y.groups) :
       Cardinality(y.groups[k].packets) <= MAX_GROUP_BYTES \/ k \in GroupOf(y, p)
  /\ Len(y.groups) <= Len(z.groups) + 1

\* The packet is the first of its picture.
LEMMA InsertNew ==
  ASSUME NEW plan \in Plans, NEW z, Reassembly(z, plan), Fits(z),
         NEW p \in Sent(plan), p.src \in z.sources, GroupOf(z, p) = {},
         Len(z.groups) < MAX_GROUPS, Pending(z) + 1 <= MAX_PENDING_BYTES,
         NEW y, y = Insert(z, p)
  PROVE  Inserted(y, z, p, plan)
  <1> DEFINE g == [src |-> p.src, ts |-> p.ts, packets |-> {p}, age |-> 0, idle |-> 0, held |-> 0]
             gs == Append(z.groups, g)
             n == Len(z.groups)
  <1>1. z \in Depacketizers(plan) /\ z.groups \in Seq(Groups(plan)) /\ n \in Nat
    BY Known
  <1>2. DOMAIN z.groups = 1..n
    BY Known
  <1>3. p.src \in Sources /\ p.ts \in Nat
    BY PacketIs
  <1>4. /\ g \in Groups(plan) /\ g.src = p.src /\ g.ts = p.ts /\ g.age = 0 /\ OnePicture(g)
        /\ g.packets = {p} /\ Cardinality(g.packets) = 1
    <2>1. IsFiniteSet({p}) /\ Cardinality({p}) = 1
      BY FS_Singleton
    <2> QED BY <1>3, <2>1 DEF Groups, OnePicture
  <1> HIDE DEF g
  <1>5. /\ gs \in Seq(Groups(plan)) /\ Len(gs) = n + 1 /\ gs[n + 1] = g
        /\ \A k \in 1..n : gs[k] = z.groups[k]
    BY <1>1, <1>4, AppendProperties
  <1>6. y = [z EXCEPT !.groups = gs]
    BY DEF Insert, g
  <1> HIDE DEF gs, n
  <1>7. y \in Depacketizers(plan) /\ Selected(y, z) /\ y.lastTs = z.lastTs /\ y.groups = gs
    BY <1>1, <1>5, <1>6, WithGroups
  <1>8. Changed(y, z, plan) /\ y.sources = z.sources
    BY <1>7 DEF Changed, Selected
  <1>9. DOMAIN gs = 1..n + 1
    BY <1>5
  <1>10. /\ n < MAX_GROUPS /\ Pending(z) + 1 <= MAX_PENDING_BYTES
         /\ \A k \in 1..n : /\ OnePicture(z.groups[k]) /\ z.groups[k].src \in z.sources
                            /\ z.groups[k].age \in Nat
                            /\ Cardinality(z.groups[k].packets) \in Nat
                            /\ Cardinality(z.groups[k].packets) <= MAX_GROUP_BYTES
                            /\ z.groups[k].src # p.src \/ z.groups[k].ts # p.ts
         /\ Ordered(z.groups)
    <2>1. \A k \in 1..n : z.groups[k].src # p.src \/ z.groups[k].ts # p.ts
      BY <1>2 DEF GroupOf
    <2>2. \A k \in 1..n : /\ z.groups[k].age \in Nat /\ Cardinality(z.groups[k].packets) \in Nat
                          /\ OnePicture(z.groups[k]) /\ z.groups[k].src \in z.sources
      BY Known DEF n
    <2>3. \A k \in 1..n : Cardinality(z.groups[k].packets) <= MAX_GROUP_BYTES
      BY DEF Fits, n
    <2>4. Ordered(z.groups)
      BY DEF Reassembly, Waiting
    <2> QED BY <2>1, <2>2, <2>3, <2>4 DEF n
  <1>11. Pending(y) = Pending(z) + 1
    <2>1. Cardinality(y.groups[n + 1].packets) = 1 /\ 1 \in Nat
      BY <1>4, <1>5, <1>7
    <2>2. DOMAIN y.groups = 1..n + 1 /\ \A k \in 1..n : y.groups[k] = z.groups[k]
      BY <1>5, <1>7, <1>9
    <2>3. \A k \in 1..n : Cardinality(z.groups[k].packets) \in Nat
      BY <1>10
    <2>4. Pending(y) = Pending(z) + Cardinality(y.groups[n + 1].packets)
      <3>1. Cardinality(y.groups[n + 1].packets) \in Nat
        BY <2>1
      <3> QED BY ONLY <1>1, <1>2, <2>2, <2>3, <3>1, PendingMore
    <2> QED BY <2>1, <2>4
  <1>12. ASSUME NEW k \in 1..n + 1
         PROVE  /\ OnePicture(gs[k]) /\ gs[k].src \in y.sources
                /\ Cardinality(gs[k].packets) <= MAX_GROUP_BYTES \/ k \in GroupOf(y, p)
    <2>1. CASE k \in 1..n
      BY <1>5, <1>8, <1>10, <2>1
    <2>2. CASE k = n + 1
      <3>1. k \in GroupOf(y, p)
        BY <1>4, <1>5, <1>7, <1>9, <2>2 DEF GroupOf
      <3> QED BY <1>4, <1>5, <1>8, <2>2, <3>1
    <2> QED BY <1>1, <2>1, <2>2
  <1>13. ASSUME NEW k \in 1..n + 1, NEW j \in 1..k - 1
         PROVE  (gs[j].src # gs[k].src \/ gs[j].ts # gs[k].ts) /\ gs[j].age >= gs[k].age
    <2>1. j \in 1..n /\ gs[j] = z.groups[j]
      BY <1>1, <1>5
    <2>2. CASE k \in 1..n
      BY <1>5, <1>10, <2>1, <2>2 DEF Ordered, n
    <2>3. CASE k = n + 1
      BY <1>4, <1>5, <1>10, <2>1, <2>3
    <2> QED BY <1>1, <2>2, <2>3
  <1>14. Ordered(gs)
    BY <1>5, <1>13 DEF Ordered
  <1>15. MAX_GROUPS \in Nat
    BY DepacketizerAssumption
  <1>16. Waiting(y)
    BY <1>1, <1>5, <1>7, <1>10, <1>11, <1>12, <1>14, <1>15 DEF Waiting
  <1> QED BY <1>1, <1>5, <1>7, <1>8, <1>12, <1>16 DEF Inserted, n

\* The packet belongs to a group that waits.
LEMMA InsertMore ==
  ASSUME NEW plan \in Plans, NEW z, Reassembly(z, plan), Fits(z),
         NEW p \in Sent(plan), p.src \in z.sources, GroupOf(z, p) # {},
         Pending(z) + 1 <= MAX_PENDING_BYTES,
         NEW y, y = Insert(z, p)
  PROVE  Inserted(y, z, p, plan)
  <1> DEFINE i == CHOOSE i \in GroupOf(z, p) : TRUE
             g == z.groups[i]
             h == [g EXCEPT !.packets = g.packets \cup {p}, !.idle = 0,
                            !.held = IF Marked(g) THEN g.held ELSE 0]
             gs == [z.groups EXCEPT ![i] = h]
             n == Len(z.groups)
  <1>1. z \in Depacketizers(plan) /\ z.groups \in Seq(Groups(plan)) /\ n \in Nat
    BY Known
  <1>2. DOMAIN z.groups = 1..n
    BY Known
  <1>3. i \in 1..n /\ g.src = p.src /\ g.ts = p.ts
    BY <1>2 DEF GroupOf
  <1> HIDE DEF i
  <1>4. /\ g \in Groups(plan) /\ OnePicture(g) /\ IsFiniteSet(g.packets)
        /\ Cardinality(g.packets) \in Nat
    BY <1>3, Known
  <1> HIDE DEF g
  <1>5. /\ h \in Groups(plan) /\ h.src = p.src /\ h.ts = p.ts /\ h.age = g.age
        /\ h.packets = g.packets \cup {p}
    BY <1>3, <1>4 DEF Groups
  <1>6. y = [z EXCEPT !.groups = gs]
    BY DEF Insert, i, g
  <1> HIDE DEF h
  <1>7. OnePicture(h) /\ Cardinality(h.packets) \in Nat
        /\ Cardinality(h.packets) <= Cardinality(g.packets) + 1
    <2>1. IsFiniteSet(h.packets)
      BY <1>4, <1>5, FS_AddElement
    <2>2. Cardinality(h.packets) = Cardinality(g.packets) \/ Cardinality(h.packets) = Cardinality(g.packets) + 1
      <3>1. Cardinality(g.packets \cup {p})
              = IF p \in g.packets THEN Cardinality(g.packets) ELSE Cardinality(g.packets) + 1
        BY ONLY <1>4, FS_AddElement
      <3> QED BY ONLY <1>5, <3>1
    <2> QED BY <1>3, <1>4, <1>5, <2>1, <2>2 DEF OnePicture
  <1>8. /\ gs \in Seq(Groups(plan)) /\ Len(gs) = n
        /\ \A k \in 1..n : gs[k] = IF k = i THEN h ELSE z.groups[k]
    BY <1>1, <1>3, <1>5, ExceptSeq
  <1> HIDE DEF gs, n
  <1>9. y \in Depacketizers(plan) /\ Selected(y, z) /\ y.lastTs = z.lastTs /\ y.groups = gs
    BY <1>1, <1>6, <1>8, WithGroups
  <1>10. Changed(y, z, plan) /\ y.sources = z.sources
    BY <1>9 DEF Changed, Selected
  <1>11. DOMAIN gs = 1..n
    BY <1>8
  <1>12. /\ n <= MAX_GROUPS
         /\ \A k \in 1..n : /\ OnePicture(z.groups[k]) /\ z.groups[k].src \in z.sources
                            /\ Cardinality(z.groups[k].packets) \in Nat
                            /\ Cardinality(z.groups[k].packets) <= MAX_GROUP_BYTES
         /\ Ordered(z.groups)
    <2>1. \A k \in 1..n : /\ Cardinality(z.groups[k].packets) \in Nat
                          /\ OnePicture(z.groups[k]) /\ z.groups[k].src \in z.sources
      BY Known DEF n
    <2>2. \A k \in 1..n : Cardinality(z.groups[k].packets) <= MAX_GROUP_BYTES
      BY DEF Fits, n
    <2>3. Ordered(z.groups) /\ n <= MAX_GROUPS
      BY DEF Reassembly, Waiting, n
    <2> QED BY <2>1, <2>2, <2>3
  <1>13. \A k \in 1..n : /\ gs[k].src = z.groups[k].src /\ gs[k].ts = z.groups[k].ts
                         /\ gs[k].age = z.groups[k].age
                         /\ OnePicture(gs[k]) /\ Cardinality(gs[k].packets) \in Nat
                         /\ Cardinality(gs[k].packets)
                              <= Cardinality(z.groups[k].packets) + IF k = i THEN 1 ELSE 0
    <2> SUFFICES ASSUME NEW k \in 1..n
                 PROVE  /\ gs[k].src = z.groups[k].src /\ gs[k].ts = z.groups[k].ts
                        /\ gs[k].age = z.groups[k].age
                        /\ OnePicture(gs[k]) /\ Cardinality(gs[k].packets) \in Nat
                        /\ Cardinality(gs[k].packets)
                             <= Cardinality(z.groups[k].packets) + IF k = i THEN 1 ELSE 0
      OBVIOUS
    <2>1. CASE k = i
      <3>1. gs[k] = h /\ z.groups[k] = g
        BY <1>8, <2>1 DEF g
      <3> QED BY <1>3, <1>5, <1>7, <2>1, <3>1
    <2>2. CASE k # i
      <3>1. gs[k] = z.groups[k]
        BY <1>8, <2>2
      <3>2. /\ OnePicture(z.groups[k])
            /\ Cardinality(z.groups[k].packets) \in Nat
        BY <1>12
      <3> QED BY ONLY <2>2, <3>1, <3>2
    <2> QED BY <2>1, <2>2
  <1>14. Pending(y) <= MAX_PENDING_BYTES
    <2>1. Pending(y) <= Pending(z) + 1
      <3>1. DOMAIN y.groups = 1..n
        BY <1>9, <1>11
      <3>2. 1 \in Nat
        OBVIOUS
      <3>3. /\ \A k \in 1..n : Cardinality(z.groups[k].packets) \in Nat
            /\ \A k \in 1..n : Cardinality(y.groups[k].packets) \in Nat
            /\ \A k \in 1..n : Cardinality(y.groups[k].packets)
                                <= Cardinality(z.groups[k].packets) + IF k = i THEN 1 ELSE 0
        BY <1>9, <1>12, <1>13
      <3> QED BY ONLY <1>1, <1>2, <3>1, <3>2, <3>3, PendingGrown
    <2>2. Pending(y) \in Nat /\ Pending(z) \in Nat
      BY <1>1, <1>2, <1>9, <1>11, <1>12, <1>13, PendingType
    <2>3. MAX_PENDING_BYTES \in Nat
      BY DepacketizerAssumption
    <2> QED BY <2>1, <2>2, <2>3
  <1>15. ASSUME NEW k \in 1..n
         PROVE  Cardinality(gs[k].packets) <= MAX_GROUP_BYTES \/ k \in GroupOf(y, p)
    <2>1. CASE k = i
      BY <1>3, <1>5, <1>8, <1>9, <1>11, <2>1 DEF GroupOf
    <2>2. CASE k # i
      BY <1>8, <1>12, <2>2
    <2> QED BY <2>1, <2>2
  <1>16. Ordered(gs)
    <2> SUFFICES ASSUME NEW k \in 1..n, NEW j \in 1..k - 1
                 PROVE  /\ gs[j].src # gs[k].src \/ gs[j].ts # gs[k].ts
                        /\ gs[j].age >= gs[k].age
      BY <1>8 DEF Ordered
    <2>1. j \in 1..n
      BY <1>1
    <2> QED BY <1>12, <1>13, <2>1 DEF Ordered, n
  <1>17. Waiting(y)
    BY <1>8, <1>9, <1>10, <1>12, <1>13, <1>14, <1>16 DEF Waiting
  <1> QED BY <1>1, <1>8, <1>9, <1>10, <1>15, <1>17 DEF Inserted, n

\* A group that has become too large goes.
LEMMA OversizedIs ==
  ASSUME NEW plan \in Plans, NEW z, Reassembly(z, plan), NEW p, NEW x, Inserted(x, z, p, plan),
         NEW y, y = DropOversized(x, p)
  PROVE  /\ Changed(y, z, plan) /\ Waiting(y) /\ Fits(y)
         /\ Len(y.groups) <= Len(z.groups) + 1
  <1> DEFINE big == {i \in GroupOf(x, p) : Cardinality(x.groups[i].packets) > MAX_GROUP_BYTES}
             n == Len(x.groups)
  <1>1. Changed(x, z, plan) /\ Waiting(x) /\ n <= Len(z.groups) + 1
    BY DEF Inserted
  <1>2. Reassembly(x, plan)
    BY <1>1, ChangedKeeps
  <1>3. DOMAIN x.groups = 1..n /\ n \in Nat /\ x \in Depacketizers(plan) /\ Len(z.groups) \in Nat
    BY <1>2, Known
  <1>4. \A k \in 1..n : Cardinality(x.groups[k].packets) \in Nat
    BY <1>2, Known
  <1>5. \A k \in 1..n : Cardinality(x.groups[k].packets) <= MAX_GROUP_BYTES \/ k \in GroupOf(x, p)
    BY DEF Inserted
  <1>6. MAX_GROUP_BYTES \in Nat
    BY DepacketizerAssumption
  <1>7. CASE big = {}
    <2>1. y = x
      BY <1>7 DEF DropOversized
    <2>2. Fits(x)
      BY <1>4, <1>5, <1>6, <1>7 DEF Fits
    <2> QED BY <1>1, <2>1, <2>2
  <1>8. CASE big # {}
    <2> DEFINE i == CHOOSE i \in big : TRUE
    <2>1. i \in big
      BY <1>8
    <2>2. i \in 1..n /\ i \in GroupOf(x, p)
      BY <1>3, <2>1 DEF GroupOf
    <2>3. y = Dropped(x, i)
      BY <1>8 DEF DropOversized, Dropped
    <2> HIDE DEF i, big
    <2>4. /\ Changed(y, x, plan) /\ Waiting(y) /\ Len(y.groups) = n - 1
          /\ \A k \in 1..n - 1 : y.groups[k] = x.groups[IF k < i THEN k ELSE k + 1]
      BY <1>2, <2>2, <2>3, DroppedIs
    <2>5. ASSUME NEW k \in 1..n, k # i PROVE k \notin GroupOf(x, p)
      <3>1. \A l \in 1..n : \A j \in 1..l - 1 :
              x.groups[j].src # x.groups[l].src \/ x.groups[j].ts # x.groups[l].ts
        BY <1>1 DEF Waiting, Ordered
      <3>2. x.groups[i].src = p.src /\ x.groups[i].ts = p.ts
        BY <2>2 DEF GroupOf
      <3>3. k \in 1..i - 1 \/ i \in 1..k - 1
        BY <1>3, <2>2, <2>5
      <3>4. x.groups[k].src # p.src \/ x.groups[k].ts # p.ts
        BY <2>2, <3>1, <3>2, <3>3
      <3> QED BY <3>4 DEF GroupOf
    <2>6. ASSUME NEW k \in 1..n - 1 PROVE Cardinality(y.groups[k].packets) <= MAX_GROUP_BYTES
      <3> DEFINE l == IF k < i THEN k ELSE k + 1
      <3>1. l \in 1..n /\ l # i
        BY <1>3, <2>2
      <3>2. y.groups[k] = x.groups[l]
        BY <2>4
      <3> HIDE DEF l
      <3> QED BY <1>5, <2>5, <3>1, <3>2
    <2>7. Fits(y)
      BY <2>4, <2>6 DEF Fits
    <2>8. Changed(y, z, plan)
      BY <1>1, <2>4, ChangedTwice
    <2> QED BY <1>1, <1>3, <2>4, <2>7, <2>8
  <1> QED BY <1>7, <1>8

\* What push_selected and Replay keep: the units that leave follow us.
Pushed(r, z, plan, us, tl) ==
  /\ r \in Results(plan) /\ Selected(r.d, z)
  /\ Reassembly(r.d, plan) /\ Fits(r.d) /\ InLine(r.d, plan, us \o r.out, tl)

\* poll, after a change.
LEMMA PollChanged ==
  ASSUME NEW plan \in Plans, NEW z, Reassembly(z, plan), NEW us \in Seq(Units), NEW tl,
         InLine(z, plan, us, tl), NEW y, Changed(y, z, plan), Waiting(y), Fits(y),
         NEW r, r = Poll(y)
  PROVE  Pushed(r, z, plan, us, tl) /\ Len(r.d.groups) <= Len(y.groups)
  <1>1. Reassembly(y, plan) /\ InLine(y, plan, us, tl)
    BY ChangedKeeps
  <1>2. /\ r \in Results(plan) /\ Selected(r.d, y)
        /\ Reassembly(r.d, plan) /\ Fits(r.d) /\ InLine(r.d, plan, us \o r.out, tl)
        /\ Len(r.d.groups) <= Len(y.groups)
    BY <1>1, PollKeeps
  <1>3. Selected(r.d, z)
    BY <1>2 DEF Changed, Selected
  <1> QED BY <1>2, <1>3 DEF Pushed

\* push_selected keeps what is sound so.
LEMMA PushKeeps ==
  ASSUME NEW plan \in Plans, NEW z, Reassembly(z, plan), Fits(z), NEW us \in Seq(Units), NEW tl,
         InLine(z, plan, us, tl), NEW p \in Sent(plan), p.src \in z.sources, NEW victim,
         Len(z.groups) < MAX_GROUPS \/ victim \in 1..Len(z.groups),
         NEW r, r = PushSelected(z, p, victim)
  PROVE  Pushed(r, z, plan, us, tl) /\ Len(r.d.groups) <= Len(z.groups) + 1
  <1> DEFINE e == [z EXCEPT !.begun = TRUE]
  <1>1. /\ Changed(e, z, plan) /\ e.groups = z.groups
        /\ Reassembly(e, plan) /\ Fits(e) /\ Pending(e) = Pending(z)
    <2>1. e = [z EXCEPT !.begun = TRUE]
      OBVIOUS
    <2> HIDE DEF e
    <2> QED BY <2>1, BegunIs
  <1>2. r = IF Pending(z) + 1 > MAX_PENDING_BYTES THEN Poll(RecordLoss(e))
            ELSE Poll(DropOversized(Insert(MakeRoom(e, p, victim), p), p))
    BY DEF PushSelected
  <1> HIDE DEF e
  <1>3. Len(z.groups) \in Nat /\ Pending(z) \in Nat
    BY Known, PendingType
  <1>4. CASE Pending(z) + 1 > MAX_PENDING_BYTES
    <2> DEFINE y == RecordLoss(e)
    <2>1. e \in Depacketizers(plan) /\ Waiting(e)
      BY <1>1 DEF Reassembly
    <2>2. /\ y \in Depacketizers(plan) /\ Selected(y, e)
          /\ y.lastTs = e.lastTs /\ y.groups = e.groups
      BY <2>1, WithLoss
    <2> HIDE DEF y
    <2>3. Changed(y, e, plan) /\ y.sources = e.sources
      BY <2>2 DEF Changed, Selected
    <2>4. Changed(y, z, plan)
      BY <1>1, <2>3, ChangedTwice
    <2>5. Waiting(y) /\ Fits(y)
      BY <1>1, <2>1, <2>2, <2>3, SameGroups
    <2>6. r = Poll(y)
      BY <1>2, <1>4 DEF y
    <2>7. Pushed(r, z, plan, us, tl) /\ Len(r.d.groups) <= Len(y.groups)
      BY <2>4, <2>5, <2>6, PollChanged
    <2>8. Len(r.d.groups) \in Nat
      BY <2>7, Known DEF Pushed
    <2> QED BY <1>1, <1>3, <2>2, <2>7, <2>8
  <1>5. CASE ~(Pending(z) + 1 > MAX_PENDING_BYTES)
    <2> DEFINE m == MakeRoom(e, p, victim)
               x == Insert(m, p)
               y == DropOversized(x, p)
    <2>1. r = Poll(y)
      BY <1>2, <1>5
    <2>2. /\ Changed(m, e, plan) /\ Reassembly(m, plan) /\ Fits(m)
          /\ GroupOf(m, p) = {} => Len(m.groups) < MAX_GROUPS
          /\ Pending(m) <= Pending(e) /\ Len(m.groups) <= Len(e.groups)
      <3>1. Len(e.groups) < MAX_GROUPS \/ victim \in 1..Len(e.groups)
        BY <1>1
      <3> QED BY <1>1, <3>1, RoomIs
    <2>3. p.src \in m.sources
      BY <1>1, <2>2 DEF Changed, Selected
    <2>4. Pending(m) + 1 <= MAX_PENDING_BYTES
      <3>1. Pending(m) \in Nat
        BY <2>2, Known, PendingType
      <3>2. MAX_PENDING_BYTES \in Nat
        BY DepacketizerAssumption
      <3> QED BY <1>1, <1>3, <1>5, <2>2, <3>1, <3>2
    <2> HIDE DEF m
    <2>5. Inserted(x, m, p, plan)
      BY <2>2, <2>3, <2>4, InsertNew, InsertMore
    <2> HIDE DEF x
    <2>6. /\ Changed(y, m, plan) /\ Waiting(y) /\ Fits(y)
          /\ Len(y.groups) <= Len(m.groups) + 1
      BY <2>2, <2>5, OversizedIs
    <2> HIDE DEF y
    <2>7. Changed(y, z, plan)
      BY <1>1, <2>2, <2>6, ChangedTwice
    <2>8. Pushed(r, z, plan, us, tl) /\ Len(r.d.groups) <= Len(y.groups)
      BY <2>1, <2>6, <2>7, PollChanged
    <2>9. Reassembly(y, plan)
      BY <2>6, <2>7, ChangedKeeps
    <2>10. Len(y.groups) \in Nat /\ Len(m.groups) \in Nat /\ Len(r.d.groups) \in Nat
      BY <2>2, <2>8, <2>9, Known DEF Pushed
    <2>11. Len(r.d.groups) <= Len(z.groups) + 1
      BY ONLY <1>1, <1>3, <2>2, <2>6, <2>8, <2>10, SMTT(30)
    <2> QED BY ONLY <2>8, <2>11
  <1> QED BY <1>4, <1>5

-----------------------------------------------------------------------------
(* push *)

\* The packets kept of a source are taken.
Emptied(w, s) == [w EXCEPT !.prefix[s] = <<>>]

\* Replay keeps what is sound so: it pushes one packet, or few into an empty queue.
LEMMA ReplayKeeps ==
  ASSUME NEW plan \in Plans, NEW w, NEW p \in Sent(plan), NEW victim,
         NEW kept \in Seq(Sent(plan)), kept = w.prefix[p.src], \A i \in 1..Len(kept) : kept[i].src = p.src,
         NEW z, z = Emptied(w, p.src),
         Reassembly(z, plan), Fits(z), p.src \in z.sources,
         NEW us \in Seq(Units), NEW tl, InLine(z, plan, us, tl),
         \/ kept = <<>> /\ (Len(z.groups) < MAX_GROUPS \/ victim \in 1..Len(z.groups))
         \/ Len(kept) <= CANDIDATE /\ z.groups = <<>>,
         NEW r, r = Replay(w, p, victim)
  PROVE  Pushed(r, z, plan, us, tl)
  <1> DEFINE start == [d |-> z, out |-> <<>>, stopped |-> FALSE]
             qs == Append(kept, p)
             N == Len(qs)
             first == kept = <<>> /\ (Len(z.groups) < MAX_GROUPS \/ victim \in 1..Len(z.groups))
             few == Len(kept) <= CANDIDATE /\ z.groups = <<>>
  <1>1. r = ReplaySteps(start, qs, victim)
    BY DEF Replay, ReplaySteps, ReplayStep, Emptied
  <1>2. Len(kept) \in Nat
    OBVIOUS
  <1>3. /\ qs \in Seq(Sent(plan)) /\ N = Len(kept) + 1 /\ qs[Len(kept) + 1] = p
        /\ \A i \in 1..Len(kept) : qs[i] = kept[i]
    BY AppendProperties
  <1> HIDE DEF qs, N
  <1>4. N \in Nat /\ DOMAIN qs = 1..N
    BY <1>2, <1>3 DEF N
  <1>5. \A i \in 1..N : qs[i] \in Sent(plan) /\ qs[i].src = p.src
    <2> SUFFICES ASSUME NEW i \in 1..N PROVE qs[i] \in Sent(plan) /\ qs[i].src = p.src
      OBVIOUS
    <2>1. qs[i] \in Sent(plan)
      BY <1>3, ElementOfSeq DEF N
    <2>2. i \in 1..Len(kept) \/ i = Len(kept) + 1
      BY <1>2, <1>3
    <2> QED BY <1>3, <2>1, <2>2
  <1>6. z \in Depacketizers(plan) /\ Len(z.groups) \in Nat
    BY Known
  <1>7. Pushed(start, z, plan, us, tl)
    <2>1. us \o <<>> = us
      BY ConcatEmptySeq
    <2>2. start \in Results(plan)
      BY <1>6 DEF Results
    <2>3. start.d = z /\ start.out = <<>>
      OBVIOUS
    <2> HIDE DEF start
    <2> QED BY <2>1, <2>2, <2>3 DEF Pushed, Selected
  <1>8. start.d = z
    OBVIOUS
  <1> HIDE DEF start
  <1>9. PICK f : ReplaysTo(f, start, qs, N, victim)
    BY <1>4, ReplayFold
  <1>10. f[0] = start /\ f[N] = r /\ \A k \in 1..N : f[k] = ReplayStep(f[k - 1], qs[k], victim)
    BY <1>1, <1>9 DEF ReplaysTo
  <1> DEFINE Good(k) == Pushed(f[k], z, plan, us, tl) /\ Len(f[k].d.groups) <= Len(z.groups) + k
             S == {k \in Nat : k <= N => Good(k)}
  <1>11. 0 \in S
    <2>1. f[0] = start /\ f[0].d = z
      BY <1>8, <1>10
    <2>2. Len(f[0].d.groups) <= Len(z.groups) + 0
      BY <1>6, <2>1
    <2>3. Good(0)
      BY <1>7, <2>1, <2>2
    <2> HIDE DEF Good
    <2> QED BY <2>3
  <1>12. ASSUME NEW k \in Nat, k \in S PROVE k + 1 \in S
    <2> SUFFICES ASSUME k + 1 <= N PROVE Good(k + 1)
      <3> HIDE DEF Good
      <3> QED OBVIOUS
    <2>1. k + 1 \in 1..N /\ (k + 1) - 1 = k /\ k <= N /\ k <= Len(kept)
      BY <1>2, <1>3, <1>4
    <2> DEFINE x == f[k]
               q == qs[k + 1]
               y == PushSelected(x.d, q, victim)
               more == us \o x.out
               next == f[k + 1]
    <2>2. Pushed(x, z, plan, us, tl) /\ Len(x.d.groups) <= Len(z.groups) + k
      BY <1>12, <2>1
    <2>3. next = [y EXCEPT !.out = x.out \o y.out]
      BY <1>10, <2>1 DEF ReplayStep
    <2>4. q \in Sent(plan) /\ q.src \in z.sources
      BY <1>5, <2>1
    <2>5. f[0].d = z
      BY <1>8, <1>10
    <2> HIDE DEF x, q, next
    <2>6. /\ x \in Results(plan) /\ Selected(x.d, z) /\ Reassembly(x.d, plan) /\ Fits(x.d)
          /\ InLine(x.d, plan, more, tl) /\ x.out \in Seq(Units)
      BY <2>2 DEF Pushed, Results
    <2>7. more \in Seq(Units)
      BY <2>6, ConcatProperties
    <2>8. Len(x.d.groups) \in Nat
      BY <2>6, Known
    <2>9. Len(x.d.groups) < MAX_GROUPS \/ victim \in 1..Len(x.d.groups)
      <3>1. CASE first
        <4>1. k = 0
          BY <2>1, <3>1
        <4>2. x.d = z
          BY <2>5, <4>1 DEF x
        <4> QED BY <3>1, <4>2
      <3>2. CASE few
        <4>1. CANDIDATE \in Nat /\ MAX_GROUPS \in Nat /\ CANDIDATE < MAX_GROUPS
          BY DepacketizerAssumption
        <4>2. Len(z.groups) = 0
          BY <3>2
        <4>3. Len(x.d.groups) <= k /\ k <= CANDIDATE
          BY <1>2, <2>1, <2>2, <2>8, <3>2, <4>1, <4>2
        <4> QED BY <2>8, <4>1, <4>3
      <3> QED BY <3>1, <3>2
    <2>10. q.src \in x.d.sources
      BY <2>4, <2>6 DEF Selected
    <2> HIDE DEF more
    <2>11. Pushed(y, x.d, plan, more, tl) /\ Len(y.d.groups) <= Len(x.d.groups) + 1
      <3>1. y = PushSelected(x.d, q, victim)
        OBVIOUS
      <3> HIDE DEF y
      <3> QED BY <2>4, <2>6, <2>7, <2>9, <2>10, <3>1, PushKeeps
    <2> HIDE DEF y
    <2>12. /\ y \in Results(plan) /\ Selected(y.d, x.d) /\ Reassembly(y.d, plan) /\ Fits(y.d)
           /\ InLine(y.d, plan, more \o y.out, tl) /\ y.out \in Seq(Units)
      BY <2>11 DEF Pushed, Results
    <2>13. (us \o x.out) \o y.out = us \o (x.out \o y.out) /\ x.out \o y.out \in Seq(Units)
      <3> DEFINE a == x.out
                 b == y.out
      <3>1. a \in Seq(Units) /\ b \in Seq(Units) /\ us \in Seq(Units)
        BY <2>6, <2>12
      <3> HIDE DEF a, b
      <3>2. (us \o a) \o b = us \o (a \o b)
        BY ONLY <3>1, ConcatAssociative
      <3>3. a \o b \in Seq(Units)
        BY ONLY <3>1
      <3> QED BY <3>2, <3>3 DEF a, b
    <2>14. next \in Results(plan) /\ next.d = y.d /\ next.out = x.out \o y.out
      BY <2>3, <2>12, <2>13 DEF Results
    <2>15. Selected(next.d, z)
      BY <2>6, <2>12, <2>14 DEF Selected
    <2>16. InLine(next.d, plan, us \o next.out, tl)
      BY <2>12, <2>13, <2>14 DEF more
    <2>17. Pushed(next, z, plan, us, tl)
      BY <2>12, <2>14, <2>15, <2>16 DEF Pushed
    <2>18. Len(next.d.groups) <= Len(z.groups) + (k + 1)
      <3>1. Len(y.d.groups) \in Nat
        BY <2>12, Known
      <3>2. Len(y.d.groups) <= Len(z.groups) + (k + 1)
        <4> DEFINE a == Len(y.d.groups)
                   b == Len(x.d.groups)
                   c == Len(z.groups)
        <4>1. a \in Nat /\ b \in Nat /\ c \in Nat /\ a <= b + 1 /\ b <= c + k /\ k \in Nat
          BY <1>6, <2>2, <2>8, <2>11, <3>1
        <4> HIDE DEF a, b, c
        <4>2. a <= c + (k + 1)
          BY ONLY <4>1
        <4> QED BY <4>2 DEF a, c
      <3> QED BY <2>14, <3>2
    <2> QED BY <2>17, <2>18 DEF next
  <1>13. N \in S
    <2> HIDE DEF S
    <2> QED BY <1>4, <1>11, <1>12, Induct
  <1> QED BY <1>4, <1>10, <1>13

\* The groups and the last timestamps are as they were; the selection has not shrunk.
LEMMA SelectionKeeps ==
  ASSUME NEW plan \in Plans, NEW z, Reassembly(z, plan), NEW y \in Depacketizers(plan),
         y.tiles = z.tiles, y.generation = z.generation, y.lastTs = z.lastTs,
         y.groups = z.groups, z.sources \subseteq y.sources, IsFiniteSet(y.sources),
         Cardinality(y.sources) <= y.tiles, Candidates(y)
  PROVE  /\ Reassembly(y, plan) /\ (Fits(z) => Fits(y))
         /\ \A us, tl : InLine(z, plan, us, tl) => InLine(y, plan, us, tl)
  <1>1. Waiting(y) /\ (Fits(z) => Fits(y))
    BY DEF Reassembly, Waiting, Fits, Pending, Ordered
  <1>2. \A s \in Sources, n \in Nat \cup {0} : Reached(z, plan, s, n) <=> Reached(y, plan, s, n)
    BY DEF Reached
  <1>3. Reassembly(y, plan)
    BY <1>1, <1>2 DEF Reassembly
  <1>4. ASSUME NEW us, NEW tl, InLine(z, plan, us, tl) PROVE InLine(y, plan, us, tl)
    BY <1>2, <1>4, StillInLine
  <1> QED BY <1>1, <1>3, <1>4

\* The oldest group is the first, so there is a victim if there are groups.
LEMMA VictimIs ==
  ASSUME NEW plan \in Plans, NEW z, Reassembly(z, plan),
         NEW victim \in Victims(z) \cup {0}, victim = 0 <=> Victims(z) = {}
  PROVE  Len(z.groups) < MAX_GROUPS \/ victim \in 1..Len(z.groups)
  <1> DEFINE n == Len(z.groups)
  <1>1. n \in Nat /\ DOMAIN z.groups = 1..n /\ \A i \in 1..n : z.groups[i].age \in Nat
    BY Known
  <1>2. CASE n = 0
    BY <1>2, DepacketizerAssumption
  <1>3. CASE n # 0
    <2>1. \A i \in 1..n : \A j \in 1..i - 1 : z.groups[j].age >= z.groups[i].age
      BY DEF Reassembly, Waiting, Ordered
    <2>2. 1 \in 1..n /\ \A i \in 1..n : i = 1 \/ 1 \in 1..i - 1
      BY <1>1, <1>3
    <2>3. \A i \in 1..n : z.groups[i].age <= z.groups[1].age
      BY <1>1, <2>1, <2>2
    <2>4. 1 \in Victims(z)
      BY <1>1, <2>2, <2>3 DEF Victims
    <2>5. victim \in Victims(z)
      BY <2>4
    <2> QED BY <1>1, <2>5 DEF Victims
  <1> QED BY <1>2, <1>3

\* A packet is counted.
LEMMA ObserveIs ==
  ASSUME NEW plan \in Plans, NEW z, Reassembly(z, plan), NEW p, p.src \in Sources,
         NEW o, o = Observe(z, p)
  PROVE  /\ o \in Depacketizers(plan) /\ Selected(o, z) /\ o.lastTs = z.lastTs
         /\ o.groups = z.groups
  <1> DEFINE count == [z.packets EXCEPT ![p.src] = Upto(ADOPT, z.packets[p.src] + 1)]
             quiet == [z.silent EXCEPT ![p.src] = 0]
  <1>1. z \in Depacketizers(plan) /\ ADOPT \in Nat
    BY DepacketizerAssumption DEF Reassembly
  <1>2. count \in [Sources -> Nat] /\ quiet \in [Sources -> Nat]
    <2>1. z.packets \in [Sources -> Nat] /\ z.silent \in [Sources -> Nat]
      BY <1>1 DEF Depacketizers
    <2>2. Upto(ADOPT, z.packets[p.src] + 1) \in Nat
      BY <1>1, <2>1 DEF Upto
    <2> QED BY <2>1, <2>2
  <1>3. o = [z EXCEPT !.packets = count, !.silent = quiet]
    BY DEF Observe
  <1> HIDE DEF count, quiet
  <1> QED BY <1>1, <1>2, <1>3 DEF Depacketizers, Selected

\* The packets kept of a source are all that is taken.
LEMMA EmptiedIs ==
  ASSUME NEW plan, NEW w \in Depacketizers(plan), NEW s \in Sources, NEW z, z = Emptied(w, s)
  PROVE  /\ z \in Depacketizers(plan)
         /\ z.tiles = w.tiles /\ z.sources = w.sources /\ z.groups = w.groups
         /\ z.lastTs = w.lastTs /\ z.generation = w.generation
         /\ z.prefix[s] = <<>> /\ \A t \in Sources \ {s} : z.prefix[t] = w.prefix[t]
  <1> DEFINE q == Seq(Sent(plan))
             rest == [w.prefix EXCEPT ![s] = <<>>]
  <1>1. w.prefix \in [Sources -> q] /\ <<>> \in q
    BY DEF Depacketizers
  <1> HIDE DEF q
  <1>2. rest \in [Sources -> q] /\ rest[s] = <<>> /\ \A t \in Sources \ {s} : rest[t] = w.prefix[t]
    BY <1>1
  <1>3. z = [w EXCEPT !.prefix = rest]
    BY DEF Emptied
  <1> HIDE DEF rest
  <1> QED BY <1>2, <1>3 DEF Depacketizers, q

\* What push keeps: the generations of sources only go on.
Received(r, z, plan, us, tl) ==
  /\ r \in Results(plan) /\ r.d.tiles = z.tiles /\ z.generation <= r.d.generation
  /\ Reassembly(r.d, plan) /\ Fits(r.d) /\ InLine(r.d, plan, us \o r.out, tl)

\* What Replay keeps is more than push needs to.
LEMMA ReceivedIs ==
  ASSUME NEW plan \in Plans, NEW x, NEW z, NEW us, NEW tl, NEW r, Pushed(r, x, plan, us, tl),
         x.tiles = z.tiles, x.generation \in Nat, z.generation \in Nat, z.generation <= x.generation
  PROVE  Received(r, z, plan, us, tl)
  BY DEF Pushed, Received, Selected

\* A packet of a source selected, or one that there is room for.
LEMMA PushSelect ==
  ASSUME NEW plan \in Plans, NEW z, Reassembly(z, plan), Fits(z), NEW us \in Seq(Units), NEW tl,
         InLine(z, plan, us, tl), NEW p \in Sent(plan), NEW victim,
         Len(z.groups) < MAX_GROUPS \/ victim \in 1..Len(z.groups),
         p.src \in z.sources \/ Cardinality(z.sources) < z.tiles,
         NEW w \in Depacketizers(plan), w.tiles = z.tiles, w.generation = z.generation,
         w.prefix = z.prefix, w.lastTs = z.lastTs, w.groups = z.groups,
         w.sources = z.sources \cup {p.src},
         NEW r, r = Replay(w, p, victim)
  PROVE  Received(r, z, plan, us, tl)
  <1> DEFINE s == p.src
             x == Emptied(w, s)
             kept == w.prefix[s]
  <1>1. s \in Sources
    BY PacketIs
  <1>2. /\ z \in Depacketizers(plan) /\ z.tiles \in Nat /\ z.generation \in Nat
        /\ z.sources \subseteq Sources /\ IsFiniteSet(z.sources)
        /\ Cardinality(z.sources) <= z.tiles /\ Candidates(z)
    BY Known DEF Reassembly
  <1>3. Cardinality(z.sources) \in Nat /\ (z.sources = {} <=> Cardinality(z.sources) = 0)
    BY <1>2, FS_CardinalityType, FS_EmptySet
  <1>4. IsFiniteSet(w.sources) /\ Cardinality(w.sources) <= w.tiles
    <2>1. CASE s \in z.sources
      BY <1>2, <2>1
    <2>2. CASE s \notin z.sources
      <3>1. IsFiniteSet(w.sources) /\ Cardinality(w.sources) = Cardinality(z.sources) + 1
        BY <1>2, <2>2, FS_AddElement
      <3> QED BY <1>2, <1>3, <2>2, <3>1
    <2> QED BY <2>1, <2>2
  <1>5. kept = <<>>
    <2>1. kept # <<>> => z.tiles = 1 /\ z.sources # {} /\ s \notin z.sources
      BY <1>1, <1>2 DEF Candidates
    <2> QED BY <1>3, <2>1
  <1>6. /\ x \in Depacketizers(plan)
        /\ x.tiles = w.tiles /\ x.sources = w.sources /\ x.groups = w.groups
        /\ x.lastTs = w.lastTs /\ x.generation = w.generation
        /\ x.prefix[s] = <<>> /\ \A t \in Sources \ {s} : x.prefix[t] = w.prefix[t]
    BY <1>1, EmptiedIs
  <1> HIDE DEF x
  <1>7. Candidates(x)
    <2> SUFFICES ASSUME NEW t \in Sources
                 PROVE  /\ Len(x.prefix[t]) <= CANDIDATE
                        /\ \A i \in 1..Len(x.prefix[t]) : x.prefix[t][i].src = t
                        /\ x.prefix[t] # <<>> => x.tiles = 1 /\ x.sources # {} /\ t \notin x.sources
      BY DEF Candidates
    <2>1. x.prefix[t] = z.prefix[t]
      BY <1>5, <1>6
    <2>2. /\ Len(z.prefix[t]) <= CANDIDATE
          /\ \A i \in 1..Len(z.prefix[t]) : z.prefix[t][i].src = t
          /\ z.prefix[t] # <<>> => z.tiles = 1 /\ z.sources # {} /\ t \notin z.sources
      BY <1>2 DEF Candidates
    <2>3. z.prefix[t] # <<>> => t \notin x.sources
      BY <1>3, <1>5, <1>6, <2>2
    <2> QED BY <1>6, <2>1, <2>2, <2>3
  <1>8. Reassembly(x, plan) /\ Fits(x) /\ InLine(x, plan, us, tl)
    BY <1>4, <1>6, <1>7, SelectionKeeps
  <1>9. Pushed(r, x, plan, us, tl)
    <2>1. x = Emptied(w, p.src) /\ p.src \in x.sources
      BY <1>6 DEF x
    <2>2. <<>> \in Seq(Sent(plan)) /\ Len(<<>>) = 0
      OBVIOUS
    <2>3. Len(x.groups) < MAX_GROUPS \/ victim \in 1..Len(x.groups)
      BY <1>6
    <2>4. kept \in Seq(Sent(plan)) /\ \A i \in 1..Len(kept) : kept[i].src = p.src
      BY <1>5
    <2>5. kept = w.prefix[p.src]
      OBVIOUS
    <2> HIDE DEF kept
    <2> QED BY <1>5, <1>8, <2>1, <2>3, <2>4, <2>5, ReplayKeeps
  <1>10. x.tiles = z.tiles /\ x.generation = z.generation
    BY <1>6
  <1> QED BY <1>2, <1>9, <1>10, ReceivedIs

\* Another source takes over.
LEMMA PushReplaces ==
  ASSUME NEW plan \in Plans, NEW z, Reassembly(z, plan), Fits(z), NEW us \in Seq(Units), NEW tl,
         InLine(z, plan, us, tl), NEW p \in Sent(plan), NEW victim,
         z.tiles = 1, NEW h, h = Handoff(z),
         NEW w, w = [h EXCEPT !.sources = {p.src}],
         NEW r, r = Replay(w, p, victim)
  PROVE  Received(r, z, plan, us, tl)
  <1> DEFINE s == p.src
             x == Emptied(w, s)
             kept == w.prefix[s]
  <1>1. s \in Sources
    BY PacketIs
  <1>2. /\ z \in Depacketizers(plan) /\ z.generation \in Nat /\ Candidates(z)
        /\ z.tiles \in TileCounts
    BY Known DEF Reassembly
  <1>3. /\ w \in Depacketizers(plan) /\ w.tiles = 1 /\ w.sources = {s} /\ w.groups = <<>>
        /\ w.generation = z.generation + 1 /\ w.lastTs = [t \in Sources |-> NoTs]
        /\ w.prefix = z.prefix
    <2> DEFINE none == [t \in Sources |-> NoTs]
    <2>1. /\ none \in [Sources -> Nat \cup {NoTs}] /\ <<>> \in Seq(Groups(plan))
          /\ z.generation + 1 \in Nat /\ {s} \in SUBSET Sources
      BY <1>1, <1>2
    <2>2. h = [z EXCEPT !.generation = z.generation + 1, !.sources = {}, !.groups = <<>>,
                        !.haveKey = FALSE, !.lastTs = none]
      BY DEF Handoff
    <2>3. w = [z EXCEPT !.generation = z.generation + 1, !.sources = {s}, !.groups = <<>>,
                        !.haveKey = FALSE, !.lastTs = none]
      BY <1>2, <2>2 DEF Depacketizers
    <2> HIDE DEF none
    <2>4. w \in Depacketizers(plan)
      <3> DEFINE v == [z EXCEPT !.generation = z.generation + 1, !.groups = <<>>, !.lastTs = none]
      <3>1. v \in Depacketizers(plan)
        BY ONLY <1>2, <2>1 DEF Depacketizers
      <3>2. w = [v EXCEPT !.sources = {s}, !.haveKey = FALSE]
        BY ONLY <1>2, <2>3 DEF Depacketizers
      <3> HIDE DEF v
      <3> QED BY ONLY <2>1, <3>1, <3>2 DEF Depacketizers
    <2> QED BY <1>2, <2>3, <2>4 DEF Depacketizers, none
  <1>4. /\ x \in Depacketizers(plan)
        /\ x.tiles = w.tiles /\ x.sources = w.sources /\ x.groups = w.groups
        /\ x.lastTs = w.lastTs /\ x.generation = w.generation
        /\ x.prefix[s] = <<>> /\ \A t \in Sources \ {s} : x.prefix[t] = w.prefix[t]
    <2>1. w \in Depacketizers(plan) /\ s \in Sources /\ x = Emptied(w, s)
      BY <1>1, <1>3
    <2> HIDE DEF x, s
    <2> QED BY ONLY <2>1, EmptiedIs
  <1> HIDE DEF x
  <1>5. IsFiniteSet(x.sources) /\ Cardinality(x.sources) = 1
    <2>1. x.sources = {s}
      BY <1>3, <1>4
    <2>2. IsFiniteSet({s}) /\ Cardinality({s}) = 1
      BY ONLY FS_Singleton
    <2> QED BY <2>1, <2>2
  <1>6. CANDIDATE \in Nat /\ {MAX_GROUPS, MAX_PENDING_BYTES} \subseteq Nat
    BY DepacketizerAssumption
  <1>7. Candidates(x)
    <2> SUFFICES ASSUME NEW t \in Sources
                 PROVE  /\ Len(x.prefix[t]) <= CANDIDATE
                        /\ \A i \in 1..Len(x.prefix[t]) : x.prefix[t][i].src = t
                        /\ x.prefix[t] # <<>> => x.tiles = 1 /\ x.sources # {} /\ t \notin x.sources
      BY DEF Candidates
    <2>1. CASE t = s
      BY <1>4, <1>6, <2>1
    <2>2. CASE t # s
      <3>1. x.prefix[t] = z.prefix[t] /\ t \notin x.sources /\ x.sources # {} /\ x.tiles = 1
        BY <1>3, <1>4, <2>2
      <3> QED BY <1>2, <3>1 DEF Candidates
    <2> QED BY <2>1, <2>2
  <1>8. Waiting(x) /\ Fits(x)
    <2>1. Len(x.groups) = 0 /\ 1..0 = {} /\ DOMAIN x.groups = 1..0
      BY <1>3, <1>4
    <2>2. Pending(x) = 0
      <3>1. \A i \in 1..0 : Cardinality(x.groups[i].packets) \in Nat
        BY <2>1
      <3>2. 0 \in Nat
        OBVIOUS
      <3> QED BY <2>1, <3>1, <3>2, PendingType
    <2> QED BY <1>6, <2>1, <2>2 DEF Waiting, Ordered, Fits
  <1>9. \A t \in Sources : x.lastTs[t] = NoTs
    BY <1>3, <1>4
  <1>10. Reassembly(x, plan)
    BY <1>2, <1>3, <1>4, <1>5, <1>7, <1>8, <1>9 DEF Reassembly
  <1>11. InLine(x, plan, us, tl)
    <2>1. \A i \in 1..Len(us) : us[i].tile < x.tiles /\ us[i].generation <= z.generation
      BY <1>3, <1>4 DEF InLine
    <2>2. \A i \in 1..Len(us) : us[i].generation \in Nat
      <3>1. \A i \in 1..Len(us) : us[i] \in Units
        OBVIOUS
      <3> QED BY <3>1 DEF Units
    <2>3. \A i \in 1..Len(us) : us[i].generation <= x.generation /\ us[i].generation # x.generation
      BY <1>2, <1>3, <1>4, <2>1, <2>2
    <2>4. \A i \in DOMAIN tl : tl[i].stamp[2] \in 0..x.generation /\ tl[i].stamp[2] # x.generation
      <3>1. \A i \in DOMAIN tl : tl[i].stamp[2] \in 0..z.generation
        BY DEF InLine
      <3> QED BY <1>2, <1>3, <1>4, <3>1
    <2> QED BY <2>1, <2>3, <2>4 DEF InLine
  <1>12. /\ kept \in Seq(Sent(plan)) /\ Len(kept) <= CANDIDATE
         /\ \A i \in 1..Len(kept) : kept[i].src = s
    <2>1. kept = z.prefix[s]
      BY <1>3
    <2>2. z.prefix[s] \in Seq(Sent(plan))
      BY <1>1, <1>2 DEF Depacketizers
    <2> QED BY <1>1, <1>2, <2>1, <2>2 DEF Candidates
  <1>13. Pushed(r, x, plan, us, tl)
    <2>1. x = Emptied(w, p.src) /\ p.src \in x.sources /\ x.groups = <<>>
      BY <1>3, <1>4 DEF x
    <2>2. kept = w.prefix[p.src]
      OBVIOUS
    <2> HIDE DEF kept
    <2> QED BY <1>8, <1>10, <1>11, <1>12, <2>1, <2>2, ReplayKeeps
  <1>14. x.tiles = z.tiles /\ x.generation = z.generation + 1
    BY <1>3, <1>4
  <1> QED BY <1>2, <1>13, <1>14, ReceivedIs

\* A packet of a source not selected is kept, the newest at the end.
LEMMA KeepPrefixIs ==
  ASSUME NEW plan \in Plans, NEW z, Reassembly(z, plan), NEW p \in Sent(plan),
         p.src \notin z.sources, ~(Cardinality(z.sources) < z.tiles),
         NEW y, y = KeepPrefix(z, p)
  PROVE  /\ Reassembly(y, plan) /\ (Fits(z) => Fits(y))
         /\ y.tiles = z.tiles /\ y.generation = z.generation
         /\ \A us, tl : InLine(z, plan, us, tl) => InLine(y, plan, us, tl)
  <1> DEFINE s == p.src
             k == z.prefix[s]
             j == IF Len(k) >= CANDIDATE THEN Tail(k) ELSE k
             q == Seq(Sent(plan))
             all == [z.prefix EXCEPT ![s] = Append(j, p)]
  <1>1. s \in Sources
    BY PacketIs
  <1>2. /\ z \in Depacketizers(plan) /\ z.tiles \in Nat /\ IsFiniteSet(z.sources)
        /\ Cardinality(z.sources) <= z.tiles /\ Candidates(z) /\ z.tiles \in TileCounts
    BY Known DEF Reassembly
  <1>3. CASE z.tiles # 1
    <2>1. y = z
      BY <1>3 DEF KeepPrefix
    <2> QED BY <2>1
  <1>4. CASE z.tiles = 1
    <2>1. z.sources # {}
      BY <1>4, FS_EmptySet
    <2>2. z.prefix \in [Sources -> q]
      BY <1>2 DEF Depacketizers
    <2>3. k \in q /\ Len(k) <= CANDIDATE /\ \A i \in 1..Len(k) : k[i].src = s
      BY <1>1, <1>2, <2>2 DEF Candidates
    <2>4. CANDIDATE \in Nat \ {0}
      BY DepacketizerAssumption
    <2>5. y = [z EXCEPT !.prefix = all]
      BY <1>4 DEF KeepPrefix
    <2> HIDE DEF k
    <2>6. j \in q /\ Len(j) \in Nat /\ Len(j) < CANDIDATE /\ \A i \in 1..Len(j) : j[i].src = s
      <3>1. k \in Seq(Sent(plan)) /\ Len(k) \in Nat
        BY <2>3
      <3>2. CASE Len(k) >= CANDIDATE
        <4>1. k # <<>>
          BY <2>4, <3>1, <3>2
        <4>2. /\ Tail(k) \in Seq(Sent(plan)) /\ Len(Tail(k)) = Len(k) - 1
              /\ \A i \in 1..Len(k) - 1 : Tail(k)[i] = k[i + 1]
          BY <3>1, <4>1, HeadTailProperties
        <4>3. \A i \in 1..Len(k) - 1 : i + 1 \in 1..Len(k)
          BY <3>1
        <4>4. j = Tail(k)
          BY <3>2
        <4> HIDE DEF j
        <4> QED BY <2>3, <2>4, <3>1, <4>2, <4>3, <4>4
      <3>3. CASE ~(Len(k) >= CANDIDATE)
        <4>1. j = k
          BY <3>3
        <4> HIDE DEF j
        <4> QED BY <2>3, <2>4, <3>1, <3>3, <4>1
      <3> QED BY <3>2, <3>3
    <2> HIDE DEF j
    <2>7. /\ Append(j, p) \in q /\ Len(Append(j, p)) <= CANDIDATE
          /\ \A i \in 1..Len(Append(j, p)) : Append(j, p)[i].src = s
      <3>1. j \in Seq(Sent(plan)) /\ p \in Sent(plan)
        BY <2>6
      <3>2. /\ Append(j, p) \in Seq(Sent(plan)) /\ Len(Append(j, p)) = Len(j) + 1
            /\ \A i \in 1..Len(j) : Append(j, p)[i] = j[i]
            /\ Append(j, p)[Len(j) + 1] = p
        BY <3>1, AppendProperties
      <3>3. \A i \in 1..Len(j) + 1 : i \in 1..Len(j) \/ i = Len(j) + 1
        BY <2>6
      <3>4. \A i \in 1..Len(j) + 1 : Append(j, p)[i].src = s
        BY <2>6, <3>2, <3>3
      <3> QED BY <2>4, <2>6, <3>2, <3>4
    <2> HIDE DEF q
    <2>8. /\ all \in [Sources -> q] /\ all[s] = Append(j, p)
          /\ \A t \in Sources \ {s} : all[t] = z.prefix[t]
      BY <1>1, <2>2, <2>7
    <2> HIDE DEF all
    <2>9. /\ y \in Depacketizers(plan) /\ y.tiles = z.tiles /\ y.generation = z.generation
          /\ y.lastTs = z.lastTs /\ y.groups = z.groups /\ y.sources = z.sources /\ y.prefix = all
      BY <1>2, <2>5, <2>8 DEF Depacketizers, q
    <2>10. Candidates(y)
      <3> SUFFICES ASSUME NEW t \in Sources
                   PROVE  /\ Len(all[t]) <= CANDIDATE
                          /\ \A i \in 1..Len(all[t]) : all[t][i].src = t
                          /\ all[t] # <<>> => z.tiles = 1 /\ z.sources # {} /\ t \notin z.sources
        BY <2>9 DEF Candidates
      <3>1. CASE t = s
        BY <1>4, <2>1, <2>7, <2>8, <3>1
      <3>2. CASE t # s
        BY <1>2, <2>8, <3>2 DEF Candidates
      <3> QED BY <3>1, <3>2
    <2> QED BY <1>2, <2>9, <2>10, SelectionKeeps
  <1> QED BY <1>3, <1>4

\* push keeps what is sound so.
LEMMA PushIs ==
  ASSUME NEW plan \in Plans, NEW z, Reassembly(z, plan), Fits(z), NEW us \in Seq(Units), NEW tl,
         InLine(z, plan, us, tl), NEW p \in Sent(plan), NEW victim,
         Len(z.groups) < MAX_GROUPS \/ victim \in 1..Len(z.groups),
         NEW r, r = Push(z, p, victim)
  PROVE  Received(r, z, plan, us, tl)
  <1> DEFINE o == Observe(z, p)
             select(e) == [e EXCEPT !.sources = @ \cup {p.src}]
  <1>1. p.src \in Sources
    BY PacketIs
  <1>2. o \in Depacketizers(plan) /\ Selected(o, z) /\ o.lastTs = z.lastTs /\ o.groups = z.groups
    BY <1>1, ObserveIs
  <1>3. r = IF p.src \in z.sources                      THEN Replay(o, p, victim)
            ELSE IF Cardinality(z.sources) < z.tiles    THEN Replay(select(o), p, victim)
            ELSE IF Replaces(o, p)                      THEN Replay(select(Handoff(o)), p, victim)
            ELSE Poll(KeepPrefix(o, p))
    BY DEF Push
  <1> HIDE DEF o
  <1>4. Changed(o, z, plan)
    BY <1>2 DEF Changed
  <1>5. /\ o.tiles = z.tiles /\ o.sources = z.sources /\ o.prefix = z.prefix
        /\ o.generation = z.generation
    BY <1>2 DEF Selected
  <1>6. Reassembly(o, plan) /\ Fits(o) /\ InLine(o, plan, us, tl)
    <2>1. Waiting(o) /\ Fits(o)
      BY <1>2, <1>5, SameGroups DEF Reassembly
    <2> QED BY <1>4, <2>1, ChangedKeeps
  <1>7. Len(o.groups) < MAX_GROUPS \/ victim \in 1..Len(o.groups)
    BY <1>2
  <1>8. Received(r, o, plan, us, tl) => Received(r, z, plan, us, tl)
    BY <1>5 DEF Received
  <1>9. CASE p.src \in z.sources
    <2>1. r = Replay(o, p, victim) /\ o.sources = o.sources \cup {p.src}
      BY <1>3, <1>5, <1>9
    <2>2. p.src \in o.sources
      BY <1>5, <1>9
    <2>3. Received(r, o, plan, us, tl)
      BY <1>2, <1>6, <1>7, <2>1, <2>2, PushSelect
    <2> QED BY <1>8, <2>3
  <1>10. CASE p.src \notin z.sources /\ Cardinality(z.sources) < z.tiles
    <2> DEFINE w == select(o)
    <2>1. r = Replay(w, p, victim)
      BY <1>3, <1>10
    <2>2. /\ w \in Depacketizers(plan) /\ w.tiles = o.tiles /\ w.generation = o.generation
          /\ w.prefix = o.prefix /\ w.lastTs = o.lastTs /\ w.groups = o.groups
          /\ w.sources = o.sources \cup {p.src}
      BY <1>1, <1>2 DEF Depacketizers
    <2>3. Cardinality(o.sources) < o.tiles
      BY <1>5, <1>10
    <2> HIDE DEF w
    <2>4. Received(r, o, plan, us, tl)
      BY <1>6, <1>7, <2>1, <2>2, <2>3, PushSelect
    <2> QED BY <1>8, <2>4
  <1>11. CASE /\ p.src \notin z.sources /\ ~(Cardinality(z.sources) < z.tiles)
              /\ Replaces(o, p)
    <2> DEFINE h == Handoff(o)
               w == select(h)
    <2>1. r = Replay(w, p, victim) /\ o.tiles = 1
      BY <1>3, <1>11 DEF Replaces
    <2>2. h.sources = {}
      BY <1>2 DEF Handoff, Depacketizers
    <2> HIDE DEF h
    <2>3. w = [h EXCEPT !.sources = {p.src}]
      BY <2>2
    <2> HIDE DEF w
    <2>4. h = Handoff(o)
      BY DEF h
    <2>5. Received(r, o, plan, us, tl)
      BY <1>6, <2>1, <2>3, <2>4, PushReplaces
    <2> QED BY <1>8, <2>5
  <1>12. CASE /\ p.src \notin z.sources /\ ~(Cardinality(z.sources) < z.tiles)
              /\ ~Replaces(o, p)
    <2> DEFINE y == KeepPrefix(o, p)
    <2>1. r = Poll(y)
      BY <1>3, <1>12
    <2>2. /\ Reassembly(y, plan) /\ Fits(y) /\ InLine(y, plan, us, tl)
          /\ y.tiles = o.tiles /\ y.generation = o.generation
      BY <1>5, <1>6, <1>12, KeepPrefixIs
    <2> HIDE DEF y
    <2>3. /\ r \in Results(plan) /\ Selected(r.d, y) /\ Reassembly(r.d, plan) /\ Fits(r.d)
          /\ InLine(r.d, plan, us \o r.out, tl)
      BY <2>1, <2>2, PollKeeps
    <2>4. o.generation \in Nat
      BY <1>6, Known
    <2>5. Received(r, o, plan, us, tl)
      BY <2>2, <2>3, <2>4 DEF Received, Selected
    <2> QED BY <1>8, <2>5
  <1> QED BY <1>9, <1>10, <1>11, <1>12

-----------------------------------------------------------------------------
(* Time, and a new start *)

\* A group that is a millisecond older.
LEMMA OlderGroupIs ==
  ASSUME NEW plan, NEW g \in Groups(plan), NEW h, h = OlderGroup(g)
  PROVE  /\ h \in Groups(plan) /\ h.src = g.src /\ h.ts = g.ts /\ h.packets = g.packets
         /\ h.age = Upto(AGE, g.age + 1)
  <1>1. {AGE, IDLE, HOLD} \subseteq Nat
    BY DepacketizerAssumption
  <1>2. g.age \in Nat /\ g.idle \in Nat /\ g.held \in Nat
    BY DEF Groups
  <1>3. /\ Upto(AGE, g.age + 1) \in Nat /\ Upto(IDLE, g.idle + 1) \in Nat
        /\ Upto(HOLD, g.held + 1) \in Nat /\ 0 \in Nat
    BY <1>1, <1>2 DEF Upto
  <1> QED BY <1>3 DEF Groups, OlderGroup

\* Nothing but the times changes while time goes by.
LEMMA OlderKeeps ==
  ASSUME NEW plan \in Plans, NEW z, Reassembly(z, plan), Fits(z), NEW y, y = Older(z)
  PROVE  /\ Reassembly(y, plan) /\ Fits(y) /\ y.tiles = z.tiles /\ y.generation = z.generation
         /\ \A us, tl : InLine(z, plan, us, tl) => InLine(y, plan, us, tl)
  <1> DEFINE n == Len(z.groups)
             since == IF z.begun THEN Upto(DISCOVERY, z.since + 1) ELSE 0
             quiet == [s \in Sources |-> Upto(QUIET, z.silent[s] + 1)]
             gs == [i \in DOMAIN z.groups |-> OlderGroup(z.groups[i])]
  <1>1. /\ z \in Depacketizers(plan) /\ n \in Nat /\ DOMAIN z.groups = 1..n
        /\ \A i \in 1..n : /\ z.groups[i] \in Groups(plan) /\ z.groups[i].age \in Nat
                           /\ Cardinality(z.groups[i].packets) \in Nat
    BY Known
  <1>2. {DISCOVERY, QUIET, AGE} \subseteq Nat
    BY DepacketizerAssumption
  <1>3. since \in Nat
    BY <1>1, <1>2 DEF Depacketizers, Upto
  <1>4. quiet \in [Sources -> Nat]
    <2>1. z.silent \in [Sources -> Nat]
      BY <1>1 DEF Depacketizers
    <2> QED BY <1>2, <2>1 DEF Upto
  <1>5. \A i \in 1..n : /\ gs[i] \in Groups(plan) /\ gs[i].src = z.groups[i].src
                        /\ gs[i].ts = z.groups[i].ts /\ gs[i].packets = z.groups[i].packets
                        /\ gs[i].age = Upto(AGE, z.groups[i].age + 1)
    BY <1>1, OlderGroupIs
  <1>6. gs \in Seq(Groups(plan)) /\ Len(gs) = n /\ DOMAIN gs = 1..n
    <2>1. gs \in [1..n -> Groups(plan)]
      BY <1>1, <1>5
    <2> HIDE DEF gs
    <2> QED BY <1>1, <2>1
  <1>7. y = [z EXCEPT !.since = since, !.silent = quiet, !.groups = gs]
    BY DEF Older
  <1> HIDE DEF since, quiet, gs, n
  <1>8. y \in Depacketizers(plan) /\ Selected(y, z) /\ y.lastTs = z.lastTs /\ y.groups = gs
    BY <1>1, <1>3, <1>4, <1>6, <1>7 DEF Depacketizers, Selected
  <1>9. Changed(y, z, plan) /\ y.sources = z.sources /\ y.tiles = z.tiles /\ y.generation = z.generation
    BY <1>8 DEF Changed, Selected
  <1>10. Pending(y) <= Pending(z)
    <2>1. DOMAIN y.groups = 1..n /\ 0 \in Nat
      BY <1>6, <1>8
    <2>2. /\ \A k \in 1..n : Cardinality(z.groups[k].packets) \in Nat
          /\ \A k \in 1..n : Cardinality(y.groups[k].packets) \in Nat
          /\ \A k \in 1..n : Cardinality(y.groups[k].packets)
                               <= Cardinality(z.groups[k].packets) + IF k = 0 THEN 0 ELSE 0
      BY <1>1, <1>5, <1>8
    <2>3. Pending(y) <= Pending(z) + 0
      BY ONLY <1>1, <2>1, <2>2, PendingGrown
    <2>4. Pending(z) \in Nat
      BY <1>1, PendingType
    <2> QED BY <2>3, <2>4
  <1>11. Waiting(y) /\ Fits(y)
    <2>1. /\ n <= MAX_GROUPS /\ Pending(z) <= MAX_PENDING_BYTES /\ Ordered(z.groups)
          /\ \A i \in 1..n : /\ OnePicture(z.groups[i]) /\ z.groups[i].src \in z.sources
                             /\ Cardinality(z.groups[i].packets) <= MAX_GROUP_BYTES
      BY DEF Reassembly, Waiting, Fits, n
    <2>2. Pending(y) <= MAX_PENDING_BYTES
      <3>1. Pending(y) \in Nat /\ Pending(z) \in Nat /\ MAX_PENDING_BYTES \in Nat
        <4>1. Pending(z) \in Nat
          BY <1>1, PendingType
        <4>2. Pending(y) \in Nat
          BY ONLY <1>1, <1>5, <1>6, <1>8, PendingType
        <4> QED BY <4>1, <4>2, DepacketizerAssumption
      <3> QED BY <1>10, <2>1, <3>1
    <2>3. \A i \in 1..n : /\ OnePicture(gs[i]) /\ gs[i].src \in y.sources
                          /\ Cardinality(gs[i].packets) <= MAX_GROUP_BYTES
      BY <1>5, <1>9, <2>1 DEF OnePicture
    <2>4. Ordered(gs)
      <3> SUFFICES ASSUME NEW k \in 1..n, NEW j \in 1..k - 1
                   PROVE  /\ gs[j].src # gs[k].src \/ gs[j].ts # gs[k].ts
                          /\ gs[j].age >= gs[k].age
        BY <1>6 DEF Ordered
      <3>1. j \in 1..n
        BY <1>1
      <3>2. /\ z.groups[j].src # z.groups[k].src \/ z.groups[j].ts # z.groups[k].ts
            /\ z.groups[j].age >= z.groups[k].age
        BY <2>1 DEF Ordered, n
      <3>3. z.groups[j].age \in Nat /\ z.groups[k].age \in Nat
        BY <1>1, <3>1
      <3> QED BY <1>2, <1>5, <3>1, <3>2, <3>3 DEF Upto
    <2> QED BY <1>6, <1>8, <2>1, <2>2, <2>3, <2>4 DEF Waiting, Fits
  <1> QED BY <1>9, <1>11, ChangedKeeps

\* A new depacketizer.
LEMMA NewIs ==
  ASSUME NEW plan \in Plans, NEW t \in TileCounts, NEW z, z = New(t)
  PROVE  /\ Reassembly(z, plan) /\ Fits(z) /\ z.tiles = t /\ z.generation = 0
         /\ InLine(z, plan, <<>>, <<>>)
  <1>1. t \in Nat \ {0}
    BY PlansAssumption
  <1>2. {MAX_GROUPS, MAX_PENDING_BYTES, CANDIDATE} \subseteq Nat
    BY DepacketizerAssumption
  <1>3. z \in Depacketizers(plan)
    <2>1. <<>> \in Seq(Groups(plan)) /\ <<>> \in Seq(Sent(plan))
      OBVIOUS
    <2> QED BY <1>1, <2>1 DEF New, Depacketizers
  <1>4. /\ z.tiles = t /\ z.sources = {} /\ z.groups = <<>> /\ z.generation = 0
        /\ \A s \in Sources : z.lastTs[s] = NoTs /\ z.prefix[s] = <<>>
    BY DEF New
  <1>5. Waiting(z) /\ Fits(z)
    <2>1. Len(z.groups) = 0 /\ 1..0 = {} /\ DOMAIN z.groups = 1..0
      BY <1>4
    <2>2. Pending(z) = 0
      <3>1. \A i \in 1..0 : Cardinality(z.groups[i].packets) \in Nat
        BY <2>1
      <3>2. 0 \in Nat
        OBVIOUS
      <3> QED BY <2>1, <3>1, <3>2, PendingType
    <2> QED BY <1>2, <2>1, <2>2 DEF Waiting, Ordered, Fits
  <1>6. Candidates(z)
    BY <1>2, <1>4 DEF Candidates
  <1>7. IsFiniteSet(z.sources) /\ Cardinality(z.sources) <= z.tiles
    BY <1>1, <1>4, FS_EmptySet
  <1>8. Reassembly(z, plan)
    BY <1>3, <1>4, <1>5, <1>6, <1>7 DEF Reassembly
  <1>9. InLine(z, plan, <<>>, <<>>)
    <2>1. <<>> \in Seq(Units) /\ Len(<<>>) = 0 /\ DOMAIN <<>> = {} /\ 1..0 = {}
      OBVIOUS
    <2> QED BY <2>1 DEF InLine
  <1> QED BY <1>4, <1>5, <1>8, <1>9

-----------------------------------------------------------------------------
(* The steps *)

\* The first unit is decoded: what is shown is what was shown, or of it.
LEMMA NextInLine ==
  ASSUME NEW plan, NEW z, z.generation \in Nat, NEW us, us # <<>>, NEW tl, InLine(z, plan, us, tl),
         NEW u, u = Head(us), NEW now,
         \A i \in DOMAIN now :
           \/ i \in DOMAIN tl /\ now[i] = tl[i]
           \/ now[i].src = u.src /\ now[i].pic = u.pic /\ now[i].stamp[2] = u.generation
  PROVE  InLine(z, plan, Tail(us), now)
  <1> DEFINE n == Len(us)
             rest == Tail(us)
  <1>1. us \in Seq(Units) /\ n \in Nat \ {0}
    <2>1. us \in Seq(Units)
      BY DEF InLine
    <2> QED BY <2>1, EmptySeq
  <1>2. rest \in Seq(Units) /\ Len(rest) = n - 1 /\ \A i \in 1..n - 1 : rest[i] = us[i + 1]
    BY <1>1, HeadTailProperties
  <1>3. u = us[1] /\ u \in Units
    BY <1>1
  <1>4. u.src \in Sources /\ u.pic \in Nat /\ u.generation \in Nat
    BY <1>3 DEF Units
  <1> HIDE DEF n, rest
  <1>5. /\ \A i \in 1..n : /\ us[i].tile < z.tiles /\ us[i].generation <= z.generation
                           /\ us[i].generation = z.generation => Reached(z, plan, us[i].src, us[i].pic)
        /\ \A j \in 1..n : \A i \in 1..j - 1 :
             us[i].src = us[j].src /\ us[i].generation = us[j].generation => us[i].pic < us[j].pic
    BY DEF InLine, n
  <1>6. \A i \in DOMAIN tl :
          /\ tl[i].src \in Sources /\ tl[i].pic \in Nat /\ tl[i].stamp[2] \in 0..z.generation
          /\ tl[i].stamp[2] = z.generation => Reached(z, plan, tl[i].src, tl[i].pic)
          /\ \A j \in 1..n :
               tl[i].src = us[j].src /\ tl[i].stamp[2] = us[j].generation => tl[i].pic < us[j].pic
    BY DEF InLine, n
  <1>7. \A i \in 1..n - 1 : i + 1 \in 1..n /\ \A j \in 1..i - 1 : j + 1 \in 1..(i + 1) - 1 /\ j \in 1..n - 1
    BY <1>1
  <1>8. \A i \in 1..n - 1 :
          /\ rest[i].tile < z.tiles /\ rest[i].generation <= z.generation
          /\ rest[i].generation = z.generation => Reached(z, plan, rest[i].src, rest[i].pic)
    BY <1>2, <1>5, <1>7
  <1>9. \A j \in 1..n - 1 : \A i \in 1..j - 1 :
          rest[i].src = rest[j].src /\ rest[i].generation = rest[j].generation => rest[i].pic < rest[j].pic
    <2> SUFFICES ASSUME NEW j \in 1..n - 1, NEW i \in 1..j - 1,
                        rest[i].src = rest[j].src, rest[i].generation = rest[j].generation
                 PROVE  rest[i].pic < rest[j].pic
      OBVIOUS
    <2>1. rest[i] = us[i + 1] /\ rest[j] = us[j + 1] /\ j + 1 \in 1..n /\ i + 1 \in 1..(j + 1) - 1
      BY <1>2, <1>7
    <2> QED BY <1>5, <2>1
  <1>10. ASSUME NEW i \in DOMAIN now
         PROVE  /\ now[i].src \in Sources /\ now[i].pic \in Nat /\ now[i].stamp[2] \in 0..z.generation
                /\ now[i].stamp[2] = z.generation => Reached(z, plan, now[i].src, now[i].pic)
                /\ \A j \in 1..n - 1 :
                     now[i].src = rest[j].src /\ now[i].stamp[2] = rest[j].generation
                       => now[i].pic < rest[j].pic
    <2>1. CASE i \in DOMAIN tl /\ now[i] = tl[i]
      BY <1>2, <1>6, <1>7, <2>1
    <2>2. CASE now[i].src = u.src /\ now[i].pic = u.pic /\ now[i].stamp[2] = u.generation
      <3>1. 1 \in 1..n
        BY <1>1
      <3>2. u.generation \in 0..z.generation
        BY <1>3, <1>4, <1>5, <3>1
      <3>3. now[i].stamp[2] = z.generation => Reached(z, plan, now[i].src, now[i].pic)
        BY <1>3, <1>5, <2>2, <3>1
      <3>4. ASSUME NEW j \in 1..n - 1, now[i].src = rest[j].src, now[i].stamp[2] = rest[j].generation
            PROVE  now[i].pic < rest[j].pic
        <4>1. rest[j] = us[j + 1] /\ j + 1 \in 1..n /\ 1 \in 1..(j + 1) - 1
          BY <1>2, <1>7
        <4> QED BY <1>3, <1>5, <2>2, <3>4, <4>1
      <3> QED BY <1>4, <2>2, <3>2, <3>3, <3>4
    <2> QED BY <2>1, <2>2
  <1> QED BY <1>2, <1>8, <1>9, <1>10 DEF InLine, rest

\* The invariant holds in the beginning.
LEMMA InitInv == Init => IInv
  <1> SUFFICES ASSUME Init PROVE IInv
    OBVIOUS
  <1>1. PICK plan \in Plans : air = Sent(plan)
    BY DEF Init, Sent
  <1>2. PICK t \in TileCounts : d = New(t)
    BY DEF Init
  <1>3. t \in Nat \ {0}
    BY PlansAssumption
  <1>4. Sound(plan)
    BY <1>1, <1>2, NewIs DEF Sound, Init, Blank
  <1>5. Decoded
    <2>1. DOMAIN tiles = {} /\ bases \in [Sources -> Nat] /\ dirty = FALSE /\ needsKey = TRUE
      BY DEF Init, Blank, NoBases
    <2> QED BY <2>1 DEF Decoded
  <1>6. Session
    BY DEF Init, Session
  <1> QED BY <1>4, <1>5, <1>6 DEF IInv

\* Time goes by.
LEMMA TickInv ==
  ASSUME IInv, Tick PROVE IInv'
  <1>1. PICK plan \in Plans : Sound(plan)
    BY DEF IInv
  <1>2. d' = Older(d) /\ UNCHANGED <<session, air>>
    BY DEF Tick
  <1>3. Reassembly(d, plan) /\ Fits(d) /\ InLine(d, plan, units, tiles)
    BY <1>1 DEF Sound
  <1>4. /\ Reassembly(d', plan) /\ Fits(d') /\ d'.tiles = d.tiles /\ d'.generation = d.generation
        /\ InLine(d', plan, units, tiles)
    BY <1>2, <1>3, OlderKeeps
  <1>5. Sound(plan)'
    BY <1>1, <1>2, <1>4 DEF Sound, session
  <1>6. Decoded'
    BY <1>2, <1>4 DEF IInv, Decoded, session
  <1>7. Session'
    BY <1>2 DEF IInv, Session, session
  <1> QED BY <1>5, <1>6, <1>7 DEF IInv

\* A new depacketizer has nothing that could be unsound.
LEMMA ReconfigureInv ==
  ASSUME IInv, Reconfigure PROVE IInv'
  <1>1. PICK plan \in Plans : Sound(plan)
    BY DEF IInv
  <1>2. PICK t \in TileCounts : d' = New(t)
    BY DEF Reconfigure
  <1>3. t \in Nat \ {0}
    BY PlansAssumption
  <1>4. units' = <<>> /\ tiles' = <<>> /\ air' = air
    BY DEF Reconfigure, Blank
  <1>5. /\ Reassembly(d', plan) /\ Fits(d') /\ InLine(d', plan, <<>>, <<>>)
    BY <1>2, NewIs
  <1>6. Sound(plan)'
    BY <1>1, <1>4, <1>5 DEF Sound
  <1>7. Decoded'
    <2>1. (DOMAIN tiles)' = {} /\ bases' \in [Sources -> Nat] /\ dirty' = FALSE /\ needsKey' = TRUE
      BY DEF Reconfigure, Blank, NoBases
    <2> QED BY <2>1 DEF Decoded
  <1>8. Session'
    BY DEF IInv, Session, Reconfigure
  <1> QED BY <1>6, <1>7, <1>8 DEF IInv

\* Packets or none have come: generations have gone on, and units have been appended.
LEMMA MoreUnits ==
  ASSUME IInv, NEW plan \in Plans, Sound(plan), NEW r, Received(r, d, plan, units, tiles),
         d' = r.d, units' = units \o r.out, air' \subseteq air, phase' \in {"receive", "decode"},
         phase # "over",
         UNCHANGED <<generation, lossEpoch, needsKey, dirty, bases, tiles, canvas>>
  PROVE  IInv'
  <1>1. /\ Reassembly(d', plan) /\ Fits(d') /\ d'.tiles = d.tiles
        /\ d.generation <= d'.generation /\ InLine(d', plan, units', tiles')
    BY DEF Received
  <1>2. Sound(plan)'
    BY <1>1 DEF Sound
  <1>3. d.generation \in Nat /\ d'.generation \in Nat
    BY <1>1, Known DEF Sound
  <1>4. Decoded'
    BY <1>1, <1>3 DEF IInv, Decoded
  <1>5. Session'
    BY DEF IInv, Session
  <1> QED BY <1>2, <1>4, <1>5 DEF IInv

\* A packet arrives.
LEMMA ReceiveInv ==
  ASSUME IInv, NEW p \in air, Receive(p) PROVE IInv'
  <1>1. PICK plan \in Plans : Sound(plan)
    BY DEF IInv
  <1>2. PICK victim \in Victims(d) \cup {0} :
          /\ victim = 0 <=> Victims(d) = {}
          /\ LET r == Push(d, p, victim) IN d' = r.d /\ units' = units \o r.out
    BY DEF Receive
  <1> DEFINE r == Push(d, p, victim)
  <1>3. d' = r.d /\ units' = units \o r.out
    BY <1>2
  <1>4. /\ Reassembly(d, plan) /\ Fits(d) /\ InLine(d, plan, units, tiles)
        /\ p \in Sent(plan) /\ units \in Seq(Units)
    BY <1>1 DEF Sound, InLine
  <1>5. Len(d.groups) < MAX_GROUPS \/ victim \in 1..Len(d.groups)
    BY <1>2, <1>4, VictimIs
  <1>6. Received(r, d, plan, units, tiles)
    BY <1>4, <1>5, PushIs
  <1> HIDE DEF r
  <1> QED BY <1>1, <1>3, <1>6, MoreUnits DEF Receive

\* The last poll before the access units.
LEMMA EndReceiveInv ==
  ASSUME IInv, EndReceive PROVE IInv'
  <1>1. PICK plan \in Plans : Sound(plan)
    BY DEF IInv
  <1> DEFINE r == Poll(d)
  <1>2. d' = r.d /\ units' = units \o r.out
    BY DEF EndReceive
  <1>3. /\ Reassembly(d, plan) /\ Fits(d) /\ InLine(d, plan, units, tiles)
        /\ units \in Seq(Units) /\ d.generation \in Nat
    BY <1>1, Known DEF Sound, InLine
  <1>4. Received(r, d, plan, units, tiles)
    <2>1. /\ r \in Results(plan) /\ Selected(r.d, d) /\ Reassembly(r.d, plan) /\ Fits(r.d)
          /\ InLine(r.d, plan, units \o r.out, tiles)
      BY <1>3, PollKeeps
    <2> HIDE DEF r
    <2> QED BY <1>3, <2>1 DEF Received, Selected
  <1> HIDE DEF r
  <1> QED BY <1>1, <1>2, <1>4, MoreUnits DEF EndReceive

\* What is known of the unit in hand.
LEMMA UnitIs ==
  ASSUME NEW plan \in Plans, Sound(plan), units # <<>>, NEW au, au = Head(units)
  PROVE  /\ au.src \in Sources /\ au.pic \in Nat \ {0} /\ au.key \in BOOLEAN
         /\ au.tile \in 0..d.tiles - 1 /\ au.epoch \in Nat
         /\ au.generation \in Nat /\ au.generation \in 0..d.generation
         /\ d.tiles \in Nat /\ d.generation \in Nat
  <1>1. InLine(d, plan, units, tiles) /\ d.tiles \in Nat /\ d.generation \in Nat
    BY Known DEF Sound
  <1>2. units \in Seq(Units) /\ Len(units) \in Nat \ {0}
    <2>1. units \in Seq(Units)
      BY <1>1 DEF InLine
    <2> QED BY <2>1, EmptySeq
  <1>3. au = units[1] /\ 1 \in 1..Len(units)
    BY <1>2
  <1>4. au \in Units
    BY <1>2, <1>3
  <1>5. au.tile < d.tiles /\ au.generation <= d.generation
    BY <1>1, <1>3 DEF InLine
  <1>6. /\ au.src \in Sources /\ au.pic \in Nat \ {0} /\ au.key \in BOOLEAN
        /\ au.tile \in Nat /\ au.epoch \in Nat /\ au.generation \in Nat
    BY <1>4 DEF Units
  <1> QED BY <1>1, <1>5, <1>6

\* The first unit is decoded: nothing else changes but the session's own.
LEMMA UnitSound ==
  ASSUME NEW plan \in Plans, Sound(plan), units # <<>>, NEW au, au = Head(units),
         units' = Tail(units), UNCHANGED <<d, air>>,
         \A i \in DOMAIN tiles' :
           \/ i \in DOMAIN tiles /\ tiles'[i] = tiles[i]
           \/ tiles'[i].src = au.src /\ tiles'[i].pic = au.pic /\ tiles'[i].stamp[2] = au.generation
  PROVE  Sound(plan)'
  <1>1. InLine(d, plan, units, tiles) /\ d.generation \in Nat
    BY Known DEF Sound
  <1>2. InLine(d, plan, Tail(units), tiles')
    BY <1>1, NextInLine
  <1> QED BY <1>2 DEF Sound

\* The keyframes that the decoder has.
LEMMA BasesIs ==
  ASSUME Decoded, NEW au, au.src \in Sources, au.pic \in Nat \ {0}, au.key \in BOOLEAN
  PROVE  /\ Bases(au) \in [Sources -> Nat]
         /\ Gate(au) => (au.key => \E s \in Sources : Bases(au)[s] # 0)
         /\ ~Gate(au) => \A s \in Sources : bases[s] # 0 => Bases(au)[s] # 0
  <1> DEFINE b == IF Gate(au) THEN NoBases ELSE bases
  <1>1. b \in [Sources -> Nat]
    BY DEF NoBases, Decoded
  <1>2. Bases(au) = IF au.key THEN [b EXCEPT ![au.src] = au.pic] ELSE b
    BY DEF Bases
  <1>3. ~Gate(au) => b = bases
    OBVIOUS
  <1> HIDE DEF b
  <1>4. Bases(au) \in [Sources -> Nat]
    BY <1>1, <1>2
  <1>5. au.key => Bases(au)[au.src] # 0
    BY <1>1, <1>2
  <1>6. \A s \in Sources : s # au.src \/ ~au.key => Bases(au)[s] = b[s]
    BY <1>1, <1>2
  <1> QED BY <1>3, <1>4, <1>5, <1>6

\* A unit that is not a keyframe, where only one will do.
LEMMA SuppressInv ==
  ASSUME IInv, NEW plan \in Plans, Sound(plan), NEW au, au = Head(units), units # <<>>,
         phase = "decode", Suppress(au), generation' = au.generation, lossEpoch' = au.epoch,
         units' = Tail(units), UNCHANGED <<d, latest, canvas, air>>
  PROVE  IInv'
  <1>1. /\ needsKey' = TRUE /\ dirty' = (dirty /\ ~Fresh(au)) /\ Gate(au)
        /\ UNCHANGED <<bases, tiles, slot, phase>>
    BY DEF Suppress
  <1>2. Decoded /\ Session
    BY DEF IInv
  <1>3. Sound(plan)'
    BY <1>1, UnitSound
  <1>4. dirty' = FALSE
    <2>1. dirty \in BOOLEAN /\ (dirty => ~needsKey)
      BY <1>2 DEF Decoded, Session
    <2> QED BY <1>1, <2>1 DEF Gate
  <1>5. Decoded'
    BY <1>1, <1>2, <1>4 DEF Decoded
  <1>6. Session'
    BY <1>1, <1>2, <1>4, UnitIs DEF Session
  <1> QED BY <1>3, <1>5, <1>6 DEF IInv

\* The decoder reports an error: a keyframe is needed again.
LEMMA DecodeErrorInv ==
  ASSUME IInv, NEW plan \in Plans, Sound(plan), NEW au, au = Head(units), units # <<>>,
         phase = "decode", DecodeError(au), generation' = au.generation, lossEpoch' = au.epoch,
         units' = Tail(units), UNCHANGED <<d, latest, canvas, air>>
  PROVE  IInv'
  <1>1. /\ needsKey' = TRUE /\ dirty' = FALSE /\ bases' = Bases(au) /\ tiles' = Canvas(au)
        /\ UNCHANGED phase
    BY DEF DecodeError
  <1>2. Decoded /\ Session
    BY DEF IInv
  <1>3. tiles' = tiles \/ tiles' = <<>>
    BY <1>1 DEF Canvas, Blank
  <1>4. Sound(plan)'
    <2>1. DOMAIN <<>> = {}
      OBVIOUS
    <2> QED BY <1>3, <2>1, UnitSound
  <1>5. DOMAIN tiles' \subseteq 0..d.tiles - 1
    BY <1>2, <1>3 DEF Decoded
  <1>6. Bases(au) \in [Sources -> Nat]
    BY <1>2, UnitIs, BasesIs
  <1>7. Decoded'
    BY <1>1, <1>5, <1>6 DEF Decoded
  <1>8. Session'
    BY <1>1, <1>2, UnitIs DEF Session
  <1> QED BY <1>4, <1>7, <1>8 DEF IInv

\* The decoder returns no picture.
LEMMA DecodeNothingInv ==
  ASSUME IInv, NEW plan \in Plans, Sound(plan), NEW au, au = Head(units), units # <<>>,
         phase = "decode", DecodeNothing(au), generation' = au.generation, lossEpoch' = au.epoch,
         units' = Tail(units), UNCHANGED <<d, latest, canvas, air>>
  PROVE  IInv'
  <1>1. /\ needsKey' = Gate(au) /\ dirty' = (dirty /\ ~Fresh(au)) /\ bases' = Bases(au)
        /\ tiles' = Canvas(au) /\ UNCHANGED phase
    BY DEF DecodeNothing
  <1>2. Decoded /\ Session
    BY DEF IInv
  <1>3. Gate(au) \in BOOLEAN /\ (~Gate(au) => ~needsKey /\ ~Fresh(au))
    <2>1. needsKey \in BOOLEAN /\ Fresh(au) \in BOOLEAN
      BY <1>2 DEF Session, Fresh
    <2> QED BY <2>1 DEF Gate
  <1>4. (Gate(au) => tiles' = <<>>) /\ (~Gate(au) => tiles' = tiles)
    BY <1>1 DEF Canvas, Blank
  <1>5. DOMAIN <<>> = {}
    OBVIOUS
  <1>6. Sound(plan)'
    BY <1>4, <1>5, UnitSound
  <1>7. DOMAIN tiles' \subseteq 0..d.tiles - 1
    BY <1>2, <1>4, <1>5 DEF Decoded
  <1>8. Bases(au) \in [Sources -> Nat] /\ (~Gate(au) => \A s \in Sources : bases[s] # 0 => Bases(au)[s] # 0)
    BY <1>2, UnitIs, BasesIs
  <1>9. /\ dirty \in BOOLEAN /\ (dirty => ~needsKey)
        /\ ~needsKey => /\ \E s \in Sources : bases[s] # 0
                        /\ \A i \in DOMAIN tiles : tiles[i].stamp = <<canvas, generation, lossEpoch>>
        /\ dirty => DOMAIN tiles = 0..d.tiles - 1
    BY <1>2 DEF Decoded, Session
  <1>10. dirty' => ~Gate(au) /\ dirty
    BY <1>1, <1>9 DEF Gate
  <1>11. ASSUME ~Gate(au)
         PROVE  /\ \E s \in Sources : bases'[s] # 0
                /\ \A i \in DOMAIN tiles' : tiles'[i].stamp = <<canvas', generation', lossEpoch'>>
    <2>1. ~needsKey /\ generation = au.generation /\ lossEpoch = au.epoch
      BY <1>3, <1>11 DEF Fresh
    <2> QED BY <1>1, <1>4, <1>8, <1>9, <1>11, <2>1
  <1>12. generation' \in 0..d'.generation
    BY UnitIs
  <1>13. Decoded'
    <2>1. dirty' => ~needsKey' /\ DOMAIN tiles' = 0..d'.tiles - 1
      BY <1>1, <1>4, <1>9, <1>10
    <2>2. ~needsKey' => ~Gate(au)
      BY <1>1
    <2>3. DOMAIN tiles' \subseteq 0..d'.tiles - 1 /\ bases' \in [Sources -> Nat]
      BY <1>1, <1>7, <1>8
    <2> QED BY <1>11, <1>12, <2>1, <2>2, <2>3 DEF Decoded
  <1>14. Session'
    BY <1>1, <1>2, <1>3, <1>9, UnitIs DEF Session
  <1> QED BY <1>6, <1>13, <1>14 DEF IInv

\* A picture becomes a band of the canvas, or ends the session.
LEMMA ComposeInv ==
  ASSUME IInv, NEW plan \in Plans, Sound(plan), NEW au, au = Head(units), units # <<>>,
         phase = "decode", Compose(au), generation' = au.generation, lossEpoch' = au.epoch,
         units' = Tail(units), UNCHANGED <<d, latest, canvas, air>>
  PROVE  IInv'
  <1>1. (Gate(au) => au.key) /\ needsKey' = FALSE /\ bases' = Bases(au)
    BY DEF Compose
  <1>2. Decoded /\ Session
    BY DEF IInv
  <1>3. /\ Bases(au) \in [Sources -> Nat]
        /\ Gate(au) => (au.key => \E s \in Sources : Bases(au)[s] # 0)
        /\ ~Gate(au) => \A s \in Sources : bases[s] # 0 => Bases(au)[s] # 0
    BY <1>2, UnitIs, BasesIs
  <1>4. /\ au.tile \in 0..d.tiles - 1 /\ au.epoch \in Nat /\ au.generation \in Nat
        /\ au.generation \in 0..d.generation
    BY UnitIs
  <1>5. CASE Slot(au) \in {NoSlot, au.geo}
    <2>1. /\ tiles' = [i \in DOMAIN Canvas(au) \cup {au.tile} |->
                         IF i = au.tile THEN Band(au) ELSE Canvas(au)[i]]
          /\ dirty' = ((dirty /\ ~Fresh(au)) \/ DOMAIN tiles' = 0..d.tiles - 1)
          /\ UNCHANGED phase
      BY <1>5 DEF Compose
    <2>2. (Gate(au) => Canvas(au) = <<>>) /\ (~Gate(au) => Canvas(au) = tiles)
      BY DEF Canvas, Blank
    <2>3. /\ DOMAIN tiles' = DOMAIN Canvas(au) \cup {au.tile} /\ tiles'[au.tile] = Band(au)
          /\ \A i \in DOMAIN Canvas(au) : i # au.tile => tiles'[i] = Canvas(au)[i]
      BY <2>1
    <2>4. /\ Band(au).src = au.src /\ Band(au).pic = au.pic
          /\ Band(au).stamp = <<canvas, au.generation, au.epoch>>
          /\ Band(au).stamp[2] = au.generation
      BY DEF Band
    <2>5. DOMAIN <<>> = {}
      OBVIOUS
    <2>6. Sound(plan)'
      <3>1. \A i \in DOMAIN tiles' :
              \/ i \in DOMAIN tiles /\ tiles'[i] = tiles[i]
              \/ tiles'[i].src = au.src /\ tiles'[i].pic = au.pic /\ tiles'[i].stamp[2] = au.generation
        BY <2>2, <2>3, <2>4, <2>5
      <3> QED BY <3>1, UnitSound
    <2>7. DOMAIN tiles \subseteq 0..d.tiles - 1 /\ DOMAIN tiles' \subseteq 0..d.tiles - 1
      BY <1>2, <1>4, <2>2, <2>3, <2>5 DEF Decoded
    <2>8. /\ dirty \in BOOLEAN /\ (dirty => ~needsKey)
          /\ ~needsKey => /\ \E s \in Sources : bases[s] # 0
                          /\ \A i \in DOMAIN tiles : tiles[i].stamp = <<canvas, generation, lossEpoch>>
          /\ dirty => DOMAIN tiles = 0..d.tiles - 1
      BY <1>2 DEF Decoded, Session
    <2>9. ~Gate(au) => ~needsKey /\ generation = au.generation /\ lossEpoch = au.epoch
      BY DEF Gate, Fresh
    <2>10. \E s \in Sources : bases'[s] # 0
      BY <1>1, <1>3, <2>8, <2>9
    <2>11. \A i \in DOMAIN tiles' : tiles'[i].stamp = <<canvas', generation', lossEpoch'>>
      <3> SUFFICES ASSUME NEW i \in DOMAIN tiles'
                   PROVE  tiles'[i].stamp = <<canvas, au.generation, au.epoch>>
        OBVIOUS
      <3>1. CASE i = au.tile
        BY <2>3, <2>4, <3>1
      <3>2. CASE i # au.tile
        BY <2>2, <2>3, <2>5, <2>8, <2>9, <3>2
      <3> QED BY <3>1, <3>2
    <2>12. dirty' => DOMAIN tiles' = 0..d'.tiles - 1
      <3>1. ASSUME dirty, ~Fresh(au) PROVE DOMAIN tiles' = 0..d.tiles - 1
        <4>1. ~Gate(au)
          BY <2>8, <3>1 DEF Gate
        <4> QED BY <1>4, <2>2, <2>3, <2>8, <3>1, <4>1
      <3> QED BY <2>1, <3>1
    <2>13. Decoded'
      BY <1>1, <1>3, <1>4, <2>7, <2>10, <2>11, <2>12 DEF Decoded
    <2>14. Session'
      <3>1. dirty' \in BOOLEAN
        BY <2>1, <2>8
      <3> QED BY <1>1, <1>2, <1>4, <2>1, <3>1 DEF Session
    <2> QED BY <2>6, <2>13, <2>14 DEF IInv
  <1>6. CASE Slot(au) \notin {NoSlot, au.geo}
    <2>1. phase' = "over" /\ UNCHANGED <<dirty, tiles, slot>>
      BY <1>6 DEF Compose
    <2>2. Sound(plan)'
      BY <2>1, UnitSound
    <2>3. Decoded'
      BY <1>1, <1>2, <1>3, <2>1 DEF Decoded
    <2>4. Session'
      BY <1>1, <1>2, <1>4, <2>1 DEF Session
    <2> QED BY <2>2, <2>3, <2>4 DEF IInv
  <1> QED BY <1>5, <1>6

\* The unit in hand, whatever the decoder makes of it.
LEMMA DecodeUnitInv ==
  ASSUME IInv, DecodeUnit PROVE IInv'
  <1>1. PICK plan \in Plans : Sound(plan)
    BY DEF IInv
  <1> DEFINE au == Head(units)
  <1>2. /\ phase = "decode" /\ units # <<>> /\ units' = Tail(units)
        /\ generation' = au.generation /\ lossEpoch' = au.epoch
        /\ UNCHANGED <<d, latest, canvas, air>>
        /\ Suppress(au) \/ DecodeError(au) \/ DecodeNothing(au) \/ Compose(au)
    BY DEF DecodeUnit
  <1>3. au = Head(units)
    OBVIOUS
  <1> HIDE DEF au
  <1>4. CASE Suppress(au)
    BY <1>1, <1>2, <1>3, <1>4, SuppressInv
  <1>5. CASE DecodeError(au)
    BY <1>1, <1>2, <1>3, <1>5, DecodeErrorInv
  <1>6. CASE DecodeNothing(au)
    BY <1>1, <1>2, <1>3, <1>6, DecodeNothingInv
  <1>7. CASE Compose(au)
    BY <1>1, <1>2, <1>3, <1>7, ComposeInv
  <1> QED BY <1>2, <1>4, <1>5, <1>6, <1>7

\* The end of a round.
LEMMA PublishInv ==
  ASSUME IInv, Publish PROVE IInv'
  <1>1. PICK plan \in Plans : Sound(plan)
    BY DEF IInv
  <1> DEFINE lost == lossEpoch # d.epoch
  <1>2. /\ lossEpoch' = d.epoch /\ needsKey' = (needsKey \/ lost)
        /\ dirty' = (dirty /\ needsKey /\ ~lost) /\ phase' = "receive" /\ phase = "decode"
        /\ UNCHANGED <<d, units, generation, bases, tiles, slot, canvas, air>>
    BY DEF Publish
  <1>3. Decoded /\ Session
    BY DEF IInv
  <1>4. d.epoch \in Nat
    BY <1>1 DEF Sound, Reassembly, Depacketizers
  <1>5. Sound(plan)'
    BY <1>1, <1>2 DEF Sound
  <1>6. dirty' = FALSE
    BY <1>2, <1>3 DEF Decoded, Session
  <1>7. ~needsKey' => ~needsKey /\ lossEpoch' = lossEpoch
    BY <1>2
  <1>8. Decoded'
    BY <1>2, <1>3, <1>6, <1>7 DEF Decoded
  <1>9. Session'
    BY <1>2, <1>3, <1>4, <1>6 DEF Session
  <1> QED BY <1>5, <1>8, <1>9 DEF IInv

\* Every step keeps the invariant.
LEMMA NextInv ==
  ASSUME IInv, [Next]_vars PROVE IInv'
  <1>1. CASE Next
    <2>1. CASE Tick
      BY <2>1, TickInv
    <2>2. CASE Reconfigure
      BY <2>2, ReconfigureInv
    <2>3. ASSUME NEW p \in air, Receive(p) PROVE IInv'
      BY <2>3, ReceiveInv
    <2>4. CASE EndReceive
      BY <2>4, EndReceiveInv
    <2>5. CASE DecodeUnit
      BY <2>5, DecodeUnitInv
    <2>6. CASE Publish
      BY <2>6, PublishInv
    <2> QED BY <1>1, <2>1, <2>2, <2>3, <2>4, <2>5, <2>6 DEF Next, Loop
  <1>2. CASE UNCHANGED vars
    BY <1>2 DEF IInv, Sound, Decoded, Session, vars
  <1> QED BY <1>1, <1>2

\* The invariant holds throughout.
LEMMA Invariant == Spec => []IInv
  BY InitInv, NextInv, PTL DEF Spec

-----------------------------------------------------------------------------
(* What holds *)

\* The invariant has the types and the limits.
LEMMA TypeHolds ==
  ASSUME IInv PROVE TypeOK
  <1>1. PICK plan \in Plans : Sound(plan)
    BY DEF IInv
  <1>2. Reassembly(d, plan) /\ Fits(d) /\ Decoded /\ Session
    BY <1>1 DEF Sound, IInv
  <1> DEFINE n == Len(d.groups)
  <1>3. /\ d \in Depacketizers(plan) /\ d.sources \subseteq Sources
        /\ n \in Nat /\ DOMAIN d.groups = 1..n
        /\ \A i \in 1..n : /\ OnePicture(d.groups[i]) /\ d.groups[i].src \in d.sources
                           /\ IsFiniteSet(d.groups[i].packets)
                           /\ Cardinality(d.groups[i].packets) \in Nat
    BY <1>2, Known
  <1>4. d.generation \in Nat /\ d.epoch \in Nat
    BY <1>3 DEF Depacketizers
  <1>5. /\ n <= MAX_GROUPS /\ Pending(d) <= MAX_PENDING_BYTES /\ Ordered(d.groups)
        /\ d.tiles \in TileCounts /\ Cardinality(d.sources) <= d.tiles
    BY <1>2 DEF Reassembly, Waiting
  <1>6. \A s \in Sources : Len(d.prefix[s]) <= CANDIDATE
    BY <1>2 DEF Reassembly, Candidates
  <1>7. ASSUME NEW i \in 1..n
        PROVE  Cardinality(d.groups[i].packets) \in 1..MAX_GROUP_BYTES
    <2>1. Cardinality(d.groups[i].packets) <= MAX_GROUP_BYTES
      BY <1>2 DEF Fits
    <2>2. Cardinality(d.groups[i].packets) # 0
      BY <1>3, FS_EmptySet DEF OnePicture
    <2>3. MAX_GROUP_BYTES \in Nat
      BY DepacketizerAssumption
    <2> QED BY <1>3, <2>1, <2>2, <2>3
  <1>8. ASSUME NEW i \in 1..n, NEW j \in 1..i - 1
        PROVE  /\ GroupOf(d, [src |-> d.groups[i].src, ts |-> d.groups[i].ts]) = {i}
               /\ d.groups[j].age >= d.groups[i].age
    <2>1. \A k \in 1..n : \A l \in 1..k - 1 :
            /\ d.groups[l].src # d.groups[k].src \/ d.groups[l].ts # d.groups[k].ts
            /\ d.groups[l].age >= d.groups[k].age
      BY <1>5 DEF Ordered
    <2>2. \A k \in 1..n : k = i \/ k \in 1..i - 1 \/ i \in 1..k - 1
      BY <1>3
    <2>3. \A k \in 1..n : d.groups[k].src = d.groups[i].src /\ d.groups[k].ts = d.groups[i].ts => k = i
      BY <2>1, <2>2
    <2> QED BY <1>3, <2>1, <2>3 DEF GroupOf
  <1> QED BY <1>2, <1>3, <1>4, <1>5, <1>6, <1>7, <1>8 DEF TypeOK, Decoded, Session

\* The invariant has the order of units, and that they are whole.
LEMMA UnitsHold ==
  ASSUME IInv PROVE UnitsSound
  <1>1. PICK plan \in Plans : Sound(plan)
    BY DEF IInv
  <1>2. InLine(d, plan, units, tiles) /\ d \in Depacketizers(plan)
    BY <1>1, Known DEF Sound
  <1>3. units \in Seq(Units) /\ DOMAIN units = 1..Len(units)
    BY <1>2 DEF InLine
  <1>4. WholePictures
    <2>1. ASSUME NEW i \in DOMAIN units PROVE units[i].whole
      <3>1. units[i] \in Units
        BY <1>3
      <3> QED BY <3>1 DEF Units
    <2>2. ASSUME NEW x \in d.givenUp PROVE ~x.whole
      <3>1. x \in [src : Sources, pic : Nat, whole : {FALSE}]
        BY <1>2 DEF Depacketizers
      <3> QED BY <3>1
    <2> QED BY <2>1, <2>2 DEF WholePictures
  <1>5. InOrder
    BY <1>2, <1>3 DEF InLine, InOrder
  <1> QED BY <1>4, <1>5 DEF UnitsSound

\* The formula of PublishedSound.
Published ==
  latest' # latest =>
    /\ \E s \in Sources : bases[s] # 0
    /\ DOMAIN tiles = 0..d.tiles - 1
    /\ \E g \in 0..d.generation : \A i \in DOMAIN tiles :
         tiles[i].stamp = <<canvas, g, d.epoch>>

\* Only Publish changes the picture, and then the invariant speaks of the canvas.
LEMMA PublishedHolds ==
  ASSUME IInv, [Next]_vars PROVE [Published]_vars
  <1> SUFFICES ASSUME latest' # latest
               PROVE  /\ \E s \in Sources : bases[s] # 0
                      /\ DOMAIN tiles = 0..d.tiles - 1
                      /\ \E g \in 0..d.generation : \A i \in DOMAIN tiles :
                           tiles[i].stamp = <<canvas, g, d.epoch>>
    BY DEF Published
  <1>1. Publish
    BY DEF Next, Loop, Tick, Reconfigure, Receive, EndReceive, DecodeUnit, session, vars
  <1>2. dirty /\ ~needsKey /\ lossEpoch = d.epoch /\ phase = "decode"
    BY <1>1 DEF Publish
  <1>3. Decoded
    BY DEF IInv
  <1>4. /\ \E s \in Sources : bases[s] # 0
        /\ generation \in 0..d.generation
        /\ \A i \in DOMAIN tiles : tiles[i].stamp = <<canvas, generation, d.epoch>>
        /\ DOMAIN tiles = 0..d.tiles - 1
    BY <1>2, <1>3 DEF Decoded
  <1> QED BY <1>4

\* The state is well typed, and no more waits to be assembled than the limits allow, whatever
\* the network delivers, the timing of polls and the choice of the group evicted.
THEOREM TypeCorrect == Spec => []TypeOK
  BY Invariant, TypeHolds, PTL

\* Access units are the Mac's pictures, whole and in order, and only damaged ones are given up:
\* for every size of the space of sequence numbers and timestamps, and wherever they wrap.
THEOREM UnitsAreSound == Spec => []UnitsSound
  BY Invariant, UnitsHold, PTL

\* What is published was decoded from a keyframe on, after the last loss, in the present
\* configuration, and from one generation of sources.
THEOREM PublicationIsSound == Spec => PublishedSound
  BY Invariant, PublishedHolds, PTL DEF Spec, PublishedSound, Published

=============================================================================
