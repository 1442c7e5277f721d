------------------------- MODULE InputSessionProofs -------------------------
(***************************************************************************)
(* Proofs about InputSession: the safety properties of its runs, for any   *)
(* set of keys, any capacity of the queue, any batch and any length of the *)
(* pasted text.                                                            *)
(*                                                                         *)
(* The argument.  The two threads take turns (Turns): the user cannot      *)
(* connect again before the UI has heard of the end of the last session,   *)
(* which is the last thing the backend says of it, and by then the queue   *)
(* holds nothing the next session could take for its own.  What was        *)
(* pasted but not yet sent is dropped before it can be sent in another     *)
(* session (PasteOwn).  So a session begins with nothing sent and nothing  *)
(* down (Blank, Begun), and from then on, until a command is lost, what    *)
(* the Mac holds once it has applied the queue is what the app believes    *)
(* (Tracked): each command that presses a key that is not tracked has a    *)
(* command behind it that releases it.  The same, at each place in the     *)
(* queue, says what Command is when a pasted character is typed (Meant).   *)
(***************************************************************************)
EXTENDS InputSession, SequenceTheorems, FiniteSetTheorems, TLAPS

-----------------------------------------------------------------------------
(* The invariant *)

Busy   == connected \/ connecting \/ cancelling
Inside == {"starting", "negotiated", "running"}
Rests  == {"idle", "stopped"}

Connects(m)  == m.c = "connect"
NoConnect(q) == \A i \in 1..Len(q) : ~Connects(q[i])
Of(q, n)     == \A i \in 1..Len(q) : q[i].n = n
Ended(i)     == events[i] = "disconnected"

\* While the UI is not busy the backend rests and has nothing to say; while the
\* backend works on a session, it is the present one, and so is all that is
\* queued; its end is the last event; and a Connect that waits is the only one
\* and has commands of its own session behind it.
Turns ==
  /\ ~Busy => bpc \in Rests /\ events = <<>> /\ NoConnect(queue)
  /\ bpc \in Rests =>
       \A i \in 1..Len(events) : Ended(i) => i = Len(events) /\ NoConnect(queue)
  /\ bpc \notin Rests =>
       /\ bn = connects /\ Of(queue, connects) /\ NoConnect(queue)
       /\ \A i \in 1..Len(events) : ~Ended(i)
  /\ bpc \in {"starting", "negotiated"} => events = <<>> /\ ~connected
  /\ \A i \in 1..Len(queue) : Connects(queue[i]) =>
       /\ events = <<>> /\ ~connected
       /\ \A j \in 1..Len(queue) : Connects(queue[j]) => j = i
       /\ \A j \in i..Len(queue) : queue[j].n = connects

\* What is still to be typed is of the present session, or goes with the next frame.
PasteOwn ==
  /\ connected => Of(paste, connects)
  /\ ~connected /\ Busy /\ phase \notin {"drain", "gone"} => paste = <<>>
  /\ \A i \in 1..Len(paste) :
       \/ paste[i].c = "clipboard"
       \/ paste[i].c = "key" /\ paste[i].k \in {Char, Letter}

\* Without a session nothing is down.
Blank == ~connected => pressed = {} /\ ~mods /\ ~buttons

\* A session that has lost nothing and was not told to end.
Live == bpc \in Inside /\ ~cancelled

\* Until the UI hears that a session has begun, it sends nothing to it.
Begun ==
  /\ Live /\ ~connected => queue = <<>>
  /\ Live /\ ~connected /\ bpc = "running" => macDown = {} /\ ~macButton
  /\ ~cancelled => \A i \in 1..Len(queue) : Connects(queue[i]) => i = Len(queue)

\* A command that presses, or releases, k (for c = "button", the button).
Presses(m, c, k) == m.c = c /\ (c = "key" => m.k = k) /\ m.down
Frees(m, c, k)   == m.c = c /\ (c = "key" => m.k = k) /\ ~m.down

\* k is up once the first n commands of q are applied, if what is in D is down now.
Up(D, q, c, k, n) ==
  /\ k \in D => \E j \in 1..n : Frees(q[j], c, k)
  /\ \A i \in 1..n : Presses(q[i], c, k) => \E j \in i + 1..n : Frees(q[j], c, k)

UpAfter(k, q, n) == Up(macDown, q, "key", k, n)
ButtonDown == IF macButton THEN {Cmd} ELSE {}

ModsTracked == Live /\ connected => (mods <=> ~UpAfter(Cmd, queue, Len(queue)))

Untracked == {"repeat", "panel in paste"}     \* see the README, as for Nested
Nested    == {"copy in paste"}

\* What is not tracked is up once the queue is applied.  A character of a paste is
\* released by what is still to be typed, if not by the queue.
Tracked ==
  Live /\ connected =>
    /\ ~buttons => Up(ButtonDown, queue, "button", Cmd, Len(queue))
    /\ \A k \in Keys \ pressed : UpAfter(k, queue, Len(queue))
    /\ \A k \in {Char, Letter} :
         /\ Up({}, paste, "key", k, Len(paste))
         /\ UpAfter(k, queue, Len(queue)) \/ \E i \in 1..Len(paste) : Frees(paste[i], "key", k)

IsTyped(m) == m.k = Char /\ m.down
IsShort(m) == m.k = Letter /\ m.down

\* What is to be typed meets the modifiers it needs, in the queue and in the paste.
Meant ==
  /\ Live /\ connected => \A i \in 1..Len(queue) :
       /\ IsTyped(queue[i]) => UpAfter(Cmd, queue, i - 1)
       /\ IsShort(queue[i]) => ~UpAfter(Cmd, queue, i - 1)
  /\ \A i \in 1..Len(paste) :
       /\ IsTyped(paste[i]) => ~mods
       /\ IsShort(paste[i]) => i = 1 /\ phase \in {"drain", "gone"} /\ (phase = "drain" => mods)

IInv ==
  /\ TypeOK /\ Turns /\ PasteOwn /\ Blank /\ Begun /\ ModsTracked
  /\ Untracked \cap Acts = {} => Tracked
  /\ Nested \cap Acts = {} => Meant

-----------------------------------------------------------------------------
(* Commands *)

\* The constants and the keys.
LEMMA Constants ==
  /\ QueueCap \in Nat \ {0} /\ PasteBatch \in Nat \ {0} /\ MaxConnect \in Nat \ {0}
  /\ TextLen \in Nat /\ MaxEdit \in Nat /\ IsFiniteSet(Keys)
  /\ Cmd \notin Keys /\ Char \notin Keys /\ Letter \notin Keys
  /\ Cmd # Char /\ Cmd # Letter /\ Char # Letter
  BY ConstantsAssumption, KeysAssumption

\* The commands the app makes.
LEMMA CommandsTyped ==
  ASSUME TypeOK
  PROVE  /\ \A k \in AllKeys, b \in BOOLEAN : KeyCmd(k, b) \in Commands
         /\ \A b \in BOOLEAN : Button(b) \in Commands
         /\ Plain("clipboard") \in Commands /\ Plain("disconnect") \in Commands
         /\ \A n \in 0..MaxConnect : [Plain("connect") EXCEPT !.n = n] \in Commands
         /\ \A m \in Commands : m.k \in AllKeys /\ m.down \in BOOLEAN /\ m.n \in 0..MaxConnect
  BY DEF TypeOK, KeyCmd, Button, Plain, Commands, AllKeys

\* A function from 1..n is a sequence.
LEMMA FunctionAsSeq ==
  ASSUME NEW S, NEW n \in Nat, NEW f \in [1..n -> S]
  PROVE  f \in Seq(S) /\ Len(f) = n
  BY SeqDef

\* A sequence of one element.
LEMMA SingleSeq ==
  ASSUME NEW S, NEW x \in S
  PROVE  <<x>> \in Seq(S) /\ Len(<<x>>) = 1 /\ <<x>>[1] = x
  OBVIOUS

\* The empty sequence.
LEMMA NoSeq ==
  ASSUME NEW S
  PROVE  <<>> \in Seq(S) /\ Len(<<>>) = 0
  OBVIOUS

\* The elements of a concatenation.
LEMMA JoinedSeq ==
  ASSUME NEW S, NEW s \in Seq(S), NEW t \in Seq(S)
  PROVE  /\ s \o t \in Seq(S) /\ Len(s) \in Nat /\ Len(t) \in Nat /\ Len(s \o t) = Len(s) + Len(t)
         /\ \A i \in 1..Len(s) : (s \o t)[i] = s[i] /\ i \in 1..Len(s \o t)
         /\ \A i \in 1..Len(t) : (s \o t)[Len(s) + i] = t[i] /\ Len(s) + i \in 1..Len(s \o t)
         /\ \A i \in 1..Len(s \o t) : i \in 1..Len(s) \/ \E j \in 1..Len(t) : i = Len(s) + j
  <1>1. /\ s \o t \in Seq(S) /\ Len(s) \in Nat /\ Len(t) \in Nat /\ Len(s \o t) = Len(s) + Len(t)
        /\ \A i \in 1..Len(s) + Len(t) : (s \o t)[i] = IF i <= Len(s) THEN s[i] ELSE t[i - Len(s)]
    BY ConcatProperties
  <1>2. ASSUME NEW i \in 1..Len(s) PROVE (s \o t)[i] = s[i] /\ i \in 1..Len(s \o t)
    BY <1>1
  <1>3. ASSUME NEW i \in 1..Len(t) PROVE (s \o t)[Len(s) + i] = t[i] /\ Len(s) + i \in 1..Len(s \o t)
    BY <1>1
  <1>4. ASSUME NEW i \in 1..Len(s \o t), i \notin 1..Len(s) PROVE \E j \in 1..Len(t) : i = Len(s) + j
    <2>1. i - Len(s) \in 1..Len(t) /\ i = Len(s) + (i - Len(s))
      BY <1>1, <1>4
    <2> QED BY <2>1
  <1> QED BY <1>1, <1>2, <1>3, <1>4

\* A finite set as a sequence.
LEMMA SetAsSeq ==
  ASSUME NEW S, IsFiniteSet(S)
  PROVE  /\ SetToSeq(S) \in Seq(S)
         /\ DOMAIN SetToSeq(S) = 1..Len(SetToSeq(S)) /\ Len(SetToSeq(S)) \in Nat
         /\ \A x \in S : \E i \in 1..Len(SetToSeq(S)) : SetToSeq(S)[i] = x
  <1> DEFINE n == Cardinality(S)
  <1>1. n \in Nat /\ ExistsBijection(1..n, S)
    BY FS_CardinalityType
  <1>2. PICK f \in Bijection(1..n, S) : TRUE
    BY <1>1 DEF ExistsBijection
  <1>3. f \in [1..n -> S] /\ IsInjective(f)
    BY <1>2 DEF Bijection, Injection, Surjection, IsInjective
  <1>4. SetToSeq(S) \in [1..n -> S] /\ IsInjective(SetToSeq(S))
    BY <1>3 DEF SetToSeq
  <1>5. SetToSeq(S) \in Injection(1..n, S)
    BY <1>4 DEF Injection
  <1>6. IsFiniteSet(1..n) /\ Cardinality(1..n) = n
    BY <1>1, FS_Interval
  <1>7. SetToSeq(S) \in Surjection(1..n, S)
    BY <1>5, <1>6, FS_Injection
  <1>8. SetToSeq(S) \in Seq(S) /\ Len(SetToSeq(S)) = n
    BY <1>1, <1>4, SeqDef
  <1> QED BY <1>1, <1>4, <1>7, <1>8 DEF Surjection

\* What release_input sends: a release of all that is tracked, and nothing else.
LEMMA ReleasesAre ==
  ASSUME TypeOK
  PROVE  /\ Releases \in Seq(Commands)
         /\ \A i \in 1..Len(Releases) :
              Releases[i].c \in {"key", "button"} /\ ~Releases[i].down /\ Releases[i].n = connects
         /\ \A k \in pressed \cup (IF mods THEN {Cmd} ELSE {}) :
              \E i \in 1..Len(Releases) : Frees(Releases[i], "key", k)
         /\ buttons => \E i \in 1..Len(Releases) : Frees(Releases[i], "button", Cmd)
         /\ pressed = {} /\ ~mods /\ ~buttons => Releases = <<>>
  <1> DEFINE S    == pressed \cup IF mods THEN {Cmd} ELSE {}
             ups  == SetToSeq(S)
             a    == [i \in DOMAIN ups |-> KeyCmd(ups[i], FALSE)]
             b    == IF buttons THEN <<Button(FALSE)>> ELSE <<>>
  <1>1. IsFiniteSet(S) /\ S \subseteq AllKeys
    <2>1. pressed \subseteq Keys
      BY DEF TypeOK
    <2>2. IsFiniteSet(pressed) /\ IsFiniteSet({Cmd}) /\ IsFiniteSet({})
      BY <2>1, Constants, FS_Subset, FS_Singleton, FS_EmptySet
    <2>3. IsFiniteSet(S)
      BY <2>2, FS_Union
    <2> QED BY <2>1, <2>3 DEF AllKeys
  <1>2. /\ ups \in Seq(S) /\ DOMAIN ups = 1..Len(ups) /\ Len(ups) \in Nat
        /\ \A x \in S : \E i \in 1..Len(ups) : ups[i] = x
    BY <1>1, SetAsSeq
  <1>3. \A i \in 1..Len(ups) : ups[i] \in S
    BY <1>2, ElementOfSeq
  <1> HIDE DEF ups, S
  <1>4. /\ a \in Seq(Commands) /\ Len(a) = Len(ups)
        /\ \A i \in 1..Len(ups) : a[i].c = "key" /\ a[i].k = ups[i] /\ ~a[i].down /\ a[i].n = connects
    <2>1. \A i \in 1..Len(ups) : KeyCmd(ups[i], FALSE) \in Commands
      BY <1>1, <1>3, CommandsTyped
    <2>2. a \in [1..Len(ups) -> Commands]
      BY <1>2, <2>1
    <2>3. \A i \in 1..Len(ups) : a[i] = KeyCmd(ups[i], FALSE)
      BY <1>2
    <2>4. \A i \in 1..Len(ups) : a[i].c = "key" /\ a[i].k = ups[i] /\ ~a[i].down /\ a[i].n = connects
      BY <2>3 DEF KeyCmd
    <2> HIDE DEF a
    <2> QED BY <1>2, <2>2, <2>4, FunctionAsSeq
  <1>5. /\ b \in Seq(Commands)
        /\ \A i \in 1..Len(b) : b[i].c = "button" /\ ~b[i].down /\ b[i].n = connects
        /\ buttons => 1 \in 1..Len(b)
        /\ ~buttons => b = <<>>
    <2> DEFINE u == Button(FALSE)
    <2>1. u \in Commands /\ u.c = "button" /\ ~u.down /\ u.n = connects
      BY CommandsTyped DEF Button, Plain
    <2>2. CASE buttons
      <3>1. b = <<u>>
        BY <2>2
      <3> HIDE DEF b, u
      <3>2. b \in Seq(Commands) /\ Len(b) = 1 /\ b[1] = u
        BY <2>1, <3>1, SingleSeq
      <3>3. \A i \in 1..Len(b) : i = 1
        BY <3>2
      <3>4. \A i \in 1..Len(b) : b[i].c = "button" /\ ~b[i].down /\ b[i].n = connects
        BY <2>1, <3>2, <3>3
      <3>5. 1 \in 1..Len(b)
        BY <3>2
      <3> QED BY <2>2, <3>2, <3>4, <3>5
    <2>3. CASE ~buttons
      <3>1. b = <<>>
        BY <2>3
      <3> QED BY <2>3, <3>1, NoSeq
    <2> QED BY <2>2, <2>3
  <1> DEFINE r == a \o b
  <1>7. Releases = r
    BY DEF Releases, ups, S
  <1> HIDE DEF a, b
  <1>6. /\ r \in Seq(Commands) /\ Len(a) \in Nat /\ Len(b) \in Nat /\ Len(r) = Len(a) + Len(b)
        /\ \A i \in 1..Len(a) : r[i] = a[i] /\ i \in 1..Len(r)
        /\ \A i \in 1..Len(b) : r[Len(a) + i] = b[i] /\ Len(a) + i \in 1..Len(r)
        /\ \A i \in 1..Len(r) : i \in 1..Len(a) \/ \E j \in 1..Len(b) : i = Len(a) + j
    <2>1. a \in Seq(Commands) /\ b \in Seq(Commands)
      BY <1>4, <1>5
    <2> QED BY <2>1, JoinedSeq
  <1> HIDE DEF r
  <1>8. ASSUME NEW i \in 1..Len(r) PROVE r[i].c \in {"key", "button"} /\ ~r[i].down /\ r[i].n = connects
    <2>1. CASE i \in 1..Len(a)
      BY <1>4, <1>6, <2>1
    <2>2. CASE \E j \in 1..Len(b) : i = Len(a) + j
      BY <1>5, <1>6, <2>2
    <2> QED BY <1>6, <2>1, <2>2
  <1>9. ASSUME NEW k \in S PROVE \E i \in 1..Len(r) : Frees(r[i], "key", k)
    <2>1. PICK i \in 1..Len(ups) : ups[i] = k
      BY <1>2
    <2>2. i \in 1..Len(r) /\ r[i].c = "key" /\ r[i].k = k /\ ~r[i].down
      BY <1>4, <1>6, <2>1
    <2> QED BY <2>2 DEF Frees
  <1>10. ASSUME buttons PROVE \E i \in 1..Len(r) : Frees(r[i], "button", Cmd)
    <2>1. Len(a) + 1 \in 1..Len(r) /\ r[Len(a) + 1].c = "button" /\ ~r[Len(a) + 1].down
      BY <1>5, <1>6, <1>10
    <2> QED BY <2>1 DEF Frees
  <1>11. ASSUME pressed = {}, ~mods, ~buttons PROVE r = <<>>
    <2>1. S = {}
      BY <1>11 DEF S
    <2>2. Len(ups) = 0
      BY <1>2, <1>3, <2>1
    <2> QED BY <1>4, <1>5, <1>6, <1>11, <2>2, EmptySeq DEF r
  <1> QED BY <1>6, <1>7, <1>8, <1>9, <1>10, <1>11 DEF S

\* What the queue is after cmds were sent: it has them behind what was there, or
\* the first of them, and then the session is cancelled.
Sent(cmds) ==
  /\ cmds \in Seq(Commands)
  /\ queue' \in Seq(Commands) /\ Len(queue') <= QueueCap /\ cancelled' \in BOOLEAN
  /\ \E n \in 0..Len(cmds) :
       /\ Len(queue') = Len(queue) + n
       /\ \A i \in 1..Len(queue) : queue'[i] = queue[i]
       /\ \A i \in 1..n : queue'[Len(queue) + i] = cmds[i]
       /\ ~cancelled' => n = Len(cmds) /\ \A i \in 1..Len(cmds) : cmds[i].c # "disconnect"
  /\ cancelled /\ ~cancelled' => \E i \in 1..Len(cmds) : Connects(cmds[i])

\* CommandSender::send does so.
LEMMA SendAllSends ==
  ASSUME TypeOK, NEW cmds \in Seq(Commands), SendAll(cmds)
  PROVE  Sent(cmds)
  <1> DEFINE room == QueueCap - Len(queue)
             n    == IF Len(cmds) < room THEN Len(cmds) ELSE room
  <1>1. queue \in Seq(Commands) /\ Len(queue) \in Nat /\ Len(cmds) \in Nat /\ room \in Nat
    BY Constants DEF TypeOK
  <1>2. n \in 0..Len(cmds) /\ n <= room
    BY <1>1
  <1>3. Fitting(cmds) = SubSeq(cmds, 1, n)
    BY DEF Fitting
  <1> HIDE DEF n
  <1>4. \A i \in 1..n : cmds[i] \in Commands
    BY <1>1, <1>2, ElementOfSeq
  <1>5. /\ Fitting(cmds) \in Seq(Commands) /\ Len(Fitting(cmds)) = n
        /\ \A i \in 1..n : Fitting(cmds)[i] = cmds[i]
    BY <1>2, <1>3, <1>4, SubSeqProperties
  <1>6. /\ queue' \in Seq(Commands) /\ Len(queue') = Len(queue) + n
        /\ \A i \in 1..Len(queue) : queue'[i] = queue[i]
        /\ \A i \in 1..n : queue'[Len(queue) + i] = Fitting(cmds)[i]
    <2> DEFINE f == Fitting(cmds)
    <2>1. queue' = queue \o f
      BY DEF SendAll
    <2>2. f \in Seq(Commands) /\ Len(f) = n
      BY <1>5
    <2> HIDE DEF f
    <2>3. /\ queue \o f \in Seq(Commands) /\ Len(queue \o f) = Len(queue) + Len(f)
          /\ \A i \in 1..Len(queue) : (queue \o f)[i] = queue[i]
          /\ \A i \in 1..Len(f) : (queue \o f)[Len(queue) + i] = f[i]
      <3>1. queue \in Seq(Commands) /\ f \in Seq(Commands)
        BY <1>1, <2>2
      <3> QED BY <3>1, JoinedSeq
    <2>4. /\ queue' \in Seq(Commands) /\ Len(queue') = Len(queue) + n
          /\ \A i \in 1..Len(queue) : queue'[i] = queue[i]
          /\ \A i \in 1..n : queue'[Len(queue) + i] = f[i]
      BY <2>1, <2>2, <2>3
    <2> QED BY <2>4 DEF f
  <1>7. \A i \in 1..Len(queue) : queue'[i] = queue[i]
    BY <1>6
  <1>8. \A i \in 1..n : queue'[Len(queue) + i] = cmds[i]
    BY <1>5, <1>6
  <1>9. DOMAIN cmds = 1..Len(cmds)
    OBVIOUS
  <1>10. ~cancelled' => n = Len(cmds) /\ \A i \in 1..Len(cmds) : cmds[i].c # "disconnect"
    BY <1>5, <1>9 DEF SendAll, Has
  <1>11. cancelled /\ ~cancelled' => \E i \in 1..Len(cmds) : Connects(cmds[i])
    BY <1>9 DEF SendAll, Has, Connects
  <1>12. cancelled' \in BOOLEAN
    BY DEF SendAll
  <1>13. Len(queue') <= QueueCap
    <2>1. Len(queue') = Len(queue) + n
      BY <1>6
    <2>2. n \in Nat /\ Len(queue) \in Nat /\ QueueCap \in Nat /\ n <= QueueCap - Len(queue)
      BY <1>1, <1>2, Constants
    <2> QED BY <2>1, <2>2
  <1> HIDE DEF room
  <1>14. queue' \in Seq(Commands) /\ Len(queue') = Len(queue) + n
    BY <1>6
  <1> QED BY <1>2, <1>7, <1>8, <1>10, <1>11, <1>12, <1>13, <1>14 DEF Sent

\* Nothing was sent.
LEMMA NothingSent ==
  ASSUME TypeOK, UNCHANGED chan
  PROVE  Sent(<<>>)
  <1>1. queue' = queue /\ cancelled' = cancelled
    BY DEF chan
  <1>2. <<>> \in Seq(Commands) /\ Len(<<>>) = 0
    OBVIOUS
  <1>3. /\ queue \in Seq(Commands) /\ Len(queue) \in Nat /\ Len(queue) <= QueueCap
        /\ cancelled \in BOOLEAN
    BY DEF TypeOK
  <1>4. 0 \in 0..Len(<<>>) /\ Len(queue') = Len(queue) + 0
    BY <1>1, <1>3
  <1>5. cancelled' \in BOOLEAN /\ ~(cancelled /\ ~cancelled')
    BY <1>1, <1>3
  <1>6. queue' \in Seq(Commands) /\ Len(queue') <= QueueCap /\ \A i \in 1..Len(queue) : queue'[i] = queue[i]
    BY <1>1, <1>3
  <1>7. \A i \in 1..0 : FALSE
    OBVIOUS
  <1> QED BY <1>2, <1>4, <1>5, <1>6, <1>7 DEF Sent

-----------------------------------------------------------------------------
(* What is up after the first commands of a queue *)

\* It depends on those commands only.
LEMMA UpAgrees ==
  ASSUME NEW D, NEW c, NEW k, NEW q, NEW p, NEW n \in Nat, \A i \in 1..n : q[i] = p[i]
  PROVE  Up(D, q, c, k, n) <=> Up(D, p, c, k, n)
  <1>1. \A i \in 1..n : (Presses(q[i], c, k) <=> Presses(p[i], c, k)) /\ (Frees(q[i], c, k) <=> Frees(p[i], c, k))
    OBVIOUS
  <1>2. \A i \in 1..n : \A j \in i + 1..n : j \in 1..n
    OBVIOUS
  <1> QED BY <1>1, <1>2 DEF Up

\* Commands that do not press it leave it up, and so does one that releases it.
LEMMA UpReleased ==
  ASSUME NEW D, NEW c, NEW k, NEW q, NEW n \in Nat, NEW m \in Nat, n <= m,
         \A i \in n + 1..m : ~Presses(q[i], c, k),
         Up(D, q, c, k, n) \/ \E i \in n + 1..m : Frees(q[i], c, k)
  PROVE  Up(D, q, c, k, m)
  <1>1. \A i \in 1..m : i \in 1..n \/ i \in n + 1..m
    OBVIOUS
  <1>2. \A i \in 1..n : i \in 1..m /\ \A j \in i + 1..n : j \in i + 1..m
    OBVIOUS
  <1>3. \A i \in 1..n, j \in n + 1..m : j \in 1..m /\ j \in i + 1..m
    OBVIOUS
  <1>4. \A j \in n + 1..m : j \in 1..m
    OBVIOUS
  <1>5. CASE Up(D, q, c, k, n)
    BY <1>1, <1>2, <1>5 DEF Up
  <1>6. CASE \E i \in n + 1..m : Frees(q[i], c, k)
    BY <1>1, <1>3, <1>4, <1>6 DEF Up
  <1> QED BY <1>5, <1>6

\* Commands that do not release it leave it down, and so does one that presses it last.
LEMMA UpPressed ==
  ASSUME NEW D, NEW c, NEW k, NEW q, NEW n \in Nat, NEW m \in Nat, n <= m,
         \A i \in n + 1..m : ~Frees(q[i], c, k),
         ~Up(D, q, c, k, n) \/ \E i \in n + 1..m : Presses(q[i], c, k)
  PROVE  ~Up(D, q, c, k, m)
  <1>1. \A i \in 1..m : i \in 1..n \/ i \in n + 1..m
    OBVIOUS
  <1>2. \A i \in 1..n : i \in 1..m /\ \A j \in i + 1..m : j \in n + 1..m \/ j \in i + 1..n
    OBVIOUS
  <1>3. \A i \in n + 1..m : i \in 1..m /\ \A j \in i + 1..m : j \in n + 1..m
    OBVIOUS
  <1>4. CASE ~Up(D, q, c, k, n)
    <2>1. CASE k \in D /\ ~\E j \in 1..n : Frees(q[j], c, k)
      BY <1>1, <2>1 DEF Up
    <2>2. CASE \E i \in 1..n : Presses(q[i], c, k) /\ ~\E j \in i + 1..n : Frees(q[j], c, k)
      <3>1. PICK i \in 1..n : Presses(q[i], c, k) /\ ~\E j \in i + 1..n : Frees(q[j], c, k)
        BY <2>2
      <3>2. i \in 1..m /\ ~\E j \in i + 1..m : Frees(q[j], c, k)
        BY <1>2, <3>1
      <3> QED BY <3>1, <3>2 DEF Up
    <2> QED BY <1>4, <2>1, <2>2 DEF Up
  <1>5. CASE \E i \in n + 1..m : Presses(q[i], c, k)
    <2>1. PICK i \in n + 1..m : Presses(q[i], c, k)
      BY <1>5
    <2>2. i \in 1..m /\ ~\E j \in i + 1..m : Frees(q[j], c, k)
      BY <1>3
    <2> QED BY <2>1, <2>2 DEF Up
  <1> QED BY <1>4, <1>5

\* Commands that do neither change nothing.
LEMMA UpQuiet ==
  ASSUME NEW D, NEW c, NEW k, NEW q, NEW n \in Nat, NEW m \in Nat, n <= m,
         \A i \in n + 1..m : ~Presses(q[i], c, k) /\ ~Frees(q[i], c, k)
  PROVE  Up(D, q, c, k, m) <=> Up(D, q, c, k, n)
  BY UpReleased, UpPressed

\* The first command applied: E is what is down then.
LEMMA UpTail ==
  ASSUME NEW D, NEW E, NEW c, NEW k, NEW S, NEW q \in Seq(S), q # <<>>, NEW n \in 0..Len(Tail(q)),
         k \in E <=> Presses(q[1], c, k) \/ (k \in D /\ ~Frees(q[1], c, k))
  PROVE  Up(E, Tail(q), c, k, n) <=> Up(D, q, c, k, n + 1)
  <1> DEFINE t == Tail(q)
  <1>1. n \in Nat /\ \A i \in 1..n : t[i] = q[i + 1]
    BY HeadTailProperties
  <1> HIDE DEF t
  <1>2. \A i \in 1..n : /\ (Presses(t[i], c, k) <=> Presses(q[i + 1], c, k))
                       /\ (Frees(t[i], c, k) <=> Frees(q[i + 1], c, k))
    BY <1>1
  <1>3. Presses(q[1], c, k) => ~Frees(q[1], c, k)
    BY DEF Presses, Frees
  <1>4. \A i \in 1..n : i + 1 \in 1..n + 1 /\ i + 1 \in 2..n + 1
    BY <1>1
  <1>5. \A i \in 1..n + 1 : i = 1 \/ (i - 1 \in 1..n /\ i = (i - 1) + 1)
    BY <1>1
  <1>6. (\E j \in 1..n : Frees(t[j], c, k)) <=> (\E j \in 2..n + 1 : Frees(q[j], c, k))
    <2>1. ASSUME NEW j \in 1..n, Frees(t[j], c, k) PROVE \E i \in 2..n + 1 : Frees(q[i], c, k)
      <3>1. j + 1 \in 2..n + 1 /\ Frees(q[j + 1], c, k)
        BY <1>2, <1>4, <2>1
      <3> QED BY <3>1
    <2>2. ASSUME NEW j \in 2..n + 1, Frees(q[j], c, k) PROVE \E i \in 1..n : Frees(t[i], c, k)
      <3>1. j - 1 \in 1..n /\ j = (j - 1) + 1
        BY <1>1
      <3> QED BY <1>2, <2>2, <3>1
    <2> QED BY <2>1, <2>2
  <1>7. ASSUME NEW i \in 1..n
        PROVE  (\E j \in i + 1..n : Frees(t[j], c, k)) <=> (\E j \in i + 2..n + 1 : Frees(q[j], c, k))
    <2>1. \A j \in i + 1..n : j \in 1..n /\ j + 1 \in i + 2..n + 1
      BY <1>1
    <2>2. \A j \in i + 2..n + 1 : j - 1 \in i + 1..n /\ j - 1 \in 1..n /\ j = (j - 1) + 1
      BY <1>1
    <2> QED BY <1>2, <2>1, <2>2
  <1>8. (k \in D => \E j \in 1..n + 1 : Frees(q[j], c, k))
          /\ (Presses(q[1], c, k) => \E j \in 2..n + 1 : Frees(q[j], c, k))
        <=> (k \in E => \E j \in 2..n + 1 : Frees(q[j], c, k))
    <2>1. (\E j \in 1..n + 1 : Frees(q[j], c, k)) <=> Frees(q[1], c, k) \/ \E j \in 2..n + 1 : Frees(q[j], c, k)
      BY <1>1
    <2> QED BY <1>3, <2>1
  <1>9. (\A i \in 1..n : Presses(t[i], c, k) => \E j \in i + 1..n : Frees(t[j], c, k))
        <=> (\A i \in 2..n + 1 : Presses(q[i], c, k) => \E j \in i + 1..n + 1 : Frees(q[j], c, k))
    <2>1. \A i \in 1..n : (i + 1) + 1 = i + 2 /\ i + 1 \in 2..n + 1
      BY <1>1
    <2>2. \A i \in 2..n + 1 : i - 1 \in 1..n /\ (i - 1) + 1 = i /\ (i - 1) + 2 = i + 1
      BY <1>1
    <2> DEFINE A(i) == Presses(t[i], c, k) => \E j \in i + 1..n : Frees(t[j], c, k)
               B(i) == Presses(q[i], c, k) => \E j \in i + 1..n + 1 : Frees(q[j], c, k)
    <2>3. \A i \in 1..n : A(i) <=> B(i + 1)
      BY <1>2, <1>7, <2>1
    <2> HIDE DEF A, B
    <2>4. ASSUME \A i \in 1..n : A(i), NEW i \in 2..n + 1 PROVE B(i)
      BY <2>2, <2>3, <2>4
    <2>5. ASSUME \A i \in 2..n + 1 : B(i), NEW i \in 1..n PROVE A(i)
      BY <2>1, <2>3, <2>5
    <2>6. (\A i \in 1..n : A(i)) <=> (\A i \in 2..n + 1 : B(i))
      BY <2>4, <2>5
    <2> QED BY <2>6 DEF A, B
  <1>10. (\A i \in 1..n + 1 : Presses(q[i], c, k) => \E j \in i + 1..n + 1 : Frees(q[j], c, k))
        <=> /\ Presses(q[1], c, k) => \E j \in 2..n + 1 : Frees(q[j], c, k)
            /\ \A i \in 2..n + 1 : Presses(q[i], c, k) => \E j \in i + 1..n + 1 : Frees(q[j], c, k)
    BY <1>1
  <1> QED BY <1>6, <1>8, <1>9, <1>10 DEF Up, t

-----------------------------------------------------------------------------
(* What the actions of the UI thread send *)

\* Commands of the present session, none of them a Connect.
Sends(cmds) == Sent(cmds) /\ NoConnect(cmds) /\ Of(cmds, connects)

\* Such commands leave what the queue has as it is.
LEMMA SendsKeeps ==
  ASSUME TypeOK, NEW cmds, Sends(cmds)
  PROVE  /\ queue' \in Seq(Commands) /\ Len(queue') <= QueueCap /\ cancelled' \in BOOLEAN
         /\ cancelled => cancelled'
         /\ Len(queue) <= Len(queue') /\ Len(queue) \in Nat /\ Len(queue') \in Nat
         /\ \A i \in 1..Len(queue) : queue'[i] = queue[i] /\ i \in 1..Len(queue')
         /\ \A i \in 1..Len(queue') : i \notin 1..Len(queue) => ~Connects(queue'[i]) /\ queue'[i].n = connects
         /\ Len(cmds) = 0 => queue' = queue
  <1>1. PICK n \in 0..Len(cmds) :
          /\ Len(queue') = Len(queue) + n
          /\ \A i \in 1..Len(queue) : queue'[i] = queue[i]
          /\ \A i \in 1..n : queue'[Len(queue) + i] = cmds[i]
    BY DEF Sends, Sent
  <1>2. /\ queue \in Seq(Commands) /\ queue' \in Seq(Commands) /\ cmds \in Seq(Commands)
        /\ Len(queue') <= QueueCap /\ cancelled' \in BOOLEAN
    BY DEF TypeOK, Sends, Sent
  <1>3. Len(queue) \in Nat /\ Len(queue') \in Nat /\ Len(cmds) \in Nat
    BY <1>2
  <1>4. cancelled => cancelled'
    BY DEF Sends, Sent, NoConnect
  <1>5. ASSUME NEW i \in 1..Len(queue'), i \notin 1..Len(queue)
        PROVE  ~Connects(queue'[i]) /\ queue'[i].n = connects
    <2>1. i - Len(queue) \in 1..n /\ i - Len(queue) \in 1..Len(cmds) /\ i = Len(queue) + (i - Len(queue))
      BY <1>1, <1>3, <1>5
    <2>2. queue'[i] = cmds[i - Len(queue)]
      BY <1>1, <2>1
    <2> QED BY <2>1, <2>2 DEF Sends, NoConnect, Of
  <1>6. ASSUME Len(cmds) = 0 PROVE queue' = queue
    <2>1. Len(queue') = Len(queue) /\ \A i \in 1..Len(queue) : queue'[i] = queue[i]
      BY <1>1, <1>3, <1>6
    <2> QED BY <1>2, <2>1, SeqEqual
  <1>7. \A i \in 1..Len(queue) : i \in 1..Len(queue')
    BY <1>1, <1>3
  <1> QED BY <1>1, <1>2, <1>3, <1>4, <1>5, <1>6, <1>7

\* A part of a frame that sends nothing.
LEMMA NothingSends ==
  ASSUME TypeOK, UNCHANGED chan
  PROVE  Sends(<<>>) /\ Len(<<>>) = 0
  <1>1. Len(<<>>) = 0 /\ \A i \in 1..0 : FALSE
    OBVIOUS
  <1> QED BY <1>1, NothingSent DEF Sends, NoConnect, Of

\* release_input
LEMMA ReleasesSend ==
  ASSUME TypeOK, SendAll(Releases)
  PROVE  Sends(Releases) /\ (Blank /\ ~connected => Len(Releases) = 0)
  <1>1. /\ Releases \in Seq(Commands)
        /\ \A i \in 1..Len(Releases) : Releases[i].c \in {"key", "button"} /\ Releases[i].n = connects
    BY ReleasesAre
  <1>2. Sent(Releases)
    BY <1>1, SendAllSends
  <1>3. Blank /\ ~connected => Len(Releases) = 0
    <2>1. Blank /\ ~connected => Releases = <<>>
      BY ReleasesAre DEF Blank
    <2> QED BY <2>1
  <1>4. NoConnect(Releases) /\ Of(Releases, connects)
    BY <1>1 DEF NoConnect, Of, Connects
  <1> QED BY <1>2, <1>3, <1>4 DEF Sends

\* release_input and Disconnect, which the flag stands for if the queue is full.
LEMMA DisconnectSends ==
  ASSUME TypeOK,
         \/ SendAll(Append(Releases, Plain("disconnect")))
         \/ /\ queue' = queue \o Fitting(Append(Releases, Plain("disconnect")))
            /\ cancelled' = TRUE
  PROVE  cancelled' /\ Sends(Append(Releases, Plain("disconnect")))
  <1> DEFINE d == Plain("disconnect")
             r == Releases
             s == Append(r, d)
  <1>1. d \in Commands /\ d.c = "disconnect" /\ d.n = connects
    BY CommandsTyped DEF Plain
  <1>2. /\ r \in Seq(Commands)
        /\ \A i \in 1..Len(r) : r[i].c \in {"key", "button"} /\ r[i].n = connects
    BY ReleasesAre
  <1>3. SendAll(s) \/ (queue' = queue \o Fitting(s) /\ cancelled' = TRUE)
    OBVIOUS
  <1> HIDE DEF d, r
  <1>4. /\ s \in Seq(Commands) /\ Len(s) = Len(r) + 1 /\ Len(r) \in Nat
        /\ \A i \in 1..Len(r) : s[i] = r[i]
        /\ s[Len(r) + 1] = d
    BY <1>1, <1>2, AppendProperties
  <1>5. DOMAIN s = 1..Len(s) /\ Len(r) + 1 \in 1..Len(s)
    BY <1>4
  <1> HIDE DEF s
  <1>6. Has(s, "disconnect")
    BY <1>1, <1>4, <1>5 DEF Has
  <1>7. cancelled' = TRUE
    BY <1>3, <1>6 DEF SendAll
  <1>8. SendAll(s)
    BY <1>3, <1>6, <1>7 DEF SendAll
  <1>9. ASSUME NEW i \in 1..Len(s) PROVE s[i].c # "connect" /\ s[i].n = connects
    <2>1. i \in 1..Len(r) \/ i = Len(r) + 1
      BY <1>4
    <2> QED BY <1>1, <1>2, <1>4, <2>1
  <1>10. NoConnect(s) /\ Of(s, connects)
    BY <1>9 DEF NoConnect, Of, Connects
  <1>11. Sent(s)
    BY <1>4, <1>8, SendAllSends
  <1> QED BY <1>7, <1>10, <1>11 DEF Sends, s, r, d

\* remote_input: Command is brought in line with the keyboard, then at most one
\* command of X for the event.
Canvas(X) ==
  /\ CanvasRest /\ SendAll(ModDiff \o X)
  /\ X \in Seq(Commands) /\ Len(X) \in {0, 1}
  /\ \A i \in 1..Len(X) :
       X[i].c \in {"key", "button"} /\ X[i].k \in Keys \cup {Cmd} /\ X[i].n = connects

Base == Len(queue) + Len(ModDiff)

\* The change of Command that remote_input sends first, if there is one.
LEMMA ModDiffIs ==
  ASSUME TypeOK
  PROVE  /\ ModDiff \in Seq(Commands) /\ Len(ModDiff) \in Nat /\ NextMods \in BOOLEAN
         /\ \A i \in 1..Len(ModDiff) :
              /\ ModDiff[i].c = "key" /\ ModDiff[i].k = Cmd /\ ModDiff[i].n = connects
              /\ ModDiff[i].down <=> NextMods
         /\ (NextMods <=> mods) => Len(ModDiff) = 0
         /\ ~(NextMods <=> mods) => Len(ModDiff) = 1
  <1> DEFINE u == KeyCmd(Cmd, NextMods)
  <1>1. NextMods \in BOOLEAN /\ mods \in BOOLEAN
    BY DEF NextMods, TypeOK
  <1>2. u \in Commands
    BY <1>1, CommandsTyped DEF AllKeys
  <1>3. u.c = "key" /\ u.k = Cmd /\ u.n = connects /\ (u.down <=> NextMods)
    BY DEF KeyCmd
  <1>4. ModDiff = IF NextMods = mods THEN <<>> ELSE <<u>>
    BY DEF ModDiff
  <1> HIDE DEF u
  <1>5. CASE NextMods <=> mods
    <2>1. ModDiff = <<>>
      BY <1>1, <1>4, <1>5
    <2>2. ModDiff \in Seq(Commands) /\ Len(ModDiff) = 0
      BY <2>1
    <2> QED BY <1>1, <1>5, <2>2
  <1>6. CASE ~(NextMods <=> mods)
    <2>1. ModDiff = <<u>>
      BY <1>1, <1>4, <1>6
    <2>2. ModDiff \in Seq(Commands) /\ Len(ModDiff) = 1 /\ ModDiff[1] = u
      BY <1>2, <2>1, SingleSeq
    <2>3. \A i \in 1..Len(ModDiff) : i = 1
      BY <2>2
    <2> QED BY <1>1, <1>3, <1>6, <2>2, <2>3
  <1> QED BY <1>5, <1>6

\* What a canvas action sends is of the present session.
LEMMA CanvasSends ==
  ASSUME TypeOK, NEW X, Canvas(X)
  PROVE  Sends(ModDiff \o X)
  <1> DEFINE m == ModDiff
             s == m \o X
  <1>1. /\ m \in Seq(Commands) /\ X \in Seq(Commands)
        /\ \A i \in 1..Len(m) : m[i].c = "key" /\ m[i].n = connects
        /\ \A i \in 1..Len(X) : X[i].c \in {"key", "button"} /\ X[i].n = connects
    BY ModDiffIs DEF Canvas
  <1>2. SendAll(s)
    BY DEF Canvas
  <1> HIDE DEF m
  <1>3. /\ s \in Seq(Commands)
        /\ \A i \in 1..Len(m) : s[i] = m[i]
        /\ \A i \in 1..Len(X) : s[Len(m) + i] = X[i]
        /\ \A i \in 1..Len(s) : i \in 1..Len(m) \/ \E j \in 1..Len(X) : i = Len(m) + j
    <2>1. m \in Seq(Commands) /\ X \in Seq(Commands)
      BY <1>1
    <2> QED BY <2>1, JoinedSeq
  <1> HIDE DEF s
  <1>4. ASSUME NEW i \in 1..Len(s) PROVE s[i].c # "connect" /\ s[i].n = connects
    <2>1. CASE i \in 1..Len(m)
      BY <1>1, <1>3, <2>1
    <2>2. CASE \E j \in 1..Len(X) : i = Len(m) + j
      <3>1. PICK j \in 1..Len(X) : i = Len(m) + j
        BY <2>2
      <3>2. s[i] = X[j]
        BY <1>3, <3>1
      <3> QED BY <1>1, <3>2
    <2> QED BY <1>3, <2>1, <2>2
  <1>5. NoConnect(s) /\ Of(s, connects)
    BY <1>4 DEF NoConnect, Of, Connects
  <1>6. Sent(s)
    BY <1>2, <1>3, SendAllSends
  <1> QED BY <1>5, <1>6 DEF Sends, s, m

\* When nothing is lost: Command is as the keyboard has it, nothing else has
\* changed, and then comes X.
LEMMA CanvasQueue ==
  ASSUME TypeOK, ModsTracked, NEW X, Canvas(X), Live'
  PROVE  /\ Live /\ connected /\ ~cancelled /\ Len(queue) \in Nat /\ Base \in Nat
         /\ Len(queue) <= Base /\ Len(queue') = Base + Len(X)
         /\ \A i \in 1..Len(queue) : queue'[i] = queue[i]
         /\ \A i \in 1..Len(X) : queue'[Base + i] = X[i]
         /\ \A i \in Len(queue) + 1..Base : queue'[i].c = "key" /\ queue'[i].k = Cmd
         /\ \A D, c, k : c # "key" \/ k # Cmd =>
              (Up(D, queue', c, k, Base) <=> Up(D, queue, c, k, Len(queue)))
         /\ Up(macDown, queue', "key", Cmd, Base) <=> ~NextMods
  <1> DEFINE m == ModDiff
             s == m \o X
             l == Len(queue)
  <1>1. /\ m \in Seq(Commands) /\ X \in Seq(Commands) /\ Len(m) \in Nat
        /\ \A i \in 1..Len(m) : m[i].c = "key" /\ m[i].k = Cmd /\ (m[i].down <=> NextMods)
        /\ (NextMods <=> mods) => Len(m) = 0
        /\ ~(NextMods <=> mods) => Len(m) = 1
    BY ModDiffIs DEF Canvas
  <1>2. Sends(s)
    BY CanvasSends
  <1>3. Base = l + Len(m)
    BY DEF Base
  <1> HIDE DEF m
  <1>4. /\ s \in Seq(Commands) /\ Len(s) = Len(m) + Len(X)
        /\ \A i \in 1..Len(m) : s[i] = m[i] /\ i \in 1..Len(s)
        /\ \A i \in 1..Len(X) : s[Len(m) + i] = X[i] /\ Len(m) + i \in 1..Len(s)
    <2>1. m \in Seq(Commands) /\ X \in Seq(Commands)
      BY <1>1
    <2> QED BY <2>1, JoinedSeq
  <1> HIDE DEF s
  <1>5. l \in Nat /\ Len(X) \in Nat
    BY <1>1 DEF TypeOK
  <1>6. ~cancelled' /\ ~cancelled
    <2>1. ~cancelled'
      BY DEF Live
    <2> QED BY <1>2, <2>1, SendsKeeps
  <1>7. /\ Len(queue') = l + Len(s)
        /\ \A i \in 1..l : queue'[i] = queue[i]
        /\ \A i \in 1..Len(s) : queue'[l + i] = s[i]
    BY <1>2, <1>6 DEF Sends, Sent
  <1>8. Live /\ connected
    <2>1. bpc' = bpc /\ connected
      BY DEF Canvas, CanvasRest, Capturing, Shown, back
    <2> QED BY <1>6, <2>1 DEF Live
  <1>9. Base \in Nat /\ l <= Base /\ Len(queue') = Base + Len(X)
    BY <1>1, <1>3, <1>4, <1>5, <1>7
  <1>10. ASSUME NEW i \in 1..Len(X) PROVE queue'[Base + i] = X[i]
    <2>1. Base + i = l + (Len(m) + i)
      BY <1>1, <1>3, <1>5
    <2> QED BY <1>4, <1>7, <2>1
  <1>11. ASSUME NEW i \in l + 1..Base
         PROVE  queue'[i].c = "key" /\ queue'[i].k = Cmd /\ (queue'[i].down <=> NextMods)
    <2>1. i - l \in 1..Len(m) /\ i = l + (i - l)
      BY <1>1, <1>3, <1>5
    <2>2. queue'[i] = m[i - l]
      BY <1>4, <1>7, <2>1
    <2> QED BY <1>1, <2>1, <2>2
  <1>12. ASSUME NEW D, NEW c, NEW k PROVE Up(D, queue', c, k, l) <=> Up(D, queue, c, k, l)
    BY <1>5, <1>7, UpAgrees
  <1> HIDE DEF l
  <1>13. ASSUME NEW D, NEW c, NEW k, c # "key" \/ k # Cmd
         PROVE  Up(D, queue', c, k, Base) <=> Up(D, queue, c, k, l)
    <2>1. \A i \in l + 1..Base : ~Presses(queue'[i], c, k) /\ ~Frees(queue'[i], c, k)
      BY <1>11, <1>13 DEF Presses, Frees
    <2> QED BY <1>5, <1>9, <1>12, <2>1, UpQuiet
  <1>14. Up(macDown, queue', "key", Cmd, Base) <=> ~NextMods
    <2>1. mods <=> ~Up(macDown, queue', "key", Cmd, l)
      BY <1>8, <1>12 DEF ModsTracked, UpAfter, l
    <2>2. CASE NextMods <=> mods
      <3>1. Base = l
        BY <1>1, <1>3, <1>5, <2>2
      <3> QED BY <2>1, <2>2, <3>1
    <2>3. CASE ~(NextMods <=> mods)
      <3>1. Base = l + 1 /\ Base \in l + 1..Base
        <4>1. Len(m) = 1
          BY <1>1, <2>3
        <4> QED BY <1>3, <1>5, <4>1
      <3>2. CASE NextMods
        <4>1. Presses(queue'[Base], "key", Cmd)
          BY <1>11, <3>1, <3>2 DEF Presses
        <4>2. \A i \in l + 1..Base : ~Frees(queue'[i], "key", Cmd)
          BY <1>11, <3>2 DEF Frees
        <4> QED BY <1>5, <1>9, <3>1, <3>2, <4>1, <4>2, UpPressed
      <3>3. CASE ~NextMods
        <4>1. Frees(queue'[Base], "key", Cmd)
          BY <1>11, <3>1, <3>3 DEF Frees
        <4>2. \A i \in l + 1..Base : ~Presses(queue'[i], "key", Cmd)
          BY <1>11, <3>3 DEF Presses
        <4> QED BY <1>5, <1>9, <3>1, <3>3, <4>1, <4>2, UpReleased
      <3> QED BY <3>2, <3>3
    <2> QED BY <2>2, <2>3
  <1> QED BY <1>5, <1>6, <1>7, <1>8, <1>9, <1>10, <1>11, <1>13, <1>14 DEF l

\* The actions of remote_input and their X.
LEMMA CanvasActions ==
  ASSUME TypeOK
  PROVE  /\ NoEvent => Canvas(<<>>)
         /\ \A k \in Keys : KeyDown(k) \/ KeyRepeat(k) => Canvas(<<KeyCmd(k, TRUE)>>)
         /\ \A k \in Keys : KeyUp(k) =>
              Canvas(IF k \in pressed THEN <<KeyCmd(k, FALSE)>> ELSE <<>>)
         /\ \A d \in BOOLEAN : Click(d) => Canvas(<<Button(d)>>)
         /\ Copy \/ PasteRemote => Canvas(<<>>)
         /\ PasteLocal => Canvas(IF NextMods THEN <<KeyCmd(Cmd, FALSE)>> ELSE <<>>)
  <1> DEFINE None == << >>
  <1>1. ModDiff \in Seq(Commands)
    BY ModDiffIs
  <1>2. /\ None \in Seq(Commands) /\ Len(None) = 0 /\ ModDiff \o None = ModDiff
        /\ \A i \in 1..Len(None) : FALSE
    BY <1>1, ConcatEmptySeq
  <1>3. ASSUME CanvasRest, SendAll(ModDiff) PROVE Canvas(None)
    <2> HIDE DEF None
    <2> QED BY <1>2, <1>3 DEF Canvas
  <1>4. ASSUME NEW x \in Commands, CanvasRest,
               SendAll(Append(ModDiff, x)) \/ SendAll(ModDiff \o <<x>>),
               x.c \in {"key", "button"}, x.k \in Keys \cup {Cmd}, x.n = connects
        PROVE  Canvas(<<x>>)
    <2>1. <<x>> \in Seq(Commands) /\ Len(<<x>>) = 1 /\ <<x>>[1] = x
      BY SingleSeq
    <2>2. Append(ModDiff, x) = ModDiff \o <<x>>
      BY <1>1, AppendIsConcat
    <2>3. SendAll(ModDiff \o <<x>>)
      BY <1>4, <2>2
    <2> DEFINE s == <<x>>
    <2>4. s \in Seq(Commands) /\ Len(s) = 1 /\ s[1] = x /\ SendAll(ModDiff \o s)
      BY <2>1, <2>3
    <2> HIDE DEF s
    <2>5. \A i \in 1..Len(s) : s[i] = x
      BY <2>4
    <2>6. Canvas(s)
      BY <1>4, <2>4, <2>5 DEF Canvas
    <2> QED BY <2>6 DEF s
  <1>5. ASSUME NEW k \in Keys \cup {Cmd}, NEW d \in BOOLEAN
        PROVE  /\ KeyCmd(k, d) \in Commands /\ KeyCmd(k, d).c \in {"key", "button"}
               /\ KeyCmd(k, d).k \in Keys \cup {Cmd} /\ KeyCmd(k, d).n = connects
    <2>1. KeyCmd(k, d) \in Commands
      BY CommandsTyped DEF AllKeys
    <2> QED BY <2>1 DEF KeyCmd
  <1>6. ASSUME NEW d \in BOOLEAN
        PROVE  /\ Button(d) \in Commands /\ Button(d).c \in {"key", "button"}
               /\ Button(d).k \in Keys \cup {Cmd} /\ Button(d).n = connects
    <2>1. Button(d) \in Commands
      BY CommandsTyped
    <2> QED BY <2>1 DEF Button, Plain
  <1>7. NoEvent => Canvas(None)
    BY <1>3 DEF NoEvent
  <1>8. ASSUME NEW k \in Keys, KeyDown(k) \/ KeyRepeat(k) PROVE Canvas(<<KeyCmd(k, TRUE)>>)
    <2> DEFINE x == KeyCmd(k, TRUE)
    <2>1. CanvasRest /\ SendAll(Append(ModDiff, x))
      BY <1>8 DEF KeyDown, KeyRepeat
    <2>2. x \in Commands /\ x.c \in {"key", "button"} /\ x.k \in Keys \cup {Cmd} /\ x.n = connects
      BY <1>5
    <2> HIDE DEF x
    <2>3. Canvas(<<x>>)
      BY <1>4, <2>1, <2>2
    <2> QED BY <2>3 DEF x
  <1>9. ASSUME NEW k \in Keys, KeyUp(k)
        PROVE  Canvas(IF k \in pressed THEN <<KeyCmd(k, FALSE)>> ELSE <<>>)
    <2> DEFINE x == KeyCmd(k, FALSE)
    <2>1. CanvasRest /\ SendAll(ModDiff \o IF k \in pressed THEN <<x>> ELSE None)
      BY <1>9 DEF KeyUp
    <2>2. x \in Commands /\ x.c \in {"key", "button"} /\ x.k \in Keys \cup {Cmd} /\ x.n = connects
      BY <1>5
    <2> HIDE DEF x, None
    <2>3. CASE k \in pressed
      <3>1. Canvas(<<x>>)
        BY <1>4, <2>1, <2>2, <2>3
      <3> QED BY <2>3, <3>1 DEF x
    <2>4. CASE k \notin pressed
      <3>1. SendAll(ModDiff)
        BY <1>2, <2>1, <2>4
      <3>2. Canvas(None)
        BY <1>3, <2>1, <3>1
      <3> QED BY <2>4, <3>2 DEF None
    <2> QED BY <2>3, <2>4
  <1>10. ASSUME NEW d \in BOOLEAN, Click(d) PROVE Canvas(<<Button(d)>>)
    <2> DEFINE x == Button(d)
    <2>1. CanvasRest /\ SendAll(Append(ModDiff, x))
      BY <1>10 DEF Click
    <2>2. x \in Commands /\ x.c \in {"key", "button"} /\ x.k \in Keys \cup {Cmd} /\ x.n = connects
      BY <1>6
    <2> HIDE DEF x
    <2>3. Canvas(<<x>>)
      BY <1>4, <2>1, <2>2
    <2> QED BY <2>3 DEF x
  <1>11. Copy \/ PasteRemote => Canvas(None)
    BY <1>3 DEF Copy, PasteRemote
  <1>12. ASSUME PasteLocal PROVE Canvas(IF NextMods THEN <<KeyCmd(Cmd, FALSE)>> ELSE <<>>)
    <2> DEFINE x == KeyCmd(Cmd, FALSE)
    <2>1. CanvasRest /\ SendAll(ModDiff \o IF NextMods THEN <<x>> ELSE None)
      BY <1>12 DEF PasteLocal
    <2>2. x \in Commands /\ x.c \in {"key", "button"} /\ x.k \in Keys \cup {Cmd} /\ x.n = connects
      BY <1>5
    <2> HIDE DEF x, None
    <2>3. CASE NextMods
      <3>1. Canvas(<<x>>)
        BY <1>4, <2>1, <2>2, <2>3
      <3> QED BY <2>3, <3>1 DEF x
    <2>4. CASE ~NextMods
      <3>1. SendAll(ModDiff)
        BY <1>2, <2>1, <2>4
      <3>2. Canvas(None)
        BY <1>3, <2>1, <3>1
      <3> QED BY <2>4, <3>2 DEF None
    <2> QED BY <2>3, <2>4
  <1> QED BY <1>7, <1>8, <1>9, <1>10, <1>11, <1>12

-----------------------------------------------------------------------------
(* What is pasted *)

\* Text of the present session in which each press is followed by its release.
Pasted(Y) ==
  /\ Y \in Seq(Commands)
  /\ \A i \in 1..Len(Y) :
       Y[i].n = connects /\ (Y[i].c = "clipboard" \/ (Y[i].c = "key" /\ Y[i].k \in {Char, Letter}))
  /\ \A k : Up({}, Y, "key", k, Len(Y))

\* A replayed shortcut: the letter is pressed first and then released.
LEMMA TapIs ==
  ASSUME TypeOK
  PROVE  Pasted(Tap) /\ \A i \in 1..Len(Tap) : ~IsTyped(Tap[i]) /\ (IsShort(Tap[i]) => i = 1)
  <1> DEFINE u == KeyCmd(Letter, TRUE)
             v == KeyCmd(Letter, FALSE)
  <1>1. u \in Commands /\ v \in Commands
    BY CommandsTyped DEF AllKeys
  <1>2. /\ u.c = "key" /\ u.k = Letter /\ u.down /\ u.n = connects
        /\ v.c = "key" /\ v.k = Letter /\ ~v.down /\ v.n = connects
    BY DEF KeyCmd
  <1>3. Tap = <<u, v>>
    BY DEF Tap
  <1> HIDE DEF u, v
  <1>4. Tap \in Seq(Commands) /\ Len(Tap) = 2 /\ Tap[1] = u /\ Tap[2] = v
    BY <1>1, <1>3
  <1>5. \A i \in 1..Len(Tap) : i = 1 \/ i = 2
    BY <1>4
  <1>6. ASSUME NEW k PROVE Up({}, Tap, "key", k, Len(Tap))
    <2>1. \A i \in 1..Len(Tap) : Presses(Tap[i], "key", k) => i = 1 /\ k = Letter
      BY <1>2, <1>4, <1>5 DEF Presses
    <2>2. k = Letter => Frees(Tap[2], "key", k)
      BY <1>2, <1>4 DEF Frees
    <2>3. 2 \in 1 + 1..Len(Tap)
      BY <1>4
    <2> QED BY <2>1, <2>2, <2>3 DEF Up
  <1>7. ASSUME NEW i \in 1..Len(Tap)
        PROVE  /\ Tap[i].n = connects /\ Tap[i].c = "key" /\ Tap[i].k = Letter
               /\ Tap[i].down => i = 1
    BY <1>2, <1>4, <1>5
  <1>8. ASSUME NEW i \in 1..Len(Tap) PROVE ~IsTyped(Tap[i]) /\ (IsShort(Tap[i]) => i = 1)
    BY <1>7, Constants DEF IsTyped, IsShort
  <1> QED BY <1>4, <1>6, <1>7, <1>8 DEF Pasted

\* A typed text: each character is pressed and then released.
LEMMA TypedIs ==
  ASSUME TypeOK
  PROVE  Pasted(Typed) /\ \A i \in 1..Len(Typed) : ~IsShort(Typed[i])
  <1> DEFINE u == KeyCmd(Char, TRUE)
             v == KeyCmd(Char, FALSE)
             p == Plain("clipboard")
             N == 2 * TextLen
             f == [i \in 1..N |-> KeyCmd(Char, i % 2 = 1)]
             y == Typed
  <1>1. u \in Commands /\ v \in Commands /\ p \in Commands
    BY CommandsTyped DEF AllKeys
  <1>2. /\ u.c = "key" /\ u.k = Char /\ u.down /\ u.n = connects
        /\ v.c = "key" /\ v.k = Char /\ ~v.down /\ v.n = connects
        /\ p.c = "clipboard" /\ p.k = Cmd /\ ~p.down /\ p.n = connects
    BY DEF KeyCmd, Plain
  <1>3. N \in Nat
    BY Constants
  <1>4. \A i \in 1..N : f[i] = IF i % 2 = 1 THEN u ELSE v
    BY DEF KeyCmd
  <1>5. y = <<p>> \o f
    BY DEF Typed
  <1>6. f \in [1..N -> Commands]
    BY <1>1, <1>4
  <1> HIDE DEF u, v, p, f, y
  <1>7. f \in Seq(Commands) /\ Len(f) = N
    BY <1>3, <1>6, FunctionAsSeq
  <1>8. <<p>> \in Seq(Commands) /\ Len(<<p>>) = 1 /\ <<p>>[1] = p
    BY <1>1, SingleSeq
  <1> DEFINE s == <<p>>
  <1>9. s \in Seq(Commands) /\ Len(s) = 1 /\ s[1] = p /\ y = s \o f
    BY <1>5, <1>8
  <1> HIDE DEF s
  <1>10. /\ y \in Seq(Commands) /\ Len(y) = 1 + N /\ y[1] = p
         /\ \A i \in 1..N : y[1 + i] = f[i]
    <2>1. s \in Seq(Commands) /\ f \in Seq(Commands)
      BY <1>7, <1>9
    <2>2. /\ s \o f \in Seq(Commands) /\ Len(s \o f) = Len(s) + Len(f)
          /\ \A i \in 1..Len(s) : (s \o f)[i] = s[i]
          /\ \A i \in 1..Len(f) : (s \o f)[Len(s) + i] = f[i]
      BY <2>1, JoinedSeq
    <2>3. 1 \in 1..Len(s)
      BY <1>9
    <2> QED BY <1>7, <1>9, <2>2, <2>3
  <1> HIDE DEF N
  <1>11. ASSUME NEW i \in 1..Len(y)
         PROVE  \/ i = 1 /\ y[i] = p
                \/ i - 1 \in 1..N /\ y[i] = IF (i - 1) % 2 = 1 THEN u ELSE v
    <2>1. i = 1 \/ (i - 1 \in 1..N /\ i = 1 + (i - 1))
      BY <1>3, <1>10
    <2>2. i - 1 \in 1..N => y[i] = f[i - 1]
      BY <1>10, <2>1
    <2> QED BY <1>4, <1>10, <2>1, <2>2
  <1>12. ASSUME NEW i \in 1..Len(y)
         PROVE  y[i].n = connects /\ (y[i].c = "clipboard" \/ (y[i].c = "key" /\ y[i].k = Char)) /\ y[i].k # Letter
    BY <1>2, <1>11, Constants
  <1>13. ASSUME NEW k PROVE Up({}, y, "key", k, Len(y))
    <2> SUFFICES ASSUME NEW i \in 1..Len(y), Presses(y[i], "key", k)
                 PROVE  \E j \in i + 1..Len(y) : Frees(y[j], "key", k)
      BY DEF Up
    <2>1. i - 1 \in 1..N /\ (i - 1) % 2 = 1 /\ k = Char
      BY <1>2, <1>11 DEF Presses
    <2>2. i + 1 \in i + 1..Len(y) /\ i + 1 \in 1..Len(y) /\ (i + 1) - 1 \in 1..N /\ ((i + 1) - 1) % 2 # 1 /\ i + 1 # 1
      BY <1>3, <1>10, <2>1, Constants DEF N
    <2>3. y[i + 1] = v
      BY <1>11, <2>2
    <2>4. Frees(y[i + 1], "key", k)
      BY <1>2, <2>1, <2>3 DEF Frees
    <2> QED BY <2>2, <2>4
  <1>14. Pasted(y)
    BY <1>10, <1>12, <1>13 DEF Pasted
  <1>15. \A i \in 1..Len(y) : ~IsShort(y[i])
    BY <1>12 DEF IsShort
  <1> QED BY <1>14, <1>15 DEF y

\* Each press is still followed by its release when more is pasted.
LEMMA UpJoined ==
  ASSUME NEW S, NEW s \in Seq(S), NEW t \in Seq(S), NEW c, NEW k,
         Up({}, s, c, k, Len(s)), Up({}, t, c, k, Len(t))
  PROVE  Up({}, s \o t, c, k, Len(s \o t))
  <1> DEFINE r == s \o t
  <1>1. /\ r \in Seq(S) /\ Len(s) \in Nat /\ Len(t) \in Nat /\ Len(r) = Len(s) + Len(t)
        /\ \A i \in 1..Len(s) : r[i] = s[i] /\ i \in 1..Len(r)
        /\ \A i \in 1..Len(t) : r[Len(s) + i] = t[i] /\ Len(s) + i \in 1..Len(r)
        /\ \A i \in 1..Len(r) : i \in 1..Len(s) \/ \E j \in 1..Len(t) : i = Len(s) + j
    BY JoinedSeq
  <1> HIDE DEF r
  <1>2. ASSUME NEW i \in 1..Len(r), Presses(r[i], c, k)
        PROVE  \E j \in i + 1..Len(r) : Frees(r[j], c, k)
    <2>1. CASE i \in 1..Len(s)
      <3>1. PICK j \in i + 1..Len(s) : Frees(s[j], c, k)
        BY <1>1, <1>2, <2>1 DEF Up
      <3>2. j \in 1..Len(s) /\ j \in i + 1..Len(r)
        BY <1>1, <2>1, <3>1
      <3> QED BY <1>1, <3>1, <3>2
    <2>2. CASE \E j \in 1..Len(t) : i = Len(s) + j
      <3>1. PICK h \in 1..Len(t) : i = Len(s) + h
        BY <2>2
      <3>2. PICK j \in h + 1..Len(t) : Frees(t[j], c, k)
        BY <1>1, <1>2, <3>1 DEF Up
      <3>3. j \in 1..Len(t) /\ Len(s) + j \in i + 1..Len(r)
        BY <1>1, <3>1, <3>2
      <3>4. Frees(r[Len(s) + j], c, k)
        BY <1>1, <3>2, <3>3
      <3> QED BY <3>3, <3>4
    <2> QED BY <1>1, <2>1, <2>2
  <1>3. Up({}, r, c, k, Len(r))
    BY <1>2 DEF Up
  <1> QED BY <1>3 DEF r

\* What a paste adds to what is still to be typed.
LEMMA PasteGrows ==
  ASSUME TypeOK, NEW Y, Pasted(Y), paste' = paste \o Y
  PROVE  /\ paste' \in Seq(Commands) /\ Len(paste) \in Nat
         /\ \A i \in 1..Len(paste) : paste'[i] = paste[i] /\ i \in 1..Len(paste')
         /\ \A i \in 1..Len(paste') :
              i \in 1..Len(paste) \/ (i - Len(paste) \in 1..Len(Y) /\ paste'[i] = Y[i - Len(paste)])
         /\ \A k : Up({}, paste, "key", k, Len(paste)) => Up({}, paste', "key", k, Len(paste'))
  <1>1. paste \in Seq(Commands) /\ Y \in Seq(Commands)
    BY DEF TypeOK, Pasted
  <1>2. /\ paste' \in Seq(Commands) /\ Len(paste) \in Nat /\ Len(paste') = Len(paste) + Len(Y) /\ Len(Y) \in Nat
        /\ \A i \in 1..Len(paste) : paste'[i] = paste[i] /\ i \in 1..Len(paste')
        /\ \A i \in 1..Len(Y) : paste'[Len(paste) + i] = Y[i]
        /\ \A i \in 1..Len(paste') : i \in 1..Len(paste) \/ \E j \in 1..Len(Y) : i = Len(paste) + j
    BY <1>1, JoinedSeq
  <1>3. ASSUME NEW i \in 1..Len(paste'), i \notin 1..Len(paste)
        PROVE  i - Len(paste) \in 1..Len(Y) /\ paste'[i] = Y[i - Len(paste)]
    <2>1. PICK j \in 1..Len(Y) : i = Len(paste) + j
      BY <1>2, <1>3
    <2>2. j = i - Len(paste)
      BY <1>2, <2>1
    <2> QED BY <1>2, <2>1, <2>2
  <1>4. ASSUME NEW k, Up({}, paste, "key", k, Len(paste)) PROVE Up({}, paste', "key", k, Len(paste'))
    <2>1. Up({}, Y, "key", k, Len(Y))
      BY DEF Pasted
    <2> QED BY <1>1, <1>4, <2>1, UpJoined
  <1> QED BY <1>2, <1>3, <1>4

\* One batch of the paste moves to the queue.
LEMMA DrainSends ==
  ASSUME TypeOK, PasteOwn, DrainPaste, connected
  PROVE  \E n, cmds :
           /\ n \in 0..Len(paste) /\ Sends(cmds) /\ Len(cmds) = n /\ Len(paste) \in Nat /\ (Len(paste) # 0 => n # 0)
           /\ \A i \in 1..n : cmds[i] = paste[i]
           /\ ~cancelled' => /\ Len(queue') = Len(queue) + n
                             /\ \A i \in 1..n : queue'[Len(queue) + i] = paste[i]
           /\ paste' \in Seq(Commands) /\ Len(paste') = Len(paste) - n
           /\ \A i \in 1..Len(paste') : paste'[i] = paste[n + i] /\ n + i \in 1..Len(paste)
  <1> DEFINE n == IF Len(paste) < PasteBatch THEN Len(paste) ELSE PasteBatch
             cmds == SubSeq(paste, 1, n)
             rest == SubSeq(paste, n + 1, Len(paste))
             l == Len(paste)
  <1>1. paste \in Seq(Commands) /\ l \in Nat
    BY DEF TypeOK
  <1>2. n \in 0..l /\ n \in Nat /\ n <= l /\ (l # 0 => n # 0)
    BY <1>1, Constants
  <1>3. SendAll(cmds) /\ paste' = rest
    BY DEF DrainPaste
  <1> HIDE DEF n
  <1>4. \A i \in 1..l : paste[i] \in Commands
    BY <1>1, ElementOfSeq
  <1>5. /\ cmds \in Seq(Commands) /\ Len(cmds) = n
        /\ \A i \in 1..n : cmds[i] = paste[i]
    <2>1. \A i \in 1..n : paste[i] \in Commands
      BY <1>2, <1>4
    <2> QED BY <1>2, <2>1, SubSeqProperties
  <1>6. /\ rest \in Seq(Commands) /\ Len(rest) = l - n
        /\ \A i \in 1..l - n : rest[i] = paste[n + i] /\ n + i \in 1..l
    <2>1. \A i \in n + 1..l : paste[i] \in Commands
      BY <1>2, <1>4
    <2>2. n + 1 \in Int /\ l \in Int
      BY <1>1, <1>2
    <2>3. rest \in Seq(Commands) /\ Len(rest) = (IF n + 1 <= l THEN l - (n + 1) + 1 ELSE 0)
          /\ \A i \in 1..l - (n + 1) + 1 : rest[i] = paste[n + 1 + i - 1]
      BY <2>1, <2>2, SubSeqProperties
    <2>4. Len(rest) = l - n
      BY <1>1, <1>2, <2>3
    <2>5. ASSUME NEW i \in 1..l - n PROVE rest[i] = paste[n + i] /\ n + i \in 1..l
      <3>1. i \in 1..l - (n + 1) + 1 /\ n + 1 + i - 1 = n + i /\ n + i \in 1..l
        BY <1>1, <1>2
      <3> QED BY <2>3, <3>1
    <2> QED BY <2>3, <2>4, <2>5
  <1> HIDE DEF cmds, rest, l
  <1>7. \A i \in 1..n : i \in 1..l
    BY <1>1, <1>2
  <1>8. ASSUME NEW i \in 1..Len(cmds) PROVE cmds[i].c # "connect" /\ cmds[i].n = connects
    <2>1. i \in 1..l /\ cmds[i] = paste[i]
      BY <1>5, <1>7
    <2>2. paste[i].n = connects /\ (paste[i].c = "clipboard" \/ paste[i].c = "key")
      BY <2>1 DEF PasteOwn, Of, l
    <2> QED BY <2>1, <2>2
  <1>9. NoConnect(cmds) /\ Of(cmds, connects)
    BY <1>8 DEF NoConnect, Of, Connects
  <1>10. Sent(cmds)
    BY <1>3, <1>5, SendAllSends
  <1>11. Sends(cmds)
    BY <1>9, <1>10 DEF Sends
  <1>12. ASSUME ~cancelled'
         PROVE  Len(queue') = Len(queue) + n /\ \A i \in 1..n : queue'[Len(queue) + i] = paste[i]
    <2>1. Len(queue') = Len(queue) + n /\ \A i \in 1..n : queue'[Len(queue) + i] = cmds[i]
      BY <1>5, <1>10, <1>12 DEF Sent
    <2> QED BY <1>5, <2>1
  <1>13. /\ paste' \in Seq(Commands) /\ Len(paste') = l - n
         /\ \A i \in 1..Len(paste') : paste'[i] = paste[n + i] /\ n + i \in 1..l
    BY <1>3, <1>6
  <1> QED BY <1>1, <1>2, <1>5, <1>11, <1>12, <1>13 DEF l

\* Without a session what was pasted is dropped.
LEMMA DrainDrops ==
  ASSUME TypeOK, DrainPaste, ~connected
  PROVE  Sends(<<>>) /\ Len(<<>>) = 0 /\ paste' \in Seq(Commands) /\ Len(paste') = 0
  <1>1. UNCHANGED chan /\ paste' = <<>>
    BY DEF DrainPaste
  <1>2. paste' \in Seq(Commands) /\ Len(paste') = 0
    BY <1>1
  <1> QED BY <1>1, <1>2, NothingSends

\* The Connect is of the session it begins.
LEMMA ConnectSends ==
  ASSUME TypeOK, Turns, Connect
  PROVE  /\ queue' \in Seq(Commands) /\ Len(queue') <= QueueCap /\ cancelled' \in BOOLEAN
         /\ connects + 1 \in 0..MaxConnect /\ ~Busy /\ bpc \in Rests /\ events = <<>> /\ NoConnect(queue)
         /\ Len(queue) \in Nat /\ Len(queue') \in {Len(queue), Len(queue) + 1}
         /\ \A i \in 1..Len(queue) : queue'[i] = queue[i]
         /\ Len(queue') = Len(queue) + 1 => queue'[Len(queue) + 1].n = connects + 1
  <1> DEFINE x == [Plain("connect") EXCEPT !.n = connects + 1]
             s == <<x>>
  <1>1. connects + 1 \in 0..MaxConnect /\ connects \in Nat
    BY Constants DEF TypeOK, Connect
  <1>2. x \in Commands /\ x.n = connects + 1
    BY <1>1, CommandsTyped DEF Plain
  <1>3. SendAll(s)
    BY DEF Connect
  <1> HIDE DEF x
  <1>4. s \in Seq(Commands) /\ Len(s) = 1 /\ s[1] = x
    BY <1>2, SingleSeq
  <1> HIDE DEF s
  <1>5. Sent(s)
    BY <1>3, <1>4, SendAllSends
  <1>6. PICK n \in 0..Len(s) :
          /\ Len(queue') = Len(queue) + n
          /\ \A i \in 1..Len(queue) : queue'[i] = queue[i]
          /\ \A i \in 1..n : queue'[Len(queue) + i] = s[i]
    BY <1>5 DEF Sent
  <1>7. Len(queue) \in Nat
    BY DEF TypeOK
  <1>8. n = 0 \/ n = 1
    BY <1>4, <1>6
  <1>9. Len(queue') = Len(queue) + 1 => queue'[Len(queue) + 1].n = connects + 1
    <2>1. Len(queue') = Len(queue) + 1 => n = 1
      BY <1>6, <1>7, <1>8
    <2> QED BY <1>2, <1>4, <1>6, <1>8, <2>1
  <1>10. ~Busy /\ bpc \in Rests /\ events = <<>> /\ NoConnect(queue)
    BY DEF Connect, Busy, Turns
  <1> QED BY <1>1, <1>5, <1>6, <1>7, <1>8, <1>9, <1>10 DEF Sent

-----------------------------------------------------------------------------
(* The steps of the UI thread, the Connect apart *)

RemoteInput ==
  \/ NoEvent \/ Copy \/ PasteRemote \/ PasteLocal
  \/ \E k \in Keys : KeyDown(k) \/ KeyRepeat(k) \/ KeyUp(k)
  \/ \E d \in BOOLEAN : Click(d)

Ui ==
  \/ DrainPaste \/ OnConnected \/ OnDisconnected \/ TakeFrame \/ SkipToolbar \/ QuietCanvas
  \/ TogglePanel \/ Disconnect \/ Quit \/ Hands \/ RemoteInput

\* Each canvas action has its X.
LEMMA RemoteInputIs ==
  ASSUME TypeOK, RemoteInput
  PROVE  \E X : Canvas(X)
  BY CanvasActions, Zenon DEF RemoteInput

\* Each step sends commands of the present session, and to no session that has not begun.
LEMMA UiSends ==
  ASSUME TypeOK, PasteOwn, Ui
  PROVE  \E cmds : Sends(cmds) /\ (Blank /\ ~connected => Len(cmds) = 0 \/ cancelled')
  <1>1. CASE DrainPaste
    <2>1. CASE connected
      BY <1>1, <2>1, DrainSends
    <2>2. CASE ~connected
      BY <1>1, <2>2, DrainDrops
    <2> QED BY <2>1, <2>2
  <1>2. CASE UNCHANGED chan
    BY <1>2, NothingSends
  <1>3. CASE SendAll(Releases)
    BY <1>3, ReleasesSend
  <1>4. CASE Disconnect \/ Quit
    BY <1>4, DisconnectSends DEF Disconnect, Quit
  <1>5. CASE RemoteInput
    <2>1. PICK X : Canvas(X)
      BY <1>5, RemoteInputIs
    <2>2. connected
      BY <2>1 DEF Canvas, CanvasRest, Capturing, Shown
    <2> QED BY <2>1, <2>2, CanvasSends
  <1>6. CASE OnConnected \/ TakeFrame \/ SkipToolbar \/ Hands
    BY <1>2, <1>6 DEF OnConnected, TakeFrame, SkipToolbar, Hands, HandCmd, HandKeyUp, Focus
  <1>7. CASE OnDisconnected \/ TogglePanel
    BY <1>3, <1>7 DEF OnDisconnected, TogglePanel
  <1>8. CASE QuietCanvas
    BY <1>2, <1>3, <1>8 DEF QuietCanvas, chan
  <1> QED BY <1>1, <1>4, <1>5, <1>6, <1>7, <1>8 DEF Ui

\* None of them touches the backend or the Mac.
LEMMA UiKeeps ==
  ASSUME Ui
  PROVE  /\ connects' = connects /\ bpc' = bpc /\ bn' = bn /\ announced' = announced
         /\ macDown' = macDown /\ macButton' = macButton
  <1>1. UNCHANGED <<connects, back, remote>>
    <2>1. CASE DrainPaste \/ OnConnected \/ OnDisconnected \/ TakeFrame \/ SkipToolbar \/ QuietCanvas
      BY <2>1 DEF DrainPaste, OnConnected, OnDisconnected, TakeFrame, SkipToolbar, QuietCanvas
    <2>2. CASE TogglePanel \/ Disconnect \/ Quit \/ Hands
      BY <2>2 DEF TogglePanel, Disconnect, Quit, Hands, HandCmd, HandKeyUp, Focus
    <2>3. CASE RemoteInput
      BY <2>3 DEF RemoteInput, NoEvent, Copy, PasteRemote, PasteLocal, KeyDown, KeyRepeat, KeyUp, Click,
                  CanvasRest
    <2> QED BY <2>1, <2>2, <2>3 DEF Ui
  <1> QED BY <1>1 DEF back, remote

\* Only the two events change what the UI is told, and whether it is busy.
LEMMA UiView ==
  ASSUME Ui, ~OnConnected, ~OnDisconnected
  PROVE  connected' = connected /\ connecting' = connecting /\ events' = events /\ (Busy' <=> Busy)
  <1>1. CASE DrainPaste \/ TakeFrame \/ SkipToolbar \/ QuietCanvas \/ TogglePanel \/ Quit \/ Hands
    <2>1. events' = events /\ connected' = connected /\ connecting' = connecting /\ cancelling' = cancelling
      BY <1>1 DEF DrainPaste, TakeFrame, SkipToolbar, QuietCanvas, TogglePanel, Quit, Hands, HandCmd, HandKeyUp,
                  Focus, view
    <2> QED BY <2>1 DEF Busy
  <1>2. CASE RemoteInput
    <2>1. CanvasRest
      BY <1>2 DEF RemoteInput, NoEvent, Copy, PasteRemote, PasteLocal, KeyDown, KeyRepeat, KeyUp, Click
    <2>2. events' = events /\ connected' = connected /\ connecting' = connecting /\ cancelling' = cancelling
      BY <2>1 DEF CanvasRest, view
    <2> QED BY <2>2 DEF Busy
  <1>3. CASE Disconnect
    <2>1. events' = events /\ connected' = connected /\ connecting' = connecting /\ cancelling'
          /\ (connected \/ connecting)
      BY <1>3 DEF Disconnect
    <2> QED BY <2>1 DEF Busy
  <1> QED BY <1>1, <1>2, <1>3 DEF Ui

\* Types
LEMMA UiType ==
  ASSUME TypeOK, PasteOwn, Ui
  PROVE  TypeOK'
  <1>1. /\ queue' \in Seq(Commands) /\ Len(queue') <= QueueCap /\ cancelled' \in BOOLEAN
    BY UiSends, SendsKeeps
  <1>2. /\ connects' = connects /\ bpc' = bpc /\ bn' = bn /\ announced' = announced
        /\ macDown' = macDown /\ macButton' = macButton
    BY UiKeeps
  <1>3. /\ paste' \in Seq(Commands)
    <2>1. CASE DrainPaste
      BY <2>1, DrainSends, DrainDrops
    <2>2. CASE Copy \/ PasteRemote
      BY <2>2, TapIs, PasteGrows DEF Copy, PasteRemote
    <2>3. CASE PasteLocal
      BY <2>3, TypedIs, PasteGrows DEF PasteLocal
    <2>4. CASE UNCHANGED clip \/ UNCHANGED paste \/ paste' = <<>>
      <3>1. paste' = paste \/ paste' = <<>>
        BY <2>4 DEF clip
      <3> QED BY <3>1, NoSeq DEF TypeOK
    <2>5. CASE \/ OnConnected \/ OnDisconnected \/ TakeFrame \/ SkipToolbar \/ QuietCanvas
               \/ TogglePanel \/ Disconnect \/ Quit \/ Hands
      BY <2>4, <2>5 DEF OnConnected, OnDisconnected, TakeFrame, SkipToolbar, QuietCanvas, TogglePanel,
                        Disconnect, Quit, Hands, HandCmd, HandKeyUp, Focus
    <2>6. CASE NoEvent \/ (\E k \in Keys : KeyDown(k) \/ KeyRepeat(k) \/ KeyUp(k)) \/ \E d \in BOOLEAN : Click(d)
      BY <2>4, <2>6 DEF NoEvent, KeyDown, KeyRepeat, KeyUp, Click
    <2> QED BY <2>1, <2>2, <2>3, <2>5, <2>6 DEF Ui, RemoteInput
  <1>4. events' \in Seq({"connected", "disconnected"})
    <2>1. CASE OnConnected \/ OnDisconnected
      BY <2>1, HeadTailProperties DEF TypeOK, OnConnected, OnDisconnected
    <2>2. CASE ~(OnConnected \/ OnDisconnected)
      BY <2>2, UiView DEF TypeOK
    <2> QED BY <2>1, <2>2
  <1>5. phase' \in {"drain", "events", "toolbar", "canvas", "gone"}
    BY DEF Ui, RemoteInput, TypeOK, DrainPaste, OnConnected, OnDisconnected, TakeFrame, SkipToolbar,
           QuietCanvas, TogglePanel, Disconnect, Quit, Hands, HandCmd, HandKeyUp, Focus, NoEvent, Copy,
           PasteRemote, PasteLocal, KeyDown, KeyRepeat, KeyUp, Click, CanvasRest
  <1>6. texture' \in 0..MaxConnect /\ latest' \in 0..MaxConnect
    <2>1. CASE TakeFrame
      <3>1. MaxConnect \in Nat
        BY Constants
      <3> QED BY <2>1, <3>1 DEF TypeOK, TakeFrame
    <2>2. CASE OnDisconnected
      <3>1. MaxConnect \in Nat
        BY Constants
      <3> QED BY <2>2, <3>1 DEF TypeOK, OnDisconnected
    <2>3. CASE ~TakeFrame /\ ~OnDisconnected
      <3>1. texture' = texture /\ latest' = latest
        BY <2>3 DEF Ui, RemoteInput, DrainPaste, OnConnected, SkipToolbar, QuietCanvas, TogglePanel, Disconnect,
                    Quit, Hands, HandCmd, HandKeyUp, Focus, NoEvent, Copy, PasteRemote, PasteLocal, KeyDown,
                    KeyRepeat, KeyUp, Click, CanvasRest, view
      <3> QED BY <3>1 DEF TypeOK
    <2> QED BY <2>1, <2>2, <2>3
  <1> DEFINE B == {connected, connecting, cancelling, panel, mods, buttons, remoteOwns, cmdHeld, focused}
  <1>7. B' \subseteq BOOLEAN
    <2>1. B \subseteq BOOLEAN
      BY DEF TypeOK
    <2>2. CASE DrainPaste \/ OnConnected \/ OnDisconnected \/ TakeFrame \/ SkipToolbar \/ QuietCanvas
      <3>1. CASE DrainPaste \/ TakeFrame \/ SkipToolbar
        BY <2>1, <3>1 DEF DrainPaste, TakeFrame, SkipToolbar, view, input, clip, user
      <3>2. CASE OnConnected
        BY <2>1, <3>2 DEF OnConnected, input, clip, user
      <3>3. CASE OnDisconnected
        BY <2>1, <3>3 DEF OnDisconnected, Forget, clip, user
      <3>4. CASE QuietCanvas
        <4>1. (mods' = mods /\ buttons' = buttons) \/ (mods' = FALSE /\ buttons' = FALSE)
          BY <3>4 DEF QuietCanvas, Forget, input
        <4> QED BY <2>1, <3>4, <4>1 DEF QuietCanvas, view, clip, user
      <3> QED BY <2>2, <3>1, <3>2, <3>3, <3>4
    <2>3. CASE TogglePanel \/ Disconnect \/ Quit \/ Hands
      BY <2>1, <2>3 DEF TogglePanel, Disconnect, Quit, Hands, HandCmd, HandKeyUp, Focus, Forget, view, input,
                        clip, user
    <2>4. CASE RemoteInput
      <3>1. NextMods \in BOOLEAN
        BY ModDiffIs
      <3> QED BY <2>1, <2>4, <3>1 DEF RemoteInput, NoEvent, Copy, PasteRemote, PasteLocal, KeyDown, KeyRepeat,
                                      KeyUp, Click, CanvasRest, view, clip
    <2> QED BY <2>2, <2>3, <2>4 DEF Ui
  <1>8. pressed' \subseteq Keys /\ held' \subseteq Keys /\ edits' \in 0..MaxEdit
    <2>1. pressed \subseteq Keys /\ held \subseteq Keys /\ edits \in 0..MaxEdit /\ MaxEdit \in Nat
      BY Constants DEF TypeOK
    <2>2. CASE DrainPaste \/ OnConnected \/ OnDisconnected \/ TakeFrame \/ SkipToolbar \/ QuietCanvas
      BY <2>1, <2>2 DEF DrainPaste, OnConnected, OnDisconnected, TakeFrame, SkipToolbar, QuietCanvas, Forget,
                        input, user
    <2>3. CASE TogglePanel \/ Disconnect \/ Quit \/ Hands
      <3>1. CASE TogglePanel
        <4>1. pressed' = {} /\ held' = held /\ edits < MaxEdit /\ edits' = edits + 1
          BY <3>1 DEF TogglePanel, Forget
        <4> QED BY <2>1, <4>1
      <3>2. CASE Disconnect \/ Quit \/ Hands
        BY <2>1, <3>2 DEF Disconnect, Quit, Hands, HandCmd, HandKeyUp, Focus, Forget, input, user
      <3> QED BY <2>3, <3>1, <3>2
    <2>4. CASE RemoteInput
      <3>1. CASE Copy \/ PasteRemote \/ PasteLocal
        <4>1. pressed' = pressed /\ held' = held /\ edits < MaxEdit /\ edits' = edits + 1
          BY <3>1 DEF Copy, PasteRemote, PasteLocal
        <4> QED BY <2>1, <4>1
      <3>2. CASE \E d \in BOOLEAN : Click(d)
        BY <2>1, <3>2 DEF Click
      <3>3. CASE NoEvent \/ \E k \in Keys : KeyDown(k) \/ KeyRepeat(k) \/ KeyUp(k)
        BY <2>1, <3>3 DEF NoEvent, KeyDown, KeyRepeat, KeyUp
      <3> QED BY <2>4, <3>1, <3>2, <3>3 DEF RemoteInput
    <2> QED BY <2>2, <2>3, <2>4 DEF Ui
  <1> QED BY <1>1, <1>2, <1>3, <1>4, <1>5, <1>6, <1>7, <1>8 DEF TypeOK

-----------------------------------------------------------------------------
(* What the UI thread keeps *)

\* The queue after what the UI sends.
LEMMA UiQueue ==
  ASSUME TypeOK, PasteOwn, Ui
  PROVE  /\ NoConnect(queue) => NoConnect(queue')
         /\ Of(queue, connects) => Of(queue', connects)
         /\ Len(queue) \in Nat /\ Len(queue') \in Nat /\ Len(queue) <= Len(queue')
         /\ \A i \in 1..Len(queue) : queue'[i] = queue[i]
         /\ \A i \in 1..Len(queue') : i \notin 1..Len(queue) => ~Connects(queue'[i]) /\ queue'[i].n = connects
         /\ cancelled => cancelled'
         /\ Blank /\ ~connected => queue' = queue \/ cancelled'
  <1>1. PICK cmds : Sends(cmds) /\ (Blank /\ ~connected => Len(cmds) = 0 \/ cancelled')
    BY UiSends
  <1> QED BY <1>1, SendsKeeps DEF NoConnect, Of

\* The turns of the two threads are kept.
LEMMA UiTurns ==
  ASSUME TypeOK, Turns, PasteOwn, Ui
  PROVE  Turns'
  <1>1. /\ connects' = connects /\ bpc' = bpc /\ bn' = bn
    BY UiKeeps
  <1>2. /\ NoConnect(queue) => NoConnect(queue')
        /\ Of(queue, connects) => Of(queue', connects)
        /\ Len(queue) \in Nat /\ Len(queue') \in Nat /\ Len(queue) <= Len(queue')
        /\ \A i \in 1..Len(queue) : queue'[i] = queue[i]
        /\ \A i \in 1..Len(queue') : i \notin 1..Len(queue) => ~Connects(queue'[i]) /\ queue'[i].n = connects
    BY UiQueue
  <1>3. CASE ~OnConnected /\ ~OnDisconnected
    <2>1. connected' = connected /\ events' = events /\ (Busy' <=> Busy)
      BY <1>3, UiView
    <2>2. ~Busy => bpc \in Rests /\ events = <<>> /\ NoConnect(queue')
      BY <1>2 DEF Turns
    <2>3. bpc \in Rests => \A i \in 1..Len(events) : Ended(i) => i = Len(events) /\ NoConnect(queue')
      BY <1>2 DEF Turns
    <2>4. bpc \notin Rests => bn = connects /\ Of(queue', connects) /\ NoConnect(queue')
                              /\ \A i \in 1..Len(events) : ~Ended(i)
      BY <1>2 DEF Turns
    <2>5. ASSUME NEW i \in 1..Len(queue'), Connects(queue'[i])
          PROVE  /\ events = <<>> /\ ~connected
                 /\ \A j \in 1..Len(queue') : Connects(queue'[j]) => j = i
                 /\ \A j \in i..Len(queue') : queue'[j].n = connects
      <3>1. i \in 1..Len(queue) /\ Connects(queue[i])
        BY <1>2, <2>5
      <3>2. /\ events = <<>> /\ ~connected
            /\ \A j \in 1..Len(queue) : Connects(queue[j]) => j = i
            /\ \A j \in i..Len(queue) : queue[j].n = connects
        BY <3>1 DEF Turns
      <3>3. ASSUME NEW j \in 1..Len(queue'), Connects(queue'[j]) PROVE j = i
        <4>1. j \in 1..Len(queue) /\ Connects(queue[j])
          BY <1>2, <3>3
        <4> QED BY <3>2, <4>1
      <3>4. ASSUME NEW j \in i..Len(queue') PROVE queue'[j].n = connects
        <4>1. j \in 1..Len(queue') /\ (j \in 1..Len(queue) => j \in i..Len(queue))
          BY <1>2, <3>1
        <4> QED BY <1>2, <3>2, <4>1
      <3> QED BY <3>2, <3>3, <3>4
    <2>6. bpc \in {"starting", "negotiated"} => events = <<>> /\ ~connected
      BY DEF Turns
    <2> QED BY <1>1, <2>1, <2>2, <2>3, <2>4, <2>5, <2>6 DEF Turns, Ended
  <1>4. CASE OnConnected \/ OnDisconnected
    <2> DEFINE rest == Tail(events)
    <2>1. events # <<>> /\ events' = rest /\ events \in Seq({"connected", "disconnected"})
      BY <1>4 DEF OnConnected, OnDisconnected, TypeOK
    <2>2. /\ Len(events) \in Nat /\ Len(events) # 0 /\ Len(rest) = Len(events) - 1
          /\ \A i \in 1..Len(rest) : rest[i] = events[i + 1] /\ i + 1 \in 1..Len(events)
          /\ 1 \in 1..Len(events) /\ Head(events) = events[1]
          /\ Len(rest) = 0 => rest = <<>>
      BY <2>1, HeadTailProperties, EmptySeq
    <2> HIDE DEF rest
    <2>3. bpc \notin {"starting", "negotiated"} /\ Busy
      BY <2>1 DEF Turns
    <2>4. NoConnect(queue) /\ NoConnect(queue')
      BY <1>2, <2>1 DEF Turns, NoConnect
    <2>5. \A i \in 1..Len(queue') : ~Connects(queue'[i])
      BY <2>4 DEF NoConnect
    <2>6. ASSUME bpc \notin Rests
          PROVE  /\ bn = connects /\ Of(queue', connects)
                 /\ \A i \in 1..Len(rest) : rest[i] # "disconnected"
      BY <1>2, <2>2, <2>6 DEF Turns, Ended
    <2>7. ASSUME bpc \in Rests, NEW i \in 1..Len(rest), rest[i] = "disconnected" PROVE i = Len(rest)
      <3>1. i + 1 = Len(events)
        BY <2>2, <2>7 DEF Turns, Ended
      <3> QED BY <2>2, <3>1
    <2>8. CASE OnConnected
      <3>1. Busy'
        BY <2>3, <2>8 DEF OnConnected, Busy
      <3> QED BY <1>1, <2>1, <2>3, <2>4, <2>5, <2>6, <2>7, <3>1 DEF Turns, Ended
    <2>9. CASE OnDisconnected
      <3>1. events[1] = "disconnected"
        BY <2>2, <2>9 DEF OnDisconnected
      <3>2. bpc \in Rests /\ Len(events) = 1
        BY <2>2, <3>1 DEF Turns, Ended
      <3>3. rest = <<>> /\ ~connected'
        BY <2>2, <2>9, <3>2 DEF OnDisconnected
      <3>4. \A i \in 1..Len(rest) : FALSE
        BY <3>3
      <3> QED BY <1>1, <2>1, <2>3, <2>4, <2>5, <3>2, <3>3, <3>4 DEF Turns, Ended
    <2> QED BY <1>4, <2>8, <2>9
  <1> QED BY <1>3, <1>4

\* Without a session nothing gets pressed.
LEMMA UiBlank ==
  ASSUME TypeOK, Blank, Ui
  PROVE  Blank'
  <1>1. CASE OnDisconnected \/ TogglePanel \/ Disconnect \/ Quit
    BY <1>1 DEF OnDisconnected, TogglePanel, Disconnect, Quit, Forget, Blank
  <1>2. CASE RemoteInput
    <2>1. CanvasRest
      BY <1>2 DEF RemoteInput, NoEvent, Copy, PasteRemote, PasteLocal, KeyDown, KeyRepeat, KeyUp, Click
    <2>2. connected'
      BY <2>1 DEF CanvasRest, Capturing, Shown, view
    <2> QED BY <2>2 DEF Blank
  <1>3. CASE OnConnected
    <2>1. UNCHANGED input /\ (~connected' => ~connected)
      BY <1>3 DEF OnConnected
    <2> QED BY <2>1 DEF Blank, input
  <1>4. CASE DrainPaste \/ TakeFrame \/ SkipToolbar \/ Hands
    <2>1. UNCHANGED input /\ connected' = connected
      BY <1>4 DEF DrainPaste, TakeFrame, SkipToolbar, Hands, HandCmd, HandKeyUp, Focus, view
    <2> QED BY <2>1 DEF Blank, input
  <1>5. CASE QuietCanvas
    BY <1>5 DEF QuietCanvas, Forget, Blank, input, view
  <1> QED BY <1>1, <1>2, <1>3, <1>4, <1>5 DEF Ui

\* A session that has not begun is sent nothing.
LEMMA UiBegun ==
  ASSUME TypeOK, Turns, PasteOwn, Blank, Begun, Ui
  PROVE  Begun'
  <1>1. bpc' = bpc /\ macDown' = macDown /\ macButton' = macButton
    BY UiKeeps
  <1>2. /\ NoConnect(queue) => NoConnect(queue')
        /\ Len(queue) \in Nat
        /\ \A i \in 1..Len(queue) : queue'[i] = queue[i]
        /\ \A i \in 1..Len(queue') : i \notin 1..Len(queue) => ~Connects(queue'[i])
        /\ cancelled => cancelled'
        /\ ~connected => queue' = queue \/ cancelled'
    BY UiQueue
  <1>3. Live' => Live
    BY <1>1, <1>2 DEF Live
  <1>4. ASSUME Live', ~connected' PROVE ~connected
    <2>1. CASE OnDisconnected
      <3>1. events[1] = "disconnected" /\ 1 \in 1..Len(events)
        BY <2>1, HeadTailProperties DEF OnDisconnected, TypeOK
      <3>2. bpc \in Rests
        BY <3>1 DEF Turns, Ended
      <3> QED BY <1>3, <1>4, <3>2 DEF Live, Inside, Rests
    <2>2. CASE OnConnected
      BY <1>4, <2>2 DEF OnConnected
    <2>3. CASE ~OnConnected /\ ~OnDisconnected
      BY <1>4, <2>3, UiView
    <2> QED BY <2>1, <2>2, <2>3
  <1>5. ASSUME Live', ~connected' PROVE queue' = <<>>
    <2>1. ~cancelled'
      BY <1>5 DEF Live
    <2> QED BY <1>2, <1>3, <1>4, <1>5, <2>1 DEF Begun
  <1>6. ASSUME Live', ~connected', bpc' = "running" PROVE macDown' = {} /\ ~macButton'
    BY <1>1, <1>3, <1>4, <1>6 DEF Begun
  <1>7. ASSUME ~cancelled', NEW i \in 1..Len(queue'), Connects(queue'[i]) PROVE i = Len(queue')
    <2>1. i \in 1..Len(queue) /\ Connects(queue[i])
      BY <1>2, <1>7
    <2>2. i = Len(queue)
      BY <1>2, <1>7, <2>1 DEF Begun
    <2>3. ~connected
      BY <2>1 DEF Turns
    <2> QED BY <1>2, <1>7, <2>2, <2>3
  <1> QED BY <1>5, <1>6, <1>7 DEF Begun

\* A paste is of the present session, or about to be dropped.
LEMMA UiPasteOwn ==
  ASSUME TypeOK, Turns, PasteOwn, Ui
  PROVE  PasteOwn'
  <1> DEFINE Is(m) == m.c = "clipboard" \/ (m.c = "key" /\ m.k \in {Char, Letter})
  <1>1. connects' = connects
    BY UiKeeps
  <1>2. \A i \in 1..Len(paste) : Is(paste[i]) /\ (connected => paste[i].n = connects)
    BY DEF PasteOwn, Of
  <1>3. CASE DrainPaste
    <2>1. connected' = connected /\ phase' = "events"
      BY <1>3 DEF DrainPaste, view
    <2>2. CASE connected
      <3>1. PICK n \in 0..Len(paste) :
              \A i \in 1..Len(paste') : paste'[i] = paste[n + i] /\ n + i \in 1..Len(paste)
        BY <1>3, <2>2, DrainSends
      <3>2. \A i \in 1..Len(paste') : Is(paste'[i]) /\ paste'[i].n = connects
        BY <1>2, <2>2, <3>1
      <3> QED BY <1>1, <2>1, <2>2, <3>2 DEF PasteOwn, Of
    <2>3. CASE ~connected
      <3>1. paste' = <<>> /\ Len(paste') = 0
        BY <1>3, <2>3, DrainDrops DEF DrainPaste
      <3>2. \A i \in 1..Len(paste') : FALSE
        BY <3>1
      <3> QED BY <2>1, <2>3, <3>1, <3>2 DEF PasteOwn
    <2> QED BY <2>2, <2>3
  <1>4. CASE OnConnected \/ OnDisconnected
    <2>1. paste' = paste /\ phase' = phase /\ phase = "events" /\ events # <<>>
      BY <1>4 DEF OnConnected, OnDisconnected, clip
    <2>2. Busy
      BY <2>1 DEF Turns
    <2>3. ~connected => paste = <<>>
      BY <2>1, <2>2 DEF PasteOwn
    <2>4. paste = <<>> => Of(paste, connects)
      <3>1. \A i \in 1..Len(<<>>) : FALSE
        OBVIOUS
      <3> QED BY <3>1 DEF Of
    <2>5. ~connected' => ~connected \/ ~Busy'
      BY <1>4 DEF OnConnected, OnDisconnected, Busy
    <2> QED BY <1>1, <2>1, <2>3, <2>4, <2>5 DEF PasteOwn, Of
  <1>5. CASE TogglePanel
    <2>1. paste' = <<>>
      BY <1>5 DEF TogglePanel
    <2>2. \A i \in 1..Len(paste') : FALSE
      BY <2>1
    <2> QED BY <2>1, <2>2 DEF PasteOwn, Of
  <1>6. ASSUME paste' = paste, connected' = connected, Busy' <=> Busy,
               phase' \in {"drain", "gone"} \/ phase \in {"events", "toolbar", "canvas"}
        PROVE  PasteOwn'
    BY <1>1, <1>6 DEF PasteOwn, Of
  <1>7. CASE TakeFrame \/ SkipToolbar \/ Disconnect \/ QuietCanvas \/ Quit \/ Hands
    <2>1. connected' = connected /\ (Busy' <=> Busy)
      <3>1. ~OnConnected /\ ~OnDisconnected
        BY <1>7 DEF TakeFrame, SkipToolbar, Disconnect, QuietCanvas, Quit, Hands, HandCmd, HandKeyUp, Focus,
                    OnConnected, OnDisconnected
      <3> QED BY <3>1, UiView
    <2>2. paste' = paste
      BY <1>7 DEF TakeFrame, SkipToolbar, Disconnect, QuietCanvas, Quit, Hands, HandCmd, HandKeyUp, Focus, clip
    <2>3. phase' \in {"drain", "gone"} \/ phase \in {"events", "toolbar", "canvas"}
      BY <1>7 DEF TakeFrame, SkipToolbar, Disconnect, QuietCanvas, Quit, Hands, HandCmd, HandKeyUp, Focus
    <2> QED BY <1>6, <2>1, <2>2, <2>3
  <1>8. CASE RemoteInput
    <2>1. CanvasRest
      BY <1>8 DEF RemoteInput, NoEvent, Copy, PasteRemote, PasteLocal, KeyDown, KeyRepeat, KeyUp, Click
    <2>2. phase' = "drain" /\ connected' = connected /\ connected
      BY <2>1 DEF CanvasRest, Capturing, Shown, view
    <2>3. CASE paste' = paste
      BY <1>1, <2>2, <2>3 DEF PasteOwn, Of
    <2>4. CASE Copy \/ PasteRemote \/ PasteLocal
      <3>1. PICK Y : Pasted(Y) /\ paste' = paste \o Y
        BY <2>4, TapIs, TypedIs DEF Copy, PasteRemote, PasteLocal
      <3>2. \A i \in 1..Len(paste') :
              (i \in 1..Len(paste) /\ paste'[i] = paste[i])
                \/ (i - Len(paste) \in 1..Len(Y) /\ paste'[i] = Y[i - Len(paste)])
        BY <3>1, PasteGrows
      <3>3. \A i \in 1..Len(Y) : Is(Y[i]) /\ Y[i].n = connects
        BY <3>1 DEF Pasted
      <3>4. \A i \in 1..Len(paste') : Is(paste'[i]) /\ paste'[i].n = connects
        BY <1>2, <2>2, <3>2, <3>3
      <3> QED BY <1>1, <2>2, <3>4 DEF PasteOwn, Of
    <2>5. NoEvent \/ (\E k \in Keys : KeyDown(k) \/ KeyRepeat(k) \/ KeyUp(k)) \/ (\E d \in BOOLEAN : Click(d))
          => paste' = paste
      BY DEF NoEvent, KeyDown, KeyRepeat, KeyUp, Click, clip
    <2> QED BY <1>8, <2>3, <2>4, <2>5 DEF RemoteInput
  <1> QED BY <1>3, <1>4, <1>5, <1>7, <1>8 DEF Ui

-----------------------------------------------------------------------------
(* What the UI thread keeps track of *)

\* release_input, when nothing is lost: what it forgets is up.
LEMMA ReleasedQueue ==
  ASSUME TypeOK, SendAll(Releases), ~cancelled'
  PROVE  /\ ~cancelled /\ Len(queue) \in Nat /\ Len(queue') \in Nat /\ Len(queue) <= Len(queue')
         /\ \A i \in 1..Len(queue) : queue'[i] = queue[i]
         /\ \A i \in Len(queue) + 1..Len(queue') : ~queue'[i].down
         /\ \A D, c, k : Up(D, queue, c, k, Len(queue)) => Up(D, queue', c, k, Len(queue'))
         /\ \A D, k : k \in pressed \/ (mods /\ k = Cmd) => Up(D, queue', "key", k, Len(queue'))
         /\ \A D : buttons => Up(D, queue', "button", Cmd, Len(queue'))
  <1> DEFINE r == Releases
             l == Len(queue)
  <1>1. /\ r \in Seq(Commands)
        /\ \A i \in 1..Len(r) : ~r[i].down
        /\ \A k : k \in pressed \/ (mods /\ k = Cmd) => \E i \in 1..Len(r) : Frees(r[i], "key", k)
        /\ buttons => \E i \in 1..Len(r) : Frees(r[i], "button", Cmd)
    BY ReleasesAre
  <1>2. Sends(r)
    BY ReleasesSend
  <1> HIDE DEF r
  <1>3. ~cancelled /\ l \in Nat /\ Len(queue') \in Nat
    BY <1>2, SendsKeeps
  <1>4. /\ Len(queue') = l + Len(r)
        /\ \A i \in 1..l : queue'[i] = queue[i]
        /\ \A i \in 1..Len(r) : queue'[l + i] = r[i]
    BY <1>2 DEF Sends, Sent
  <1>5. Len(r) \in Nat
    BY <1>1
  <1> HIDE DEF l
  <1>6. \A i \in l + 1..Len(queue') : i - l \in 1..Len(r) /\ i = l + (i - l)
    BY <1>3, <1>4, <1>5
  <1>7. ASSUME NEW i \in l + 1..Len(queue') PROVE ~queue'[i].down
    BY <1>1, <1>4, <1>6
  <1>8. \A i \in 1..Len(r) : l + i \in l + 1..Len(queue')
    BY <1>3, <1>4, <1>5
  <1>9. ASSUME NEW D, NEW c, NEW k,
               Up(D, queue, c, k, l) \/ \E i \in 1..Len(r) : Frees(r[i], c, k)
        PROVE  Up(D, queue', c, k, Len(queue'))
    <2>1. \A i \in l + 1..Len(queue') : ~Presses(queue'[i], c, k)
      BY <1>7 DEF Presses
    <2>2. Up(D, queue, c, k, l) <=> Up(D, queue', c, k, l)
      BY <1>3, <1>4, UpAgrees
    <2>3. (\E i \in 1..Len(r) : Frees(r[i], c, k)) => \E i \in l + 1..Len(queue') : Frees(queue'[i], c, k)
      BY <1>4, <1>8
    <2>4. l <= Len(queue')
      BY <1>3, <1>4, <1>5
    <2> QED BY <1>3, <1>9, <2>1, <2>2, <2>3, <2>4, UpReleased
  <1>10. l <= Len(queue')
    BY <1>3, <1>4, <1>5
  <1> QED BY <1>1, <1>3, <1>4, <1>7, <1>9, <1>10 DEF l

\* A batch, when nothing is lost.
LEMMA DrainedQueue ==
  ASSUME TypeOK, PasteOwn, DrainPaste, connected, ~cancelled'
  PROVE  \E n \in 0..Len(paste) :
           /\ ~cancelled /\ Len(queue) \in Nat /\ Len(paste) \in Nat /\ Len(queue') = Len(queue) + n
           /\ Len(paste) # 0 => n # 0
           /\ \A i \in 1..Len(queue) : queue'[i] = queue[i]
           /\ \A i \in 1..n : queue'[Len(queue) + i] = paste[i]
           /\ Len(paste') = Len(paste) - n
           /\ \A i \in 1..Len(paste') : paste'[i] = paste[n + i] /\ n + i \in 1..Len(paste)
           /\ \A D, c, k : (c = "key" /\ k \notin {Char, Letter}) \/ c = "button" =>
                \A j \in Len(queue)..Len(queue') :
                  Up(D, queue', c, k, j) <=> Up(D, queue, c, k, Len(queue))
  <1> DEFINE l == Len(queue)
  <1>1. PICK n, cmds :
           /\ n \in 0..Len(paste) /\ Sends(cmds) /\ Len(paste) \in Nat /\ (Len(paste) # 0 => n # 0)
           /\ Len(queue') = l + n
           /\ \A i \in 1..n : queue'[l + i] = paste[i]
           /\ Len(paste') = Len(paste) - n
           /\ \A i \in 1..Len(paste') : paste'[i] = paste[n + i] /\ n + i \in 1..Len(paste)
    BY DrainSends
  <1>2. ~cancelled /\ l \in Nat /\ \A i \in 1..l : queue'[i] = queue[i]
    BY <1>1, SendsKeeps
  <1> HIDE DEF l
  <1>3. ASSUME NEW i \in l + 1..l + n
        PROVE  queue'[i].c = "clipboard" \/ (queue'[i].c = "key" /\ queue'[i].k \in {Char, Letter})
    <2>1. i - l \in 1..n /\ i - l \in 1..Len(paste) /\ i = l + (i - l)
      BY <1>1, <1>2
    <2>2. queue'[i] = paste[i - l]
      BY <1>1, <2>1
    <2> QED BY <2>1, <2>2 DEF PasteOwn
  <1>4. ASSUME NEW D, NEW c, NEW k, (c = "key" /\ k \notin {Char, Letter}) \/ c = "button", NEW j \in l..Len(queue')
        PROVE  Up(D, queue', c, k, j) <=> Up(D, queue, c, k, l)
    <2>1. j \in Nat /\ l <= j /\ \A i \in l + 1..j : i \in l + 1..l + n
      BY <1>1, <1>2
    <2>2. \A i \in l + 1..j : ~Presses(queue'[i], c, k) /\ ~Frees(queue'[i], c, k)
      BY <1>3, <1>4, <2>1 DEF Presses, Frees
    <2>3. Up(D, queue', c, k, j) <=> Up(D, queue', c, k, l)
      BY <1>2, <2>1, <2>2, UpQuiet
    <2> QED BY <1>2, <2>3, UpAgrees
  <1> QED BY <1>1, <1>2, <1>4 DEF l

\* The steps in which a session is live and the UI connected to it.
LEMMA UiLive ==
  ASSUME TypeOK, Turns, PasteOwn, Blank, Begun, Ui, Live', connected'
  PROVE  /\ Live /\ ~cancelled' /\ ~cancelled
         /\ \/ /\ connected /\ queue' = queue /\ pressed' = pressed /\ paste' = paste
               /\ mods' = mods /\ buttons' = buttons
            \/ /\ queue' = <<>> /\ macDown = {} /\ ~macButton
               /\ pressed' = {} /\ ~mods' /\ ~buttons' /\ paste' = <<>>
            \/ connected /\ SendAll(Releases) /\ Forget /\ (paste' = paste \/ TogglePanel)
            \/ connected /\ DrainPaste
            \/ RemoteInput
  <1>1. bpc' = bpc /\ (cancelled => cancelled') /\ ~cancelled'
    BY UiKeeps, UiQueue DEF Live
  <1>2. Live /\ ~cancelled' /\ ~cancelled
    BY <1>1 DEF Live
  <1>3. ASSUME ~OnConnected PROVE connected
    <2>1. ~OnDisconnected
      BY DEF OnDisconnected
    <2> QED BY <1>3, <2>1, UiView
  <1>4. CASE OnConnected
    <2>1. /\ queue' = queue /\ pressed' = pressed /\ mods' = mods /\ buttons' = buttons /\ paste' = paste
          /\ events # <<>> /\ phase = "events"
      BY <1>4 DEF OnConnected, chan, input, clip
    <2>2. CASE connected
      BY <1>2, <2>1, <2>2
    <2>3. CASE ~connected
      <3>1. Busy /\ bpc = "running"
        BY <1>2, <2>1 DEF Turns, Live, Inside
      <3>2. queue = <<>> /\ macDown = {} /\ ~macButton
        BY <1>2, <2>3, <3>1 DEF Begun
      <3>3. pressed = {} /\ ~mods /\ ~buttons
        BY <2>3 DEF Blank
      <3>4. paste = <<>>
        BY <2>1, <2>3, <3>1 DEF PasteOwn
      <3> QED BY <1>2, <2>1, <3>2, <3>3, <3>4
    <2> QED BY <2>2, <2>3
  <1>5. CASE TakeFrame \/ SkipToolbar \/ Hands \/ (QuietCanvas /\ ~Shown)
    <2>1. queue' = queue /\ pressed' = pressed /\ mods' = mods /\ buttons' = buttons /\ paste' = paste
      BY <1>5 DEF TakeFrame, SkipToolbar, Hands, HandCmd, HandKeyUp, Focus, QuietCanvas, chan, input, clip
    <2>2. ~OnConnected
      BY <1>5 DEF TakeFrame, SkipToolbar, Hands, HandCmd, HandKeyUp, Focus, QuietCanvas, OnConnected
    <2> QED BY <1>2, <1>3, <2>1, <2>2
  <1>6. CASE TogglePanel \/ (QuietCanvas /\ Shown)
    <2>1. ~OnConnected /\ SendAll(Releases) /\ Forget /\ (paste' = paste \/ TogglePanel)
      BY <1>6 DEF TogglePanel, QuietCanvas, OnConnected, clip
    <2> QED BY <1>2, <1>3, <2>1
  <1>7. CASE Disconnect \/ Quit
    BY <1>1, <1>7, DisconnectSends DEF Disconnect, Quit
  <1>8. CASE DrainPaste
    <2>1. ~OnConnected
      BY <1>8 DEF DrainPaste, OnConnected
    <2> QED BY <1>2, <1>3, <1>8, <2>1
  <1>9. CASE OnDisconnected
    BY <1>9 DEF OnDisconnected
  <1>10. CASE RemoteInput
    BY <1>2, <1>10
  <1> QED BY <1>4, <1>5, <1>6, <1>7, <1>8, <1>9, <1>10 DEF Ui

\* What the event of a canvas action does to what the app keeps track of.
LEMMA RemoteInputTracks ==
  ASSUME TypeOK, RemoteInput
  PROVE  \E X :
           /\ Canvas(X)
           /\ \/ mods' = NextMods /\ \A i \in 1..Len(X) : X[i].c = "key" => X[i].k # Cmd
              \/ ~mods' /\ \E i \in 1..Len(X) : Frees(X[i], "key", Cmd)
           /\ "repeat" \notin Acts =>
                \A k \in Keys \ pressed' :
                  \/ k \notin pressed /\ \A i \in 1..Len(X) : ~Presses(X[i], "key", k)
                  \/ \E i \in 1..Len(X) : Frees(X[i], "key", k)
           /\ ~buttons' => \/ ~buttons /\ \A i \in 1..Len(X) : ~Presses(X[i], "button", Cmd)
                           \/ \E i \in 1..Len(X) : Frees(X[i], "button", Cmd)
  <1> DEFINE None == << >>
             Good(X) ==
               /\ Canvas(X)
               /\ \/ mods' = NextMods /\ \A i \in 1..Len(X) : X[i].c = "key" => X[i].k # Cmd
                  \/ ~mods' /\ \E i \in 1..Len(X) : Frees(X[i], "key", Cmd)
               /\ "repeat" \notin Acts =>
                    \A k \in Keys \ pressed' :
                      \/ k \notin pressed /\ \A i \in 1..Len(X) : ~Presses(X[i], "key", k)
                      \/ \E i \in 1..Len(X) : Frees(X[i], "key", k)
               /\ ~buttons' => \/ ~buttons /\ \A i \in 1..Len(X) : ~Presses(X[i], "button", Cmd)
                               \/ \E i \in 1..Len(X) : Frees(X[i], "button", Cmd)
  <1>1. \A i \in 1..Len(None) : FALSE
    OBVIOUS
  <1>2. ASSUME Canvas(None), mods' = NextMods, Keys \ pressed' \subseteq Keys \ pressed, ~buttons' => ~buttons
        PROVE  Good(None)
    <2> HIDE DEF None
    <2> QED BY <1>1, <1>2
  <1>3. ASSUME NEW x, NEW X, Len(X) = 1, X[1] = x
        PROVE  1 \in 1..Len(X) /\ \A i \in 1..Len(X) : X[i] = x
    BY <1>3
  <1>4. ASSUME NEW x \in Commands
        PROVE  Len(<<x>>) = 1 /\ <<x>>[1] = x
    BY SingleSeq
  <1>5. ASSUME NoEvent \/ Copy \/ PasteRemote PROVE \E X : Good(X)
    <2>1. Canvas(None)
      BY <1>5, CanvasActions
    <2>2. mods' = NextMods /\ pressed' = pressed /\ buttons' = buttons
      BY <1>5 DEF NoEvent, Copy, PasteRemote
    <2>3. Good(None)
      BY <1>2, <2>1, <2>2
    <2> QED BY <2>3
  <1>6. ASSUME PasteLocal PROVE \E X : Good(X)
    <2> DEFINE x == KeyCmd(Cmd, FALSE)
               X == IF NextMods THEN <<x>> ELSE None
    <2>1. Canvas(X) /\ ~mods' /\ pressed' = pressed /\ buttons' = buttons
      BY <1>6, CanvasActions DEF PasteLocal
    <2>2. x \in Commands /\ x.c = "key" /\ x.k = Cmd /\ ~x.down
      BY CommandsTyped DEF KeyCmd, AllKeys
    <2>3. CASE ~NextMods
      <3>1. Canvas(None) /\ mods' = NextMods
        <4>1. NextMods \in BOOLEAN /\ mods' = FALSE
          BY <1>6, ModDiffIs DEF PasteLocal
        <4> QED BY <2>1, <2>3, <4>1
      <3>2. Good(None)
        BY <1>2, <2>1, <3>1
      <3> QED BY <3>2
    <2>4. CASE NextMods
      <3> DEFINE Y == <<x>>
      <3>1. Canvas(Y)
        BY <2>1, <2>4
      <3> HIDE DEF x
      <3>2. Len(Y) = 1 /\ Y[1] = x
        BY <1>4, <2>2
      <3> HIDE DEF Y
      <3>3. 1 \in 1..Len(Y) /\ \A i \in 1..Len(Y) : Y[i] = x
        BY <1>3, <3>2
      <3>4. \A c, k : ~Presses(x, c, k)
        BY <2>2 DEF Presses
      <3>5. Frees(x, "key", Cmd)
        BY <2>2 DEF Frees
      <3>6. Good(Y)
        BY <2>1, <3>1, <3>2, <3>3, <3>4, <3>5
      <3> QED BY <3>6
    <2> QED BY <2>3, <2>4
  <1>7. ASSUME NEW k \in Keys, KeyDown(k) \/ KeyRepeat(k) PROVE \E X : Good(X)
    <2> DEFINE x == KeyCmd(k, TRUE)
               Y == <<x>>
    <2>1. Canvas(Y) /\ mods' = NextMods /\ buttons' = buttons
          /\ ("repeat" \notin Acts => k \in pressed') /\ pressed \subseteq pressed'
      BY <1>7, CanvasActions DEF KeyDown, KeyRepeat
    <2>2. x \in Commands /\ x.c = "key" /\ x.k = k
      BY CommandsTyped DEF KeyCmd, AllKeys
    <2> HIDE DEF x
    <2>3. Len(Y) = 1 /\ Y[1] = x
      BY <1>4, <2>2
    <2> HIDE DEF Y
    <2>4. 1 \in 1..Len(Y) /\ \A i \in 1..Len(Y) : Y[i] = x
      BY <1>3, <2>3
    <2>5. k # Cmd /\ (\A h : h # k => ~Presses(x, "key", h)) /\ ~Presses(x, "button", Cmd)
      BY <2>2, Constants DEF Presses
    <2>6. Good(Y)
      BY <2>1, <2>2, <2>4, <2>5
    <2> QED BY <2>6
  <1>8. ASSUME NEW k \in Keys, KeyUp(k) PROVE \E X : Good(X)
    <2> DEFINE x == KeyCmd(k, FALSE)
               Y == <<x>>
    <2>1. /\ Canvas(IF k \in pressed THEN Y ELSE None) /\ mods' = NextMods /\ buttons' = buttons
          /\ pressed' = pressed \ {k}
      BY <1>8, CanvasActions DEF KeyUp
    <2>2. x \in Commands /\ x.c = "key" /\ x.k = k /\ ~x.down
      BY CommandsTyped DEF KeyCmd, AllKeys
    <2> HIDE DEF x
    <2>3. Len(Y) = 1 /\ Y[1] = x
      BY <1>4, <2>2
    <2> HIDE DEF Y
    <2>4. 1 \in 1..Len(Y) /\ \A i \in 1..Len(Y) : Y[i] = x
      BY <1>3, <2>3
    <2>5. k # Cmd /\ Frees(x, "key", k) /\ \A c, h : ~Presses(x, c, h)
      BY <2>2, Constants DEF Presses, Frees
    <2>6. CASE k \in pressed
      <3>1. Good(Y)
        BY <2>1, <2>2, <2>4, <2>5, <2>6
      <3> QED BY <3>1
    <2>7. CASE k \notin pressed
      <3>1. Canvas(None) /\ pressed' = pressed
        BY <2>1, <2>7
      <3>2. Good(None)
        BY <1>2, <2>1, <3>1
      <3> QED BY <3>2
    <2> QED BY <2>6, <2>7
  <1>9. ASSUME NEW d \in BOOLEAN, Click(d) PROVE \E X : Good(X)
    <2> DEFINE x == Button(d)
               Y == <<x>>
    <2>1. Canvas(Y) /\ mods' = NextMods /\ buttons' = d /\ pressed' = pressed
      BY <1>9, CanvasActions DEF Click
    <2>2. x \in Commands /\ x.c = "button" /\ (x.down <=> d)
      BY CommandsTyped DEF Button, Plain
    <2> HIDE DEF x
    <2>3. Len(Y) = 1 /\ Y[1] = x
      BY <1>4, <2>2
    <2> HIDE DEF Y
    <2>4. 1 \in 1..Len(Y) /\ \A i \in 1..Len(Y) : Y[i] = x
      BY <1>3, <2>3
    <2>5. (\A h : ~Presses(x, "key", h)) /\ (~d => Frees(x, "button", Cmd))
      BY <2>2 DEF Presses, Frees
    <2>6. Good(Y)
      BY <2>1, <2>2, <2>4, <2>5
    <2> QED BY <2>6
  <1>10. RemoteInput => \E X : Good(X)
    <2> HIDE DEF Good
    <2> QED BY <1>5, <1>6, <1>7, <1>8, <1>9, Zenon DEF RemoteInput
  <1> QED BY <1>10

\* Nothing is up or down by an empty queue.
LEMMA UpEmpty ==
  ASSUME NEW D, NEW c, NEW k, NEW q, k \notin D
  PROVE  Up(D, q, c, k, 0)
  BY DEF Up

\* Command is on the Mac what the app believes.
LEMMA UiMods ==
  ASSUME TypeOK, Turns, PasteOwn, Blank, Begun, ModsTracked, Ui
  PROVE  ModsTracked'
  <1> SUFFICES ASSUME Live', connected'
               PROVE  mods' <=> ~Up(macDown, queue', "key", Cmd, Len(queue'))
    <2>1. macDown' = macDown
      BY UiKeeps
    <2> QED BY <2>1 DEF ModsTracked, UpAfter
  <1>1. /\ Live /\ ~cancelled' /\ ~cancelled
        /\ \/ /\ connected /\ queue' = queue /\ mods' = mods
           \/ /\ queue' = <<>> /\ macDown = {} /\ ~mods'
           \/ connected /\ SendAll(Releases) /\ Forget
           \/ connected /\ DrainPaste
           \/ RemoteInput
    BY UiLive
  <1>2. connected => (mods <=> ~Up(macDown, queue, "key", Cmd, Len(queue)))
    BY <1>1 DEF ModsTracked, UpAfter
  <1>3. CASE connected /\ queue' = queue /\ mods' = mods
    BY <1>2, <1>3
  <1>4. CASE queue' = <<>> /\ macDown = {} /\ ~mods'
    <2>1. Len(queue') = 0
      BY <1>4
    <2>2. Up(macDown, queue', "key", Cmd, 0)
      BY <1>4, UpEmpty
    <2> QED BY <1>4, <2>1, <2>2
  <1>5. CASE connected /\ SendAll(Releases) /\ Forget
    <2>1. ~mods'
      BY <1>5 DEF Forget
    <2>2. mods => Up(macDown, queue', "key", Cmd, Len(queue'))
      BY <1>1, <1>5, ReleasedQueue
    <2>3. ~mods => Up(macDown, queue', "key", Cmd, Len(queue'))
      BY <1>1, <1>2, <1>5, ReleasedQueue
    <2> QED BY <2>1, <2>2, <2>3
  <1>6. CASE connected /\ DrainPaste
    <2>1. mods' = mods
      BY <1>6 DEF DrainPaste, input
    <2>2. PICK n \in 0..Len(paste) :
            /\ Len(queue) \in Nat /\ Len(queue') = Len(queue) + n
            /\ \A D, c, k : (c = "key" /\ k \notin {Char, Letter}) \/ c = "button" =>
                 \A j \in Len(queue)..Len(queue') :
                   Up(D, queue', c, k, j) <=> Up(D, queue, c, k, Len(queue))
      BY <1>1, <1>6, DrainedQueue
    <2>3. Len(queue') \in Len(queue)..Len(queue')
      BY <2>2
    <2>4. Up(macDown, queue', "key", Cmd, Len(queue')) <=> Up(macDown, queue, "key", Cmd, Len(queue))
      BY <2>2, <2>3, Constants
    <2> QED BY <1>2, <1>6, <2>1, <2>4
  <1>7. CASE RemoteInput
    <2>1. PICK X :
            /\ Canvas(X)
            /\ \/ mods' = NextMods /\ \A i \in 1..Len(X) : X[i].c = "key" => X[i].k # Cmd
               \/ ~mods' /\ \E i \in 1..Len(X) : Frees(X[i], "key", Cmd)
      BY <1>7, RemoteInputTracks
    <2>2. /\ Base \in Nat /\ Len(queue') = Base + Len(X)
          /\ \A i \in 1..Len(X) : queue'[Base + i] = X[i]
          /\ Up(macDown, queue', "key", Cmd, Base) <=> ~NextMods
      BY <2>1, CanvasQueue
    <2>3. X \in Seq(Commands) /\ Len(X) \in {0, 1}
      BY <2>1 DEF Canvas
    <2>4. Base <= Len(queue') /\ Len(queue') \in Nat
      BY <2>2, <2>3
    <2>5. \A i \in Base + 1..Len(queue') : i - Base \in 1..Len(X) /\ i = Base + (i - Base)
      BY <2>2, <2>3
    <2>6. CASE mods' = NextMods /\ \A i \in 1..Len(X) : X[i].c = "key" => X[i].k # Cmd
      <3>1. \A i \in Base + 1..Len(queue') : queue'[i].c = "key" => queue'[i].k # Cmd
        BY <2>2, <2>5, <2>6
      <3>2. \A i \in Base + 1..Len(queue') : ~Presses(queue'[i], "key", Cmd) /\ ~Frees(queue'[i], "key", Cmd)
        BY <3>1 DEF Presses, Frees
      <3>3. Up(macDown, queue', "key", Cmd, Len(queue')) <=> Up(macDown, queue', "key", Cmd, Base)
        BY <2>2, <2>4, <3>2, UpQuiet
      <3>4. mods' <=> NextMods
        BY <2>6
      <3> QED BY <2>2, <3>3, <3>4
    <2>7. CASE ~mods' /\ \E i \in 1..Len(X) : Frees(X[i], "key", Cmd)
      <3>1. Len(X) = 1 /\ Frees(X[1], "key", Cmd)
        BY <2>3, <2>7
      <3>2. queue'[Base + 1] = X[1] /\ Base + 1 \in Base + 1..Len(queue')
            /\ \A i \in Base + 1..Len(queue') : i = Base + 1
        BY <2>2, <3>1
      <3>3. Frees(queue'[Base + 1], "key", Cmd) /\ ~Presses(queue'[Base + 1], "key", Cmd)
        BY <3>1, <3>2 DEF Frees, Presses
      <3>4. \A i \in Base + 1..Len(queue') : ~Presses(queue'[i], "key", Cmd)
        BY <3>2, <3>3
      <3>5. Up(macDown, queue', "key", Cmd, Len(queue'))
        BY <2>2, <2>4, <3>2, <3>3, <3>4, UpReleased
      <3> QED BY <2>7, <3>5
    <2> QED BY <2>1, <2>6, <2>7
  <1> QED BY <1>1, <1>3, <1>4, <1>5, <1>6, <1>7

\* What a batch of the paste leaves of the characters' presses and releases.
LEMMA BatchTracked ==
  ASSUME TypeOK, PasteOwn, DrainPaste, connected, ~cancelled', NEW D, NEW k,
         Up({}, paste, "key", k, Len(paste)),
         Up(D, queue, "key", k, Len(queue)) \/ \E i \in 1..Len(paste) : Frees(paste[i], "key", k)
  PROVE  /\ Up({}, paste', "key", k, Len(paste'))
         /\ \/ Up(D, queue', "key", k, Len(queue'))
            \/ \E i \in 1..Len(paste') : Frees(paste'[i], "key", k)
  <1> DEFINE l == Len(queue)
             p == Len(paste)
             r == Len(paste')
             F(i) == Frees(paste[i], "key", k)
             P(i) == Presses(paste[i], "key", k)
  <1>1. PICK n \in 0..p :
           /\ l \in Nat /\ p \in Nat /\ Len(queue') = l + n
           /\ \A i \in 1..l : queue'[i] = queue[i]
           /\ \A i \in 1..n : queue'[l + i] = paste[i]
           /\ r = p - n
           /\ \A i \in 1..r : paste'[i] = paste[n + i]
    BY DrainedQueue
  <1>2. \A i \in 1..p : P(i) => \E j \in i + 1..p : F(j)
    BY DEF Up
  <1>3. \A i \in 1..r : (Presses(paste'[i], "key", k) <=> P(n + i)) /\ (Frees(paste'[i], "key", k) <=> F(n + i))
    BY <1>1
  <1>4. \A i \in 1..n : (Presses(queue'[l + i], "key", k) <=> P(i)) /\ (Frees(queue'[l + i], "key", k) <=> F(i))
    BY <1>1
  <1>5. Up(D, queue', "key", k, l) <=> Up(D, queue, "key", k, l)
    BY <1>1, UpAgrees
  <1>6. (\E i \in 1..p : F(i)) \/ Up(D, queue, "key", k, l)
    OBVIOUS
  <1> HIDE DEF l, p, r, F, P
  <1>7. Up({}, paste', "key", k, r)
    <2> SUFFICES ASSUME NEW i \in 1..r, Presses(paste'[i], "key", k)
                 PROVE  \E j \in i + 1..r : Frees(paste'[j], "key", k)
      BY DEF Up
    <2>1. n + i \in 1..p
      BY <1>1
    <2>2. PICK j \in n + i + 1..p : F(j)
      BY <1>2, <1>3, <2>1
    <2>3. j - n \in i + 1..r /\ j - n \in 1..r /\ n + (j - n) = j
      BY <1>1, <2>2
    <2>4. Frees(paste'[j - n], "key", k)
      BY <1>3, <2>2, <2>3
    <2> QED BY <2>3, <2>4
  <1>8. ASSUME ~\E i \in 1..r : Frees(paste'[i], "key", k) PROVE Up(D, queue', "key", k, l + n)
    <2>1. \A j \in 1..p : F(j) => j \in 1..n
      <3> SUFFICES ASSUME NEW j \in 1..p, j \notin 1..n PROVE ~F(j)
        OBVIOUS
      <3>1. j - n \in 1..r /\ n + (j - n) = j
        BY <1>1
      <3> QED BY <1>3, <1>8, <3>1
    <2>2. \A i \in 1..n : P(i) => \E j \in i + 1..n : F(j)
      <3> SUFFICES ASSUME NEW i \in 1..n, P(i) PROVE \E j \in i + 1..n : F(j)
        OBVIOUS
      <3>1. i \in 1..p
        BY <1>1
      <3>2. PICK j \in i + 1..p : F(j)
        BY <1>2, <3>1
      <3>3. j \in 1..p
        BY <1>1, <3>2
      <3>4. j \in i + 1..n
        BY <1>1, <2>1, <3>2, <3>3
      <3> QED BY <3>2, <3>4
    <2>3. CASE \E j \in 1..n : F(j)
      <3>1. PICK h \in 1..n : F(h)
        BY <2>3
      <3>2. Frees(queue'[l + h], "key", k) /\ l + h \in 1..l + n /\ \A i \in 1..l : l + h \in i + 1..l + n
        BY <1>1, <1>4, <3>1
      <3>3. ASSUME NEW i \in 1..l + n, Presses(queue'[i], "key", k)
            PROVE  \E j \in i + 1..l + n : Frees(queue'[j], "key", k)
        <4>1. CASE i \in 1..l
          BY <3>2, <4>1
        <4>2. CASE i \notin 1..l
          <5>1. i - l \in 1..n /\ l + (i - l) = i
            BY <1>1, <4>2
          <5>2. P(i - l)
            BY <1>4, <3>3, <5>1
          <5>3. PICK j \in (i - l) + 1..n : F(j)
            BY <2>2, <5>1, <5>2
          <5>4. j \in 1..n /\ l + j \in i + 1..l + n
            BY <1>1, <5>1, <5>3
          <5> QED BY <1>4, <5>3, <5>4
        <4> QED BY <4>1, <4>2
      <3> QED BY <3>2, <3>3 DEF Up
    <2>4. CASE ~\E j \in 1..n : F(j)
      <3>1. Up(D, queue', "key", k, l)
        <4>1. ~\E j \in 1..p : F(j)
          BY <2>1, <2>4
        <4> QED BY <1>5, <1>6, <4>1
      <3>2. ~\E i \in 1..n : P(i)
        <4> SUFFICES ASSUME NEW i \in 1..n, P(i) PROVE FALSE
          OBVIOUS
        <4>1. PICK j \in i + 1..n : F(j)
          BY <2>2
        <4>2. j \in 1..n
          BY <1>1, <4>1
        <4> QED BY <2>4, <4>1, <4>2
      <3>3. \A i \in l + 1..l + n : ~Presses(queue'[i], "key", k)
        <4> SUFFICES ASSUME NEW i \in l + 1..l + n PROVE ~Presses(queue'[i], "key", k)
          OBVIOUS
        <4>1. i - l \in 1..n /\ l + (i - l) = i
          BY <1>1
        <4> QED BY <1>4, <3>2, <4>1
      <3>4. l + n \in Nat /\ l <= l + n
        BY <1>1
      <3> QED BY <1>1, <3>1, <3>3, <3>4, UpReleased
    <2> QED BY <2>3, <2>4
  <1>9. Len(queue') = l + n
    BY <1>1
  <1> QED BY <1>7, <1>8, <1>9 DEF r

\* What is not tracked is released.
LEMMA UiTracked ==
  ASSUME TypeOK, Turns, PasteOwn, Blank, Begun, ModsTracked, Tracked, Ui, Untracked \cap Acts = {}
  PROVE  Tracked'
  <1> DEFINE B == ButtonDown
             l == Len(queue)
             m == Len(queue')
             Typing(k) ==
               /\ Up({}, paste', "key", k, Len(paste'))
               /\ Up(macDown, queue', "key", k, m) \/ \E i \in 1..Len(paste') : Frees(paste'[i], "key", k)
  <1>1. SUFFICES ASSUME Live', connected'
                 PROVE  /\ ~buttons' => Up(B, queue', "button", Cmd, m)
                        /\ \A k \in Keys \ pressed' : Up(macDown, queue', "key", k, m)
                        /\ \A k \in {Char, Letter} : Typing(k)
    <2>1. macDown' = macDown /\ B' = B
      BY UiKeeps DEF ButtonDown
    <2> QED BY <2>1 DEF Tracked, UpAfter
  <1>2. "repeat" \notin Acts /\ "panel in paste" \notin Acts
    BY DEF Untracked
  <1>3. /\ Live /\ ~cancelled' /\ ~cancelled
        /\ \/ /\ connected /\ queue' = queue /\ pressed' = pressed /\ paste' = paste /\ buttons' = buttons
           \/ /\ queue' = <<>> /\ macDown = {} /\ ~macButton /\ paste' = <<>>
           \/ connected /\ SendAll(Releases) /\ Forget /\ (paste' = paste \/ TogglePanel)
           \/ connected /\ DrainPaste
           \/ RemoteInput
    BY <1>1, UiLive
  <1>4. ASSUME connected
        PROVE  /\ ~buttons => Up(B, queue, "button", Cmd, l)
               /\ \A k \in Keys \ pressed : Up(macDown, queue, "key", k, l)
               /\ \A k \in {Char, Letter} :
                    /\ Up({}, paste, "key", k, Len(paste))
                    /\ Up(macDown, queue, "key", k, l) \/ \E i \in 1..Len(paste) : Frees(paste[i], "key", k)
    BY <1>3, <1>4 DEF Tracked, UpAfter
  <1> HIDE DEF B
  <1>5. CASE connected /\ queue' = queue /\ pressed' = pressed /\ paste' = paste /\ buttons' = buttons
    BY <1>4, <1>5
  <1>6. CASE queue' = <<>> /\ macDown = {} /\ ~macButton /\ paste' = <<>>
    <2>1. Len(queue') = 0 /\ Len(paste') = 0
      BY <1>6
    <2>2. B = {}
      BY <1>6 DEF B, ButtonDown
    <2>3. \A c, k, q : Up({}, q, c, k, 0)
      BY UpEmpty
    <2> QED BY <1>6, <2>1, <2>2, <2>3
  <1>7. CASE connected /\ SendAll(Releases) /\ Forget /\ (paste' = paste \/ TogglePanel)
    <2>1. paste' = paste
      <3>1. ASSUME TogglePanel PROVE paste = <<>> /\ paste' = <<>>
        BY <1>2, <3>1 DEF TogglePanel
      <3> QED BY <1>7, <3>1
    <2>2. /\ \A D, c, k : Up(D, queue, c, k, l) => Up(D, queue', c, k, m)
          /\ \A D, k : k \in pressed => Up(D, queue', "key", k, m)
          /\ \A D : buttons => Up(D, queue', "button", Cmd, m)
      BY <1>3, <1>7, ReleasedQueue
    <2>3. ~buttons' => Up(B, queue', "button", Cmd, m)
      BY <1>4, <1>7, <2>2
    <2>4. \A k \in Keys : Up(macDown, queue', "key", k, m)
      BY <1>4, <1>7, <2>2
    <2>5. \A k \in {Char, Letter} : Typing(k)
      BY <1>4, <1>7, <2>1, <2>2
    <2> QED BY <2>3, <2>4, <2>5
  <1>8. CASE connected /\ DrainPaste
    <2>1. pressed' = pressed /\ buttons' = buttons
      BY <1>8 DEF DrainPaste, input
    <2>2. /\ l \in Nat /\ m \in l..m
          /\ \A D, c, k : (c = "key" /\ k \notin {Char, Letter}) \/ c = "button" =>
               \A j \in l..m : Up(D, queue', c, k, j) <=> Up(D, queue, c, k, l)
      <3>1. PICK n \in 0..Len(paste) :
            /\ l \in Nat /\ m = l + n
            /\ \A D, c, k : (c = "key" /\ k \notin {Char, Letter}) \/ c = "button" =>
                 \A j \in l..m : Up(D, queue', c, k, j) <=> Up(D, queue, c, k, l)
        BY <1>3, <1>8, DrainedQueue
      <3>2. m \in l..m
        BY <3>1
      <3> QED BY <3>1, <3>2
    <2>3. ~buttons' => Up(B, queue', "button", Cmd, m)
      BY <1>4, <1>8, <2>1, <2>2
    <2>4. ASSUME NEW k \in Keys \ pressed' PROVE Up(macDown, queue', "key", k, m)
      <3>1. k \notin {Char, Letter} /\ k \in Keys \ pressed
        BY <2>1, Constants
      <3>2. Up(macDown, queue, "key", k, l)
        BY <1>4, <1>8, <3>1
      <3>3. \A j \in l..m : Up(macDown, queue', "key", k, j) <=> Up(macDown, queue, "key", k, l)
        BY <2>2, <3>1
      <3> QED BY <2>2, <3>2, <3>3
    <2>5. ASSUME NEW k \in {Char, Letter} PROVE Typing(k)
      BY <1>3, <1>4, <1>8, BatchTracked
    <2> QED BY <2>3, <2>4, <2>5
  <1>9. CASE RemoteInput
    <2>1. PICK X :
           /\ Canvas(X)
           /\ \A k \in Keys \ pressed' :
                \/ k \notin pressed /\ \A i \in 1..Len(X) : ~Presses(X[i], "key", k)
                \/ \E i \in 1..Len(X) : Frees(X[i], "key", k)
           /\ ~buttons' => \/ ~buttons /\ \A i \in 1..Len(X) : ~Presses(X[i], "button", Cmd)
                           \/ \E i \in 1..Len(X) : Frees(X[i], "button", Cmd)
      BY <1>2, <1>9, RemoteInputTracks
    <2>2. connected
      BY <2>1 DEF Canvas, CanvasRest, Capturing, Shown
    <2>3. X \in Seq(Commands) /\ Len(X) \in {0, 1}
          /\ \A i \in 1..Len(X) : X[i].k \in Keys \cup {Cmd}
      BY <2>1 DEF Canvas
    <2> QED
      <3>1. /\ Base \in Nat /\ m = Base + Len(X)
            /\ \A i \in 1..Len(X) : queue'[Base + i] = X[i]
            /\ \A D, c, k : c # "key" \/ k # Cmd => (Up(D, queue', c, k, Base) <=> Up(D, queue, c, k, l))
        BY <1>1, <2>1, CanvasQueue
      <3>2. Base <= m /\ m \in Nat /\ \A i \in Base + 1..m : i - Base \in 1..Len(X) /\ i = Base + (i - Base)
        BY <2>3, <3>1
      <3>3. ASSUME NEW D, NEW c, NEW k, c # "key" \/ k # Cmd,
                   \/ Up(D, queue, c, k, l) /\ \A i \in 1..Len(X) : ~Presses(X[i], c, k)
                   \/ \E i \in 1..Len(X) : Frees(X[i], c, k)
            PROVE  Up(D, queue', c, k, m)
        <4>1. Up(D, queue', c, k, Base) <=> Up(D, queue, c, k, l)
          BY <3>1, <3>3
        <4>2. \A i \in 1..Len(X) : ~Presses(X[i], c, k)
          <5>1. CASE \E i \in 1..Len(X) : Frees(X[i], c, k)
            <6>1. PICK i \in 1..Len(X) : Frees(X[i], c, k)
              BY <5>1
            <6>2. ~Presses(X[i], c, k) /\ \A j \in 1..Len(X) : j = i
              BY <2>3, <6>1 DEF Presses, Frees
            <6> QED BY <6>2
          <5> QED BY <3>3, <5>1
        <4>3. \A i \in Base + 1..m : ~Presses(queue'[i], c, k)
          BY <3>1, <3>2, <4>2
        <4>4. (\E i \in 1..Len(X) : Frees(X[i], c, k)) => \E i \in Base + 1..m : Frees(queue'[i], c, k)
          <5>1. \A i \in 1..Len(X) : Base + i \in Base + 1..m /\ queue'[Base + i] = X[i]
            BY <2>3, <3>1
          <5> QED BY <5>1
        <4> QED BY <3>1, <3>2, <3>3, <4>1, <4>3, <4>4, UpReleased
      <3>4. ASSUME ~buttons' PROVE Up(B, queue', "button", Cmd, m)
        <4>1. \/ Up(B, queue, "button", Cmd, l) /\ \A i \in 1..Len(X) : ~Presses(X[i], "button", Cmd)
              \/ \E i \in 1..Len(X) : Frees(X[i], "button", Cmd)
          BY <1>4, <2>1, <2>2, <3>4
        <4> QED BY <3>3, <4>1
      <3>5. ASSUME NEW k \in Keys \ pressed' PROVE Up(macDown, queue', "key", k, m)
        <4>1. k # Cmd
          BY Constants
        <4>2. \/ Up(macDown, queue, "key", k, l) /\ \A i \in 1..Len(X) : ~Presses(X[i], "key", k)
              \/ \E i \in 1..Len(X) : Frees(X[i], "key", k)
          BY <1>4, <2>1, <2>2
        <4> QED BY <3>3, <4>1, <4>2
      <3>6. ASSUME NEW k \in {Char, Letter} PROVE Typing(k)
        <4>1. k # Cmd /\ \A i \in 1..Len(X) : ~Presses(X[i], "key", k)
          BY <2>3, Constants DEF Presses
        <4>2. Up(macDown, queue, "key", k, l) => Up(macDown, queue', "key", k, m)
          BY <3>3, <4>1
        <4>3. CASE paste' = paste
          BY <1>4, <2>2, <4>2, <4>3
        <4>4. CASE \E Y : Pasted(Y) /\ paste' = paste \o Y
          <5>1. PICK Y : Pasted(Y) /\ paste' = paste \o Y
            BY <4>4
          <5>2. /\ \A i \in 1..Len(paste) : paste'[i] = paste[i] /\ i \in 1..Len(paste')
                /\ Up({}, paste, "key", k, Len(paste)) => Up({}, paste', "key", k, Len(paste'))
            BY <5>1, PasteGrows
          <5>3. (\E i \in 1..Len(paste) : Frees(paste[i], "key", k)) =>
                  \E i \in 1..Len(paste') : Frees(paste'[i], "key", k)
            BY <5>2
          <5> QED BY <1>4, <2>2, <4>2, <5>2, <5>3
        <4>5. CASE Copy \/ PasteRemote \/ PasteLocal
          BY <4>4, <4>5, TapIs, TypedIs DEF Copy, PasteRemote, PasteLocal
        <4>6. NoEvent \/ (\E h \in Keys : KeyDown(h) \/ KeyRepeat(h) \/ KeyUp(h)) \/ (\E d \in BOOLEAN : Click(d))
            => paste' = paste
          BY DEF NoEvent, KeyDown, KeyRepeat, KeyUp, Click, clip
        <4> QED BY <1>9, <4>3, <4>5, <4>6 DEF RemoteInput
      <3> QED BY <3>4, <3>5, <3>6
  <1> QED BY <1>3, <1>5, <1>6, <1>7, <1>8, <1>9

\* A character or a letter that gets into the queue meets Command as it should be there,
LEMMA UiMeantQueue ==
  ASSUME TypeOK, Turns, PasteOwn, Blank, Begun, ModsTracked, Meant, Ui, Live', connected',
         NEW i \in 1..Len(queue')
  PROVE  /\ IsTyped(queue'[i]) => Up(macDown, queue', "key", Cmd, i - 1)
         /\ IsShort(queue'[i]) => ~Up(macDown, queue', "key", Cmd, i - 1)
  <1> DEFINE l == Len(queue)
             m == Len(queue')
  <1>1. /\ Live /\ ~cancelled' /\ ~cancelled
        /\ \/ connected /\ queue' = queue
           \/ queue' = <<>>
           \/ connected /\ SendAll(Releases)
           \/ connected /\ DrainPaste
           \/ RemoteInput
    BY UiLive
  <1>2. l \in Nat /\ m \in Nat /\ \A j \in 1..l : queue'[j] = queue[j]
    BY UiQueue
  <1>3. queue' # <<>>
    <2>1. Len(<<>>) = 0
      OBVIOUS
    <2>2. m # 0
      BY <1>2
    <2> QED BY <2>1, <2>2
  <1>4. connected
    BY <1>1, <1>3 DEF RemoteInput, NoEvent, Copy, PasteRemote, PasteLocal, KeyDown, KeyRepeat, KeyUp, Click,
                      CanvasRest, Capturing, Shown
  <1> HIDE DEF l, m
  <1>5. CASE i \in 1..l
    <2>1. /\ IsTyped(queue[i]) => Up(macDown, queue, "key", Cmd, i - 1)
          /\ IsShort(queue[i]) => ~Up(macDown, queue, "key", Cmd, i - 1)
      BY <1>1, <1>4, <1>5 DEF Meant, UpAfter, l
    <2>2. i - 1 \in Nat /\ \A j \in 1..i - 1 : j \in 1..l
      BY <1>2, <1>5
    <2>3. Up(macDown, queue', "key", Cmd, i - 1) <=> Up(macDown, queue, "key", Cmd, i - 1)
      BY <1>2, <2>2, UpAgrees
    <2> QED BY <1>2, <1>5, <2>1, <2>3
  <1>6. CASE i \notin 1..l
    <2>1. i \in l + 1..m
      BY <1>2, <1>6 DEF m
    <2>2. CASE queue' = queue
      BY <1>2, <2>1, <2>2 DEF l, m
    <2>3. CASE SendAll(Releases)
      <3>1. ~queue'[i].down
        BY <1>1, <2>1, <2>3, ReleasedQueue DEF l, m
      <3> QED BY <3>1 DEF IsTyped, IsShort
    <2>4. CASE DrainPaste
      <3>1. PICK n \in 0..Len(paste) :
              /\ Len(paste) \in Nat /\ m = l + n
              /\ \A j \in 1..n : queue'[l + j] = paste[j]
              /\ \A D, c, k : (c = "key" /\ k \notin {Char, Letter}) \/ c = "button" =>
                   \A j \in l..m : Up(D, queue', c, k, j) <=> Up(D, queue, c, k, l)
        BY <1>1, <1>4, <2>4, DrainedQueue DEF l, m
      <3>2. i - l \in 1..n /\ i - l \in 1..Len(paste) /\ i = l + (i - l) /\ i - 1 \in l..m
        BY <1>2, <2>1, <3>1
      <3>3. queue'[i] = paste[i - l]
        BY <3>1, <3>2
      <3>4. IsTyped(queue'[i]) => ~mods
        BY <3>2, <3>3 DEF Meant
      <3>5. IsShort(queue'[i]) => mods
        BY <2>4, <3>2, <3>3 DEF Meant, DrainPaste
      <3>6. mods <=> ~Up(macDown, queue, "key", Cmd, l)
        BY <1>1, <1>4 DEF ModsTracked, UpAfter, l
      <3>7. Up(macDown, queue', "key", Cmd, i - 1) <=> Up(macDown, queue, "key", Cmd, l)
        BY <3>1, <3>2, Constants
      <3> QED BY <3>4, <3>5, <3>6, <3>7
    <2>5. CASE RemoteInput
      <3>1. PICK X : Canvas(X)
        BY <2>5, RemoteInputIs
      <3>2. /\ Base \in Nat /\ m = Base + Len(X)
            /\ \A j \in 1..Len(X) : queue'[Base + j] = X[j]
            /\ \A j \in l + 1..Base : queue'[j].k = Cmd
        BY <3>1, CanvasQueue DEF l, m
      <3>3. \A j \in 1..Len(X) : X[j].k \in Keys \cup {Cmd}
        BY <3>1 DEF Canvas
      <3>4. X \in Seq(Commands) /\ Len(X) \in Nat
        BY <3>1 DEF Canvas
      <3>5. i \in l + 1..Base \/ (i - Base \in 1..Len(X) /\ i = Base + (i - Base))
        BY <1>2, <2>1, <3>2, <3>4
      <3>6. queue'[i].k \in Keys \cup {Cmd}
        BY <3>2, <3>3, <3>5
      <3> QED BY <3>6, Constants DEF IsTyped, IsShort
    <2> QED BY <1>1, <1>3, <2>2, <2>3, <2>4, <2>5
  <1> QED BY <1>5, <1>6

\* and so does what waits in the paste.
LEMMA UiMeantPaste ==
  ASSUME TypeOK, PasteOwn, Meant, Ui, Nested \cap Acts = {}
  PROVE  \A i \in 1..Len(paste') :
           /\ IsTyped(paste'[i]) => ~mods'
           /\ IsShort(paste'[i]) => i = 1 /\ phase' \in {"drain", "gone"} /\ (phase' = "drain" => mods')
  <1>1. \A j \in 1..Len(paste) :
          /\ IsTyped(paste[j]) => ~mods
          /\ IsShort(paste[j]) => j = 1 /\ phase \in {"drain", "gone"} /\ (phase = "drain" => mods)
    BY DEF Meant
  <1>2. Len(paste) \in Nat /\ Len(paste') \in Nat
    <2>1. paste' \in Seq(Commands)
      BY UiType DEF TypeOK
    <2>2. paste \in Seq(Commands)
      BY DEF TypeOK
    <2> QED BY <2>1, <2>2
  <1> SUFFICES ASSUME NEW i, i \in Nat, i \in 1..Len(paste')
               PROVE  /\ IsTyped(paste'[i]) => ~mods'
                      /\ IsShort(paste'[i]) => i = 1 /\ phase' \in {"drain", "gone"} /\ (phase' = "drain" => mods')
    OBVIOUS
  <1>3. CASE DrainPaste
    <2>1. mods' = mods /\ phase = "drain"
      BY <1>3 DEF DrainPaste, input
    <2>2. connected
      <3>1. ~connected => Len(paste') = 0
        BY <1>3, DrainDrops
      <3> QED BY <1>2, <3>1
    <2>3. PICK n \in 0..Len(paste) :
            /\ Len(paste) # 0 => n # 0
            /\ Len(paste') = Len(paste) - n
            /\ \A j \in 1..Len(paste') : paste'[j] = paste[n + j] /\ n + j \in 1..Len(paste)
      BY <1>3, <2>2, DrainSends
    <2>4. paste'[i] = paste[n + i] /\ n + i \in 1..Len(paste) /\ n + i # 1
      BY <1>2, <2>3
    <2> QED BY <1>1, <2>1, <2>4
  <1>4. CASE OnConnected \/ TakeFrame \/ SkipToolbar \/ Hands
    <2>1. paste' = paste /\ mods' = mods /\ phase \in {"events", "toolbar", "canvas"}
      BY <1>4 DEF OnConnected, TakeFrame, SkipToolbar, Hands, HandCmd, HandKeyUp, Focus, clip, input
    <2> QED BY <1>1, <2>1
  <1>5. CASE OnDisconnected \/ Disconnect
    <2>1. paste' = paste /\ ~mods' /\ phase \in {"events", "toolbar"}
      BY <1>5 DEF OnDisconnected, Disconnect, clip, Forget
    <2> QED BY <1>1, <2>1
  <1>6. CASE QuietCanvas
    <2>1. paste' = paste /\ phase = "canvas" /\ (mods' = mods \/ ~mods')
      BY <1>6 DEF QuietCanvas, clip, Forget, input
    <2> QED BY <1>1, <2>1
  <1>7. CASE TogglePanel
    <2>1. paste' = <<>>
      BY <1>7 DEF TogglePanel
    <2>2. Len(paste') = 0
      BY <2>1
    <2> QED BY <1>2, <2>2
  <1>8. CASE Quit
    <2>1. paste' = paste /\ ~mods' /\ phase = "drain" /\ phase' = "gone"
      BY <1>8 DEF Quit, clip, Forget
    <2> QED BY <1>1, <2>1
  <1>9. CASE RemoteInput
    <2>1. CanvasRest
      BY <1>9 DEF RemoteInput, NoEvent, Copy, PasteRemote, PasteLocal, KeyDown, KeyRepeat, KeyUp, Click
    <2>2. phase = "canvas" /\ phase' = "drain"
      BY <2>1 DEF CanvasRest
    <2>3. \A j \in 1..Len(paste) : (IsTyped(paste[j]) => ~NextMods) /\ ~IsShort(paste[j])
      <3> SUFFICES ASSUME NEW j \in 1..Len(paste)
                   PROVE  (IsTyped(paste[j]) => ~NextMods) /\ ~IsShort(paste[j])
        OBVIOUS
      <3>1. paste # <<>>
        <4>1. Len(<<>>) = 0
          OBVIOUS
        <4>2. Len(paste) # 0
          BY <1>2
        <4> QED BY <4>1, <4>2
      <3>2. NextMods = mods
        BY <3>1 DEF NextMods
      <3> QED BY <1>1, <2>2, <3>2
    <2>4. CASE Copy \/ PasteRemote
      <3>1. paste' = paste \o Tap /\ paste = <<>> /\ mods' = NextMods /\ cmdHeld
        <4>1. "copy in paste" \notin Acts
          BY DEF Nested
        <4> QED BY <2>4, <4>1 DEF Copy, PasteRemote
      <3>2. mods'
        BY <3>1 DEF NextMods
      <3>3. i \in 1..Len(paste) \/ (i - Len(paste) \in 1..Len(Tap) /\ paste'[i] = Tap[i - Len(paste)])
        BY <3>1, TapIs, PasteGrows
      <3>4. Len(paste) = 0
        BY <3>1
      <3>5. i \in 1..Len(Tap) /\ paste'[i] = Tap[i]
        <4>1. i - Len(paste) = i /\ i \notin 1..Len(paste)
          BY <3>4
        <4> QED BY <3>3, <4>1
      <3>6. ~IsTyped(Tap[i]) /\ (IsShort(Tap[i]) => i = 1)
        BY <3>5, TapIs
      <3> QED BY <2>2, <3>2, <3>5, <3>6
    <2>5. CASE PasteLocal
      <3>1. paste' = paste \o Typed /\ ~mods'
        BY <2>5 DEF PasteLocal
      <3>2. (i \in 1..Len(paste) /\ paste'[i] = paste[i])
              \/ (i - Len(paste) \in 1..Len(Typed) /\ paste'[i] = Typed[i - Len(paste)])
        BY <3>1, TypedIs, PasteGrows
      <3>3. ~IsShort(paste'[i])
        BY <2>3, <3>2, TypedIs
      <3> QED BY <3>1, <3>3
    <2>6. CASE NoEvent \/ (\E k \in Keys : KeyDown(k) \/ KeyRepeat(k) \/ KeyUp(k)) \/ \E d \in BOOLEAN : Click(d)
      <3>1. paste' = paste /\ mods' = NextMods
        BY <2>6 DEF NoEvent, KeyDown, KeyRepeat, KeyUp, Click, clip
      <3> QED BY <2>3, <3>1
    <2> QED BY <1>9, <2>4, <2>5, <2>6 DEF RemoteInput
  <1> QED BY <1>3, <1>4, <1>5, <1>6, <1>7, <1>8, <1>9 DEF Ui

\* Both together.
LEMMA UiMeant ==
  ASSUME TypeOK, Turns, PasteOwn, Blank, Begun, ModsTracked, Meant, Ui, Nested \cap Acts = {}
  PROVE  Meant'
  <1>1. macDown' = macDown
    BY UiKeeps
  <1>2. ASSUME Live', connected', NEW i \in 1..Len(queue')
        PROVE  /\ IsTyped(queue'[i]) => Up(macDown, queue', "key", Cmd, i - 1)
               /\ IsShort(queue'[i]) => ~Up(macDown, queue', "key", Cmd, i - 1)
    BY <1>2, UiMeantQueue
  <1>3. ASSUME NEW i \in 1..Len(paste')
        PROVE  /\ IsTyped(paste'[i]) => ~mods'
               /\ IsShort(paste'[i]) => i = 1 /\ phase' \in {"drain", "gone"} /\ (phase' = "drain" => mods')
    BY UiMeantPaste
  <1> QED BY <1>1, <1>2, <1>3 DEF Meant, UpAfter, IsTyped, IsShort

-----------------------------------------------------------------------------
(* The Connect *)

\* A new session begins with nothing sent and nothing down.
LEMMA ConnectKeeps ==
  ASSUME IInv, Connect
  PROVE  IInv'
  <1>1. TypeOK /\ Turns /\ PasteOwn /\ Blank /\ Begun
    BY DEF IInv
  <1>2. /\ queue' \in Seq(Commands) /\ Len(queue') <= QueueCap /\ cancelled' \in BOOLEAN
        /\ connects + 1 \in 0..MaxConnect /\ ~Busy /\ bpc \in Rests /\ events = <<>> /\ NoConnect(queue)
        /\ Len(queue) \in Nat /\ Len(queue') \in {Len(queue), Len(queue) + 1}
        /\ \A i \in 1..Len(queue) : queue'[i] = queue[i]
        /\ Len(queue') = Len(queue) + 1 => queue'[Len(queue) + 1].n = connects + 1
    BY <1>1, ConnectSends
  <1>3. /\ connected' = connected /\ cancelling' = cancelling /\ texture' = texture /\ panel' = panel
        /\ pressed' = pressed /\ mods' = mods /\ buttons' = buttons /\ paste' = paste /\ remoteOwns' = remoteOwns
        /\ held' = held /\ cmdHeld' = cmdHeld /\ focused' = focused /\ edits' = edits /\ events' = events
        /\ latest' = latest /\ bpc' = bpc /\ bn' = bn /\ announced' = announced /\ macDown' = macDown
        /\ macButton' = macButton /\ connecting' = TRUE /\ ~connected /\ connects' = connects + 1
        /\ phase' = "drain" /\ phase = "canvas"
    BY DEF Connect, input, clip, user, back, remote
  <1>4. TypeOK'
    BY <1>1, <1>2, <1>3 DEF TypeOK
  <1>5. \A i \in 1..Len(queue') : Connects(queue'[i]) => i = Len(queue') /\ queue'[i].n = connects + 1
    <2>1. \A i \in 1..Len(queue') : i \in 1..Len(queue) \/ (i = Len(queue') /\ i = Len(queue) + 1)
      BY <1>2
    <2>2. \A i \in 1..Len(queue) : ~Connects(queue'[i])
      BY <1>2 DEF NoConnect
    <2> QED BY <1>2, <2>1, <2>2
  <1>6. Busy' /\ \A i \in 1..Len(events') : FALSE
    <2>1. \A i \in 1..Len(<<>>) : FALSE
      OBVIOUS
    <2> QED BY <1>2, <1>3, <2>1 DEF Busy
  <1>7. Turns'
    <2>1. \A i \in 1..Len(queue') : \A j \in i..Len(queue') : i = Len(queue') => j = i
      BY <1>2
    <2>2. bpc' \in Rests /\ bpc' \notin {"starting", "negotiated"} /\ events' = <<>> /\ ~connected'
      BY <1>2, <1>3 DEF Rests
    <2>3. ASSUME NEW i \in 1..Len(queue'), Connects(queue'[i])
          PROVE  /\ \A j \in 1..Len(queue') : Connects(queue'[j]) => j = i
                 /\ \A j \in i..Len(queue') : queue'[j].n = connects'
      <3>1. i = Len(queue') /\ queue'[i].n = connects'
        BY <1>3, <1>5, <2>3
      <3> QED BY <1>5, <2>1, <3>1
    <2> QED BY <1>6, <2>2, <2>3 DEF Turns
  <1>8. PasteOwn' /\ Blank'
    BY <1>1, <1>3 DEF PasteOwn, Blank
  <1>9. ~Live' /\ ~connected'
    BY <1>2, <1>3 DEF Live, Inside, Rests
  <1>10. Begun'
    BY <1>5, <1>9 DEF Begun
  <1>11. ModsTracked' /\ Tracked'
    BY <1>9 DEF ModsTracked, Tracked
  <1>12. Nested \cap Acts = {} => Meant'
    BY <1>3, <1>9 DEF IInv, Meant
  <1> QED BY <1>4, <1>7, <1>8, <1>10, <1>11, <1>12 DEF IInv

-----------------------------------------------------------------------------
(* The steps of the backend *)

Back == Backend \/ Publish \/ SessionOver

\* None of them touches the UI.
LEMMA BackKeeps ==
  ASSUME Back
  PROVE  /\ phase' = phase /\ connected' = connected /\ connecting' = connecting /\ cancelling' = cancelling
         /\ texture' = texture /\ panel' = panel /\ pressed' = pressed /\ mods' = mods /\ buttons' = buttons
         /\ paste' = paste /\ remoteOwns' = remoteOwns /\ held' = held /\ cmdHeld' = cmdHeld
         /\ focused' = focused /\ edits' = edits /\ connects' = connects /\ cancelled' = cancelled
  <1>1. UiRest /\ cancelled' = cancelled
    BY DEF Back, Backend, Publish, SessionOver, IdleRecv, IdleStop, Negotiate, Begin, RunCommand, Finish, End,
           Report, chan
  <1> QED BY <1>1 DEF UiRest, view, input, clip, user

\* A queue without its first command.
LEMMA QueueTail ==
  ASSUME NEW S, NEW q \in Seq(S), q # <<>>
  PROVE  /\ Tail(q) \in Seq(S) /\ Len(q) \in Nat /\ Len(Tail(q)) \in Nat /\ Len(q) = Len(Tail(q)) + 1
         /\ \A i \in 1..Len(Tail(q)) : Tail(q)[i] = q[i + 1] /\ i + 1 \in 1..Len(q)
         /\ 1 \in 1..Len(q) /\ Head(q) = q[1]
  <1> DEFINE t == Tail(q)
  <1>1. t \in Seq(S) /\ Len(t) = Len(q) - 1 /\ \A i \in 1..Len(t) : t[i] = q[i + 1]
    BY HeadTailProperties
  <1>2. Len(q) \in Nat /\ Len(q) # 0 /\ Head(q) = q[1]
    BY EmptySeq
  <1> HIDE DEF t
  <1>3. /\ Len(t) \in Nat /\ Len(q) = Len(t) + 1 /\ 1 \in 1..Len(q)
        /\ \A i \in 1..Len(t) : i + 1 \in 1..Len(q)
    BY <1>1, <1>2
  <1> QED BY <1>1, <1>2, <1>3 DEF t

\* Types
LEMMA BackType ==
  ASSUME TypeOK, Back
  PROVE  TypeOK'
  <1>1. /\ phase' = phase /\ connected' = connected /\ connecting' = connecting /\ cancelling' = cancelling
        /\ texture' = texture /\ panel' = panel /\ pressed' = pressed /\ mods' = mods /\ buttons' = buttons
        /\ paste' = paste /\ remoteOwns' = remoteOwns /\ held' = held /\ cmdHeld' = cmdHeld
        /\ focused' = focused /\ edits' = edits /\ connects' = connects /\ cancelled' = cancelled
    BY BackKeeps
  <1>2. /\ queue \in Seq(Commands) /\ Len(queue) <= QueueCap /\ bn \in 0..MaxConnect /\ latest \in 0..MaxConnect
        /\ events \in Seq({"connected", "disconnected"}) /\ MaxConnect \in Nat /\ QueueCap \in Nat
        /\ announced \in BOOLEAN /\ macButton \in BOOLEAN /\ macDown \subseteq AllKeys
    BY Constants DEF TypeOK
  <1>3. queue # <<>> =>
          /\ Tail(queue) \in Seq(Commands) /\ Len(Tail(queue)) <= QueueCap
          /\ Head(queue).k \in AllKeys /\ Head(queue).down \in BOOLEAN /\ Head(queue).n \in 0..MaxConnect
    <2> SUFFICES ASSUME queue # <<>>
                 PROVE  /\ Tail(queue) \in Seq(Commands) /\ Len(Tail(queue)) <= QueueCap
                        /\ Head(queue).k \in AllKeys /\ Head(queue).down \in BOOLEAN /\ Head(queue).n \in 0..MaxConnect
      OBVIOUS
    <2>1. /\ Tail(queue) \in Seq(Commands) /\ Len(queue) = Len(Tail(queue)) + 1 /\ Len(Tail(queue)) \in Nat
          /\ 1 \in 1..Len(queue) /\ Head(queue) = queue[1]
      BY <1>2, QueueTail
    <2>2. Len(Tail(queue)) <= QueueCap
      BY <1>2, <2>1
    <2>3. Head(queue) \in Commands
      BY <1>2, <2>1, ElementOfSeq
    <2> QED BY <2>1, <2>2, <2>3, CommandsTyped
  <1> DEFINE Q == queue' \in Seq(Commands) /\ Len(queue') <= QueueCap
             N == bn' \in 0..MaxConnect /\ latest' \in 0..MaxConnect
             M == macDown' \subseteq AllKeys /\ announced' \in BOOLEAN /\ macButton' \in BOOLEAN
             E == events' \in Seq({"connected", "disconnected"})
             P == bpc' \in {"idle", "starting", "negotiated", "running", "ended", "drained", "stopped"}
  <1>4. P
    BY DEF TypeOK, Back, Backend, Publish, SessionOver, IdleRecv, IdleStop, Negotiate, Begin, RunCommand,
           Finish, End, Report
  <1>5. Q
    <2>1. queue' = queue \/ (queue # <<>> /\ queue' = Tail(queue)) \/ queue' = <<>>
      BY DEF Back, Backend, Publish, SessionOver, IdleRecv, IdleStop, Negotiate, Begin, RunCommand, Finish, End,
             Report, chan
    <2>2. <<>> \in Seq(Commands) /\ Len(<<>>) <= QueueCap
      BY <1>2
    <2> QED BY <1>2, <1>3, <2>1, <2>2
  <1>6. N
    <2>1. \/ bn' = bn
          \/ queue # <<>> /\ bn' = Head(queue).n
      BY DEF Back, Backend, Publish, SessionOver, IdleRecv, IdleStop, Negotiate, Begin, RunCommand, Finish, End,
             Report, back
    <2>2. latest' \in {latest, bn, 0}
      BY DEF Back, Backend, Publish, SessionOver, IdleRecv, IdleStop, Negotiate, Begin, RunCommand, Finish, End,
             Report
    <2>3. bn' \in 0..MaxConnect
      BY <1>2, <1>3, <2>1
    <2>4. 0 \in 0..MaxConnect
      BY <1>2
    <2>5. latest' \in 0..MaxConnect
      BY <1>2, <2>2, <2>4
    <2> QED BY <2>3, <2>5
  <1>7. M
    <2>1. CASE RunCommand
      BY <1>2, <1>3, <2>1 DEF RunCommand
    <2>2. CASE ~RunCommand
      <3>1. macDown' = macDown \/ macDown' = {}
        BY <2>2 DEF Back, Backend, Publish, SessionOver, IdleRecv, IdleStop, Negotiate, Begin, Finish, End,
                    Report, remote
      <3>2. macButton' = macButton \/ macButton' = FALSE
        BY <2>2 DEF Back, Backend, Publish, SessionOver, IdleRecv, IdleStop, Negotiate, Begin, Finish, End,
                    Report, remote
      <3>3. announced' = announced \/ announced' = TRUE \/ announced' = FALSE
        BY <2>2 DEF Back, Backend, Publish, SessionOver, IdleRecv, IdleStop, Negotiate, Begin, Finish, End,
                    Report, back
      <3> QED BY <1>2, <3>1, <3>2, <3>3
    <2> QED BY <2>1, <2>2
  <1>8. E
    <2>1. events' = events \/ events' = Append(events, "connected") \/ events' = Append(events, "disconnected")
      BY DEF Back, Backend, Publish, SessionOver, IdleRecv, IdleStop, Negotiate, Begin, RunCommand, Finish, End,
             Report
    <2>2. \A e \in {"connected", "disconnected"} : Append(events, e) \in Seq({"connected", "disconnected"})
      BY <1>2, AppendProperties
    <2> QED BY <1>2, <2>1, <2>2
  <1> QED BY <1>1, <1>4, <1>5, <1>6, <1>7, <1>8 DEF TypeOK

\* The turns of the two threads are kept.
LEMMA BackTurns ==
  ASSUME TypeOK, Turns, Back
  PROVE  Turns'
  <1>1. connected' = connected /\ (Busy' <=> Busy) /\ connects' = connects
    BY BackKeeps DEF Busy
  <1>2. queue \in Seq(Commands) /\ events \in Seq({"connected", "disconnected"})
    BY DEF TypeOK
  <1>3. queue # <<>> =>
          /\ Len(Tail(queue)) \in Nat /\ Len(queue) = Len(Tail(queue)) + 1
          /\ \A i \in 1..Len(Tail(queue)) : Tail(queue)[i] = queue[i + 1] /\ i + 1 \in 1..Len(queue)
          /\ 1 \in 1..Len(queue) /\ Head(queue) = queue[1]
    BY <1>2, QueueTail
  <1>4. NoConnect(queue) => \A i \in 1..Len(queue) : ~Connects(queue[i])
    BY DEF NoConnect
  <1>5. ASSUME bpc \notin Rests
        PROVE  Busy /\ bn = connects /\ Of(queue, connects) /\ NoConnect(queue)
               /\ \A i \in 1..Len(events) : events[i] # "disconnected"
    BY <1>5 DEF Turns, Ended
  \* a step of a session that keeps the queue, or takes from it
  <1>6. ASSUME bpc \notin Rests, bpc' \notin Rests, bpc' \notin {"starting", "negotiated"}, bn' = bn,
               Of(queue', connects), NoConnect(queue'),
               \A i \in 1..Len(events') : events'[i] # "disconnected"
        PROVE  Turns'
    <2>1. \A i \in 1..Len(queue') : ~Connects(queue'[i])
      BY <1>6 DEF NoConnect
    <2> QED BY <1>1, <1>5, <1>6, <2>1 DEF Turns, Ended
  <1>7. CASE IdleRecv /\ Head(queue).c = "connect"
    <2>1. /\ bpc = "idle" /\ queue # <<>> /\ queue' = Tail(queue) /\ bpc' = "starting" /\ bn' = queue[1].n
          /\ events' = events
      BY <1>3, <1>7 DEF IdleRecv
    <2>2. 1 \in 1..Len(queue) /\ Connects(queue[1])
      BY <1>3, <1>7, <2>1 DEF Connects
    <2>3. /\ events = <<>> /\ ~connected
          /\ \A j \in 1..Len(queue) : Connects(queue[j]) => j = 1
          /\ \A j \in 1..Len(queue) : queue[j].n = connects
      BY <2>2 DEF Turns
    <2>4. Busy
      BY <2>2 DEF Turns, NoConnect
    <2>5. \A i \in 1..Len(queue') : queue'[i].n = connects /\ ~Connects(queue'[i])
      <3> SUFFICES ASSUME NEW i \in 1..Len(Tail(queue)) PROVE queue'[i].n = connects /\ ~Connects(queue'[i])
        BY <2>1
      <3>1. queue'[i] = queue[i + 1] /\ i + 1 \in 1..Len(queue) /\ i + 1 # 1
        BY <1>3, <2>1
      <3> QED BY <2>3, <3>1
    <2>6. \A i \in 1..Len(<<>>) : FALSE
      OBVIOUS
    <2>7. bn' = connects
      BY <2>1, <2>2, <2>3
    <2>8. Of(queue', connects) /\ NoConnect(queue')
      BY <2>5 DEF Of, NoConnect
    <2>9. bpc' \notin Rests /\ events' = <<>> /\ ~connected' /\ Busy'
      BY <1>1, <2>1, <2>3, <2>4 DEF Rests
    <2>10. \A i \in 1..Len(events') : FALSE
      BY <2>6, <2>9
    <2> QED BY <1>1, <2>5, <2>7, <2>8, <2>9, <2>10 DEF Turns, Ended
  <1>8. CASE IdleRecv /\ Head(queue).c # "connect"
    <2>1. bpc = "idle" /\ queue # <<>> /\ queue' = Tail(queue) /\ bpc' = bpc /\ bn' = bn /\ events' = events
      BY <1>8 DEF IdleRecv
    <2>2. bpc' \in Rests /\ bpc' \notin {"starting", "negotiated"} /\ bpc \in Rests
      BY <2>1 DEF Rests
    <2>3. ASSUME NEW i \in 1..Len(Tail(queue))
          PROVE  queue'[i] = queue[i + 1] /\ i + 1 \in 1..Len(queue)
      BY <1>3, <2>1
    <2>4. NoConnect(queue) => NoConnect(queue')
      BY <2>1, <2>3 DEF NoConnect
    <2>5. ASSUME NEW i \in 1..Len(queue'), Connects(queue'[i])
          PROVE  /\ events = <<>> /\ ~connected
                 /\ \A j \in 1..Len(queue') : Connects(queue'[j]) => j = i
                 /\ \A j \in i..Len(queue') : queue'[j].n = connects
      <3>1. queue'[i] = queue[i + 1] /\ i + 1 \in 1..Len(queue)
        BY <2>1, <2>3
      <3>2. /\ events = <<>> /\ ~connected
            /\ \A j \in 1..Len(queue) : Connects(queue[j]) => j = i + 1
            /\ \A j \in i + 1..Len(queue) : queue[j].n = connects
        BY <2>5, <3>1 DEF Turns
      <3>3. ASSUME NEW j \in 1..Len(Tail(queue)), Connects(queue'[j]) PROVE j = i
        <4>1. j + 1 = i + 1
          BY <2>3, <3>2, <3>3
        <4> QED BY <4>1
      <3>4. ASSUME NEW j \in i..Len(Tail(queue)) PROVE queue'[j].n = connects
        <4>1. j \in 1..Len(Tail(queue)) /\ j + 1 \in i + 1..Len(queue)
          BY <1>3, <2>1
        <4> QED BY <2>3, <3>2, <4>1
      <3> QED BY <2>1, <3>2, <3>3, <3>4
    <2>6. ~Busy => events = <<>> /\ NoConnect(queue')
      BY <2>4 DEF Turns
    <2>7. \A i \in 1..Len(events) : Ended(i) => i = Len(events) /\ NoConnect(queue')
      BY <2>2, <2>4 DEF Turns
    <2> QED BY <1>1, <2>1, <2>2, <2>5, <2>6, <2>7 DEF Turns, Ended
  <1>9. CASE IdleStop
    <2>1. bpc' \in Rests /\ bpc \in Rests /\ bpc' \notin {"starting", "negotiated"}
          /\ queue' = queue /\ events' = events /\ bn' = bn
      BY <1>9 DEF IdleStop, Rests, chan
    <2> QED BY <1>1, <2>1 DEF Turns, Ended
  <1>10. CASE Negotiate
    <2>1. bpc' \notin Rests /\ bpc \notin Rests /\ bpc \in {"starting", "negotiated"}
          /\ queue' = queue /\ events' = events /\ bn' = bn
      BY <1>10 DEF Negotiate, Rests, chan
    <2> QED BY <1>1, <2>1 DEF Turns, Ended
  <1>11. CASE Begin \/ SessionOver
    <2>1. bpc \notin Rests /\ bpc' \notin Rests /\ bpc' \notin {"starting", "negotiated"}
          /\ queue' = queue /\ events' = events /\ bn' = bn
      BY <1>11 DEF Begin, SessionOver, Rests, chan
    <2> QED BY <1>5, <1>6, <2>1
  <1>12. CASE RunCommand
    <2>1. bpc \notin Rests /\ bpc' \notin Rests /\ bpc' \notin {"starting", "negotiated"} /\ queue # <<>>
          /\ queue' = Tail(queue) /\ events' = events /\ bn' = bn
      BY <1>12 DEF RunCommand, Rests
    <2>2. Of(queue', connects) /\ NoConnect(queue')
      BY <1>3, <1>5, <2>1 DEF Of, NoConnect
    <2> QED BY <1>5, <1>6, <2>1, <2>2
  <1>13. CASE End
    <2>1. bpc \notin Rests /\ bpc' \notin Rests /\ bpc' \notin {"starting", "negotiated"}
          /\ queue' = <<>> /\ events' = events /\ bn' = bn
      BY <1>13 DEF End, Rests
    <2>2. \A i \in 1..Len(<<>>) : FALSE
      OBVIOUS
    <2>3. Of(queue', connects) /\ NoConnect(queue')
      BY <2>1, <2>2 DEF Of, NoConnect
    <2> QED BY <1>5, <1>6, <2>1, <2>3
  <1>14. CASE Report
    <2> DEFINE e == Append(events, "disconnected")
    <2>1. bpc \notin Rests /\ bpc' \in Rests /\ bpc' \notin {"starting", "negotiated"}
          /\ queue' = queue /\ events' = e /\ bn' = bn
      BY <1>14 DEF Report, Rests, chan
    <2>2. Len(e) = Len(events) + 1 /\ Len(events) \in Nat /\ \A i \in 1..Len(events) : e[i] = events[i]
      BY <1>2, AppendProperties
    <2> HIDE DEF e
    <2>3. \A i \in 1..Len(e) : i \in 1..Len(events) \/ i = Len(e)
      BY <2>2
    <2>4. \A i \in 1..Len(e) : e[i] = "disconnected" => i = Len(e)
      BY <1>5, <2>1, <2>2, <2>3
    <2>5. \A i \in 1..Len(queue) : ~Connects(queue[i])
      BY <1>4, <1>5, <2>1
    <2>6. Busy' /\ NoConnect(queue')
      BY <1>1, <1>5, <2>1
    <2> QED BY <2>1, <2>4, <2>5, <2>6 DEF Turns, Ended
  <1>15. CASE Publish
    <2> DEFINE e == Append(events, "connected")
    <2>1. bpc \notin Rests /\ bpc' \notin Rests /\ bpc' \notin {"starting", "negotiated"}
          /\ queue' = queue /\ (events' = events \/ events' = e) /\ bn' = bn
      BY <1>15 DEF Publish, Rests, chan
    <2>2. Len(e) = Len(events) + 1 /\ Len(events) \in Nat /\ (\A i \in 1..Len(events) : e[i] = events[i])
          /\ e[Len(events) + 1] = "connected"
      BY <1>2, AppendProperties
    <2> HIDE DEF e
    <2>3. \A i \in 1..Len(e) : i \in 1..Len(events) \/ i = Len(events) + 1
      BY <2>2
    <2>4. \A i \in 1..Len(e) : e[i] # "disconnected"
      BY <1>5, <2>1, <2>2, <2>3
    <2>5. \A i \in 1..Len(events') : events'[i] # "disconnected"
      BY <1>5, <2>1, <2>4
    <2> QED BY <1>5, <1>6, <2>1, <2>5
  <1> QED BY <1>7, <1>8, <1>9, <1>10, <1>11, <1>12, <1>13, <1>14, <1>15 DEF Back, Backend, Finish

\* The paste and what is tracked are the UI thread's own.
LEMMA BackPaste ==
  ASSUME PasteOwn, Blank, Back
  PROVE  PasteOwn' /\ Blank'
  <1>1. /\ phase' = phase /\ connected' = connected /\ connecting' = connecting /\ cancelling' = cancelling
        /\ pressed' = pressed /\ mods' = mods /\ buttons' = buttons /\ paste' = paste /\ connects' = connects
    BY BackKeeps
  <1>2. PasteOwn'
    BY <1>1 DEF PasteOwn, Busy, Of
  <1>3. Blank'
    BY <1>1 DEF Blank
  <1> QED BY <1>2, <1>3

\* A session that is live after a step of the backend, and what the step took from the queue.
LEMMA BackLive ==
  ASSUME TypeOK, Turns, Back, Live'
  PROVE  /\ ~cancelled /\ ~cancelled'
         /\ \/ /\ IdleRecv /\ bpc = "idle" /\ queue # <<>> /\ queue' = Tail(queue) /\ Head(queue).c = "connect"
               /\ ~connected /\ bpc' = "starting"
            \/ Live /\ queue' = queue /\ bpc' = "negotiated" /\ ~connected
            \/ Live /\ queue' = queue /\ bpc' = "running" /\ macDown' = {} /\ ~macButton' /\ ~connected
            \/ Live /\ queue # <<>> /\ RunCommand
            \/ Live /\ queue' = queue /\ bpc' = bpc /\ macDown' = macDown /\ macButton' = macButton
  <1>1. cancelled' = cancelled /\ ~cancelled' /\ bpc' \in Inside /\ connected' = connected
    BY BackKeeps DEF Live
  <1>2. CASE IdleRecv
    <2>1. Head(queue).c = "connect" /\ bpc = "idle" /\ queue # <<>> /\ queue' = Tail(queue) /\ bpc' = "starting"
      BY <1>1, <1>2 DEF IdleRecv, Inside
    <2>2. queue \in Seq(Commands) /\ 1 \in 1..Len(queue) /\ Head(queue) = queue[1]
      BY <2>1, QueueTail DEF TypeOK
    <2>3. ~connected
      BY <2>1, <2>2 DEF Turns, Connects
    <2> QED BY <1>1, <1>2, <2>1, <2>3
  <1>3. CASE Negotiate
    <2>1. bpc = "starting" /\ queue' = queue /\ bpc' = "negotiated"
      BY <1>1, <1>3 DEF Negotiate, Inside, chan
    <2> QED BY <1>1, <2>1 DEF Live, Inside, Turns
  <1>4. CASE Begin
    <2>1. bpc = "negotiated" /\ queue' = queue /\ bpc' = "running" /\ macDown' = {} /\ ~macButton'
      BY <1>1, <1>4 DEF Begin, Inside, chan
    <2> QED BY <1>1, <2>1 DEF Live, Inside, Turns
  <1>5. CASE RunCommand
    BY <1>1, <1>5 DEF RunCommand, Live, Inside
  <1>6. CASE Publish
    BY <1>1, <1>6 DEF Publish, Live, Inside, chan, remote
  <1>7. CASE IdleStop \/ Finish \/ SessionOver
    BY <1>1, <1>7 DEF IdleStop, Finish, End, Report, SessionOver, Inside
  <1> QED BY <1>2, <1>3, <1>4, <1>5, <1>6, <1>7 DEF Back, Backend

\* A session starts with an empty queue and a Mac that holds nothing down.
LEMMA BackBegun ==
  ASSUME TypeOK, Turns, Begun, Back
  PROVE  Begun'
  <1>1. connected' = connected /\ cancelled' = cancelled
    BY BackKeeps
  <1>2. queue \in Seq(Commands)
    BY DEF TypeOK
  <1>3. queue # <<>> =>
          /\ Len(Tail(queue)) \in Nat /\ Len(queue) = Len(Tail(queue)) + 1 /\ Tail(queue) \in Seq(Commands)
          /\ \A i \in 1..Len(Tail(queue)) : Tail(queue)[i] = queue[i + 1] /\ i + 1 \in 1..Len(queue)
          /\ 1 \in 1..Len(queue) /\ Head(queue) = queue[1]
    BY <1>2, QueueTail
  <1>4. ASSUME Live', ~connected'
        PROVE  queue' = <<>> /\ (bpc' = "running" => macDown' = {} /\ ~macButton')
    <2>1. CASE /\ IdleRecv /\ queue # <<>> /\ queue' = Tail(queue) /\ Head(queue).c = "connect"
               /\ ~cancelled /\ bpc' = "starting"
      <3>1. 1 \in 1..Len(queue) /\ Connects(queue[1])
        BY <1>3, <2>1 DEF Connects
      <3>2. Len(queue) = 1
        BY <2>1, <3>1 DEF Begun
      <3>3. Len(Tail(queue)) = 0 /\ Tail(queue) \in Seq(Commands)
        BY <1>3, <2>1, <3>2
      <3>4. queue' = <<>>
        BY <2>1, <3>3, EmptySeq
      <3> QED BY <2>1, <3>4
    <2>2. CASE Live
      <3>1. queue = <<>> /\ (bpc = "running" => macDown = {} /\ ~macButton)
        BY <1>1, <1>4, <2>2 DEF Begun
      <3> QED BY <1>4, <3>1, BackLive
    <2> QED BY <1>4, <2>1, <2>2, BackLive
  <1>5. ASSUME ~cancelled', NEW i \in 1..Len(queue'), Connects(queue'[i]) PROVE i = Len(queue')
    <2>1. queue' = queue \/ (queue # <<>> /\ queue' = Tail(queue)) \/ queue' = <<>>
      BY DEF Back, Backend, Publish, SessionOver, IdleRecv, IdleStop, Negotiate, Begin, RunCommand, Finish, End,
             Report, chan
    <2>2. CASE queue' = queue
      BY <1>1, <1>5, <2>2 DEF Begun
    <2>3. CASE queue # <<>> /\ queue' = Tail(queue)
      <3>1. queue'[i] = queue[i + 1] /\ i + 1 \in 1..Len(queue) /\ i \in Nat
        BY <1>3, <2>3
      <3>2. i + 1 = Len(queue)
        BY <1>1, <1>5, <3>1 DEF Begun
      <3> QED BY <1>3, <2>3, <3>1, <3>2
    <2>4. CASE queue' = <<>>
      <3>1. Len(<<>>) = 0
        OBVIOUS
      <3> QED BY <2>4, <3>1
    <2> QED BY <2>1, <2>2, <2>3, <2>4
  <1> QED BY <1>4, <1>5 DEF Begun

\* One command applied: what comes of the rest is as it was.
LEMMA RunQueue ==
  ASSUME TypeOK, RunCommand
  PROVE  /\ Len(queue') \in Nat /\ Len(queue) = Len(queue') + 1
         /\ \A i \in 1..Len(queue') : queue'[i] = queue[i + 1] /\ i + 1 \in 1..Len(queue)
         /\ \A k, n : n \in 0..Len(queue') =>
              (Up(macDown', queue', "key", k, n) <=> Up(macDown, queue, "key", k, n + 1))
         /\ \A n \in 0..Len(queue') :
              Up(ButtonDown', queue', "button", Cmd, n) <=> Up(ButtonDown, queue, "button", Cmd, n + 1)
  <1> DEFINE m == queue[1]
             B == ButtonDown
  <1>1. queue \in Seq(Commands) /\ queue # <<>> /\ queue' = Tail(queue)
    BY DEF TypeOK, RunCommand
  <1>2. /\ Len(Tail(queue)) \in Nat /\ Len(queue) = Len(Tail(queue)) + 1
        /\ \A i \in 1..Len(Tail(queue)) : Tail(queue)[i] = queue[i + 1] /\ i + 1 \in 1..Len(queue)
        /\ 1 \in 1..Len(queue) /\ Head(queue) = queue[1]
    BY <1>1, QueueTail
  <1>3. /\ macDown' = IF m.c # "key" THEN macDown ELSE IF m.down THEN macDown \cup {m.k} ELSE macDown \ {m.k}
        /\ macButton' = IF m.c = "button" THEN m.down ELSE macButton
    BY <1>2 DEF RunCommand
  <1>4. ASSUME NEW k PROVE k \in macDown' <=> Presses(m, "key", k) \/ (k \in macDown /\ ~Frees(m, "key", k))
    BY <1>3 DEF Presses, Frees
  <1>5. Cmd \in B' <=> Presses(m, "button", Cmd) \/ (Cmd \in B /\ ~Frees(m, "button", Cmd))
    BY <1>3 DEF Presses, Frees, ButtonDown
  <1> HIDE DEF B
  <1>6. ASSUME NEW k, NEW n \in 0..Len(Tail(queue))
        PROVE  Up(macDown', Tail(queue), "key", k, n) <=> Up(macDown, queue, "key", k, n + 1)
    BY <1>1, <1>4, UpTail
  <1>7. ASSUME NEW n \in 0..Len(Tail(queue))
        PROVE  Up(B', Tail(queue), "button", Cmd, n) <=> Up(B, queue, "button", Cmd, n + 1)
    BY <1>1, <1>5, UpTail
  <1>8. /\ Len(queue') \in Nat /\ Len(queue) = Len(queue') + 1
        /\ \A i \in 1..Len(queue') : queue'[i] = queue[i + 1] /\ i + 1 \in 1..Len(queue)
    BY <1>1, <1>2
  <1>9. \A k, n : n \in 0..Len(queue') =>
              (Up(macDown', queue', "key", k, n) <=> Up(macDown, queue, "key", k, n + 1))
    BY <1>1, <1>6
  <1>10. \A n \in 0..Len(queue') : Up(B', queue', "button", Cmd, n) <=> Up(B, queue, "button", Cmd, n + 1)
    BY <1>1, <1>7
  <1> QED BY <1>8, <1>9, <1>10 DEF B

\* The same, or nothing new, for a session the UI is connected to.
LEMMA BackConnected ==
  ASSUME TypeOK, Turns, Back, Live', connected'
  PROVE  /\ Live /\ connected
         /\ \/ RunCommand
            \/ queue' = queue /\ macDown' = macDown /\ macButton' = macButton
  BY BackLive, BackKeeps

\* A command applied changes nothing of what the queue comes to: for Command,
LEMMA BackMods ==
  ASSUME TypeOK, Turns, ModsTracked, Back
  PROVE  ModsTracked'
  <1> SUFFICES ASSUME Live', connected'
               PROVE  mods' <=> ~Up(macDown', queue', "key", Cmd, Len(queue'))
    BY DEF ModsTracked, UpAfter
  <1>1. /\ Live /\ connected /\ mods' = mods
        /\ \/ RunCommand
           \/ queue' = queue /\ macDown' = macDown
    BY BackConnected, BackKeeps
  <1>2. mods <=> ~Up(macDown, queue, "key", Cmd, Len(queue))
    BY <1>1 DEF ModsTracked, UpAfter
  <1>3. CASE RunCommand
    <2>1. /\ Len(queue') \in Nat /\ Len(queue) = Len(queue') + 1
          /\ \A k, n : n \in 0..Len(queue') =>
               (Up(macDown', queue', "key", k, n) <=> Up(macDown, queue, "key", k, n + 1))
      BY <1>3, RunQueue
    <2>2. Len(queue') \in 0..Len(queue')
      BY <2>1
    <2>3. Up(macDown', queue', "key", Cmd, Len(queue')) <=> Up(macDown, queue, "key", Cmd, Len(queue))
      BY <2>1, <2>2
    <2> QED BY <1>1, <1>2, <2>3
  <1>4. CASE queue' = queue /\ macDown' = macDown
    BY <1>1, <1>2, <1>4
  <1> QED BY <1>1, <1>3, <1>4

\* for the keys, the button and the characters,
LEMMA BackTracked ==
  ASSUME TypeOK, Turns, Tracked, Back
  PROVE  Tracked'
  <1> DEFINE B == ButtonDown
  <1> SUFFICES ASSUME Live', connected'
               PROVE  /\ ~buttons' => Up(B', queue', "button", Cmd, Len(queue'))
                      /\ \A k \in Keys \ pressed' : Up(macDown', queue', "key", k, Len(queue'))
                      /\ \A k \in {Char, Letter} :
                           /\ Up({}, paste', "key", k, Len(paste'))
                           /\ \/ Up(macDown', queue', "key", k, Len(queue'))
                              \/ \E i \in 1..Len(paste') : Frees(paste'[i], "key", k)
    BY DEF Tracked, UpAfter, Frees
  <1>1. /\ Live /\ connected /\ buttons' = buttons /\ pressed' = pressed /\ paste' = paste
        /\ RunCommand \/ (queue' = queue /\ macDown' = macDown /\ macButton' = macButton)
    BY BackConnected, BackKeeps
  <1>2. /\ ~buttons => Up(B, queue, "button", Cmd, Len(queue))
        /\ \A k \in Keys \ pressed : Up(macDown, queue, "key", k, Len(queue))
        /\ \A k \in {Char, Letter} :
             /\ Up({}, paste, "key", k, Len(paste))
             /\ Up(macDown, queue, "key", k, Len(queue)) \/ \E i \in 1..Len(paste) : Frees(paste[i], "key", k)
    BY <1>1 DEF Tracked, UpAfter
  <1>3. (queue' = queue /\ macDown' = macDown /\ macButton' = macButton) => B' = B
    BY DEF ButtonDown
  <1> HIDE DEF B
  <1>4. /\ Up(B', queue', "button", Cmd, Len(queue')) <=> Up(B, queue, "button", Cmd, Len(queue))
        /\ \A k : Up(macDown', queue', "key", k, Len(queue')) <=> Up(macDown, queue, "key", k, Len(queue))
    <2>1. CASE RunCommand
      <3>1. /\ Len(queue') \in Nat /\ Len(queue) = Len(queue') + 1
            /\ \A k, n : n \in 0..Len(queue') =>
                 (Up(macDown', queue', "key", k, n) <=> Up(macDown, queue, "key", k, n + 1))
            /\ \A n \in 0..Len(queue') :
                 Up(B', queue', "button", Cmd, n) <=> Up(B, queue, "button", Cmd, n + 1)
        BY <2>1, RunQueue DEF B
      <3>2. Len(queue') \in 0..Len(queue')
        BY <3>1
      <3> QED BY <3>1, <3>2
    <2>2. CASE queue' = queue /\ macDown' = macDown /\ macButton' = macButton
      BY <1>3, <2>2
    <2> QED BY <1>1, <2>1, <2>2
  <1> QED BY <1>1, <1>2, <1>4

\* and at each place in the queue.
LEMMA BackMeant ==
  ASSUME TypeOK, Turns, Meant, Back
  PROVE  Meant'
  <1>1. phase' = phase /\ mods' = mods /\ paste' = paste
    BY BackKeeps
  <1>2. ASSUME Live', connected', NEW i \in 1..Len(queue')
        PROVE  /\ IsTyped(queue'[i]) => Up(macDown', queue', "key", Cmd, i - 1)
               /\ IsShort(queue'[i]) => ~Up(macDown', queue', "key", Cmd, i - 1)
    <2>1. /\ Live /\ connected
          /\ RunCommand \/ (queue' = queue /\ macDown' = macDown)
      BY <1>2, BackConnected
    <2>2. \A j \in 1..Len(queue) :
            /\ IsTyped(queue[j]) => Up(macDown, queue, "key", Cmd, j - 1)
            /\ IsShort(queue[j]) => ~Up(macDown, queue, "key", Cmd, j - 1)
      BY <2>1 DEF Meant, UpAfter
    <2>3. CASE RunCommand
      <3>1. /\ Len(queue') \in Nat
            /\ \A j \in 1..Len(queue') : queue'[j] = queue[j + 1] /\ j + 1 \in 1..Len(queue)
            /\ \A k, n : n \in 0..Len(queue') =>
                 (Up(macDown', queue', "key", k, n) <=> Up(macDown, queue, "key", k, n + 1))
        BY <2>3, RunQueue
      <3>2. i - 1 \in 0..Len(queue') /\ (i - 1) + 1 = (i + 1) - 1 /\ i \in 1..Len(queue')
        BY <3>1
      <3>3. Up(macDown', queue', "key", Cmd, i - 1) <=> Up(macDown, queue, "key", Cmd, (i + 1) - 1)
        BY <3>1, <3>2
      <3>4. queue'[i] = queue[i + 1] /\ i + 1 \in 1..Len(queue)
        BY <3>1, <3>2
      <3> QED BY <2>2, <3>3, <3>4
    <2>4. CASE queue' = queue /\ macDown' = macDown
      BY <2>2, <2>4
    <2> QED BY <2>1, <2>3, <2>4
  <1>3. \A i \in 1..Len(paste') :
          /\ IsTyped(paste'[i]) => ~mods'
          /\ IsShort(paste'[i]) => i = 1 /\ phase' \in {"drain", "gone"} /\ (phase' = "drain" => mods')
    BY <1>1 DEF Meant
  <1> QED BY <1>2, <1>3 DEF Meant, UpAfter, IsTyped, IsShort

-----------------------------------------------------------------------------
(* The theorems *)

\* The invariant holds at first, and each step keeps it.
LEMMA InvInit == Init => IInv
  <1> SUFFICES ASSUME Init PROVE IInv
    OBVIOUS
  <1>1. /\ Len(<<>>) = 0 /\ <<>> \in Seq(Commands) /\ <<>> \in Seq({"connected", "disconnected"})
        /\ \A i \in 1..0 : FALSE
    OBVIOUS
  <1>2. /\ queue = <<>> /\ paste = <<>> /\ events = <<>> /\ bpc = "idle" /\ phase = "drain" /\ ~connected
        /\ connecting = FALSE /\ cancelling = FALSE /\ pressed = {} /\ mods = FALSE /\ buttons = FALSE
    BY DEF Init
  <1>3. Len(queue) = 0 /\ Len(paste) = 0 /\ Len(events) = 0
    BY <1>1, <1>2
  <1>4. TypeOK
    <2>1. 0 \in 0..MaxConnect /\ 0 \in 0..MaxEdit /\ 0 <= QueueCap
      BY Constants
    <2>2. paste \in Seq(Commands) /\ queue \in Seq(Commands) /\ events \in Seq({"connected", "disconnected"})
      BY <1>1, <1>2
    <2>3. Len(queue) <= QueueCap
      BY <1>3, <2>1
    <2> QED BY <2>1, <2>2, <2>3 DEF Init, TypeOK
  <1>5. NoConnect(queue) /\ bpc \in Rests /\ bpc \notin Inside
    BY <1>1, <1>2, <1>3 DEF NoConnect, Rests, Inside
  <1>6. Turns
    BY <1>1, <1>2, <1>3, <1>5 DEF Turns, Inside
  <1>7. PasteOwn
    BY <1>1, <1>2, <1>3 DEF PasteOwn
  <1>8. Blank
    BY <1>2 DEF Blank
  <1>9. ~Live
    BY <1>5 DEF Live
  <1>10. Begun
    BY <1>1, <1>3, <1>9 DEF Begun
  <1>11. ModsTracked /\ Tracked
    BY <1>9 DEF ModsTracked, Tracked
  <1>12. Meant
    BY <1>1, <1>3, <1>9 DEF Meant
  <1> QED BY <1>4, <1>6, <1>7, <1>8, <1>10, <1>11, <1>12 DEF IInv

\* A step of the UI thread.
LEMMA InvUi ==
  ASSUME IInv, Ui
  PROVE  IInv'
  <1>1. TypeOK /\ Turns /\ PasteOwn /\ Blank /\ Begun /\ ModsTracked
    BY DEF IInv
  <1>2. TypeOK' /\ Turns' /\ PasteOwn' /\ Blank' /\ Begun' /\ ModsTracked'
    BY <1>1, UiType, UiTurns, UiPasteOwn, UiBlank, UiBegun, UiMods
  <1>3. Untracked \cap Acts = {} => Tracked'
    BY <1>1, UiTracked DEF IInv
  <1>4. Nested \cap Acts = {} => Meant'
    BY <1>1, UiMeant DEF IInv
  <1> QED BY <1>2, <1>3, <1>4 DEF IInv

\* A step of the backend.
LEMMA InvBack ==
  ASSUME IInv, Back
  PROVE  IInv'
  <1>1. TypeOK /\ Turns /\ PasteOwn /\ Blank /\ Begun /\ ModsTracked
    BY DEF IInv
  <1>2. TypeOK' /\ Turns' /\ PasteOwn' /\ Blank' /\ Begun' /\ ModsTracked'
    BY <1>1, BackType, BackTurns, BackPaste, BackBegun, BackMods
  <1>3. Untracked \cap Acts = {} => Tracked'
    BY <1>1, BackTracked DEF IInv
  <1>4. Nested \cap Acts = {} => Meant'
    BY <1>1, BackMeant DEF IInv
  <1> QED BY <1>2, <1>3, <1>4 DEF IInv

\* A step that changes nothing.
LEMMA InvStutter ==
  ASSUME IInv, UNCHANGED vars
  PROVE  IInv'
  <1>1. /\ phase' = phase /\ connected' = connected /\ connecting' = connecting /\ cancelling' = cancelling
        /\ texture' = texture /\ panel' = panel /\ pressed' = pressed /\ mods' = mods /\ buttons' = buttons
        /\ paste' = paste /\ remoteOwns' = remoteOwns /\ held' = held /\ cmdHeld' = cmdHeld
        /\ focused' = focused /\ edits' = edits /\ connects' = connects /\ cancelled' = cancelled
        /\ queue' = queue /\ events' = events /\ latest' = latest /\ bpc' = bpc /\ bn' = bn
        /\ announced' = announced /\ macDown' = macDown /\ macButton' = macButton
    BY DEF vars, view, input, clip, user, chan, back, remote
  <1>2. TypeOK => TypeOK'
    BY <1>1 DEF TypeOK
  <1>3. Turns => Turns'
    BY <1>1 DEF Turns, Busy, NoConnect, Of, Ended
  <1>4. PasteOwn /\ Blank => PasteOwn' /\ Blank'
    BY <1>1 DEF PasteOwn, Blank, Busy, Of
  <1>5. Live' <=> Live
    BY <1>1 DEF Live
  <1>6. Begun => Begun'
    BY <1>1, <1>5 DEF Begun
  <1>7. ModsTracked => ModsTracked'
    BY <1>1, <1>5 DEF ModsTracked, UpAfter
  <1>8. Tracked => Tracked'
    <2>1. ButtonDown' = ButtonDown
      BY <1>1 DEF ButtonDown
    <2> QED BY <1>1, <1>5, <2>1 DEF Tracked, UpAfter
  <1>9. Meant => Meant'
    BY <1>1, <1>5 DEF Meant, UpAfter
  <1> QED BY <1>2, <1>3, <1>4, <1>6, <1>7, <1>8, <1>9 DEF IInv

\* The two threads' turns, and what either keeps track of, in every state of every run.
THEOREM Invariance == Spec => []IInv
  <1>1. ASSUME IInv, Next PROVE IInv'
    <2>1. Ui \/ Connect \/ Back
      BY <1>1, Zenon DEF Next, Frame, UserActs, Ui, RemoteInput, Back
    <2> QED BY <1>1, <2>1, InvUi, ConnectKeeps, InvBack
  <1>2. IInv /\ [Next]_vars => IInv'
    BY <1>1, InvStutter
  <1> QED BY <1>2, InvInit, PTL DEF Spec

\* Every variable has its type; in particular the queue never holds more than
\* COMMAND_QUEUE_CAPACITY commands.
THEOREM TypeCorrect == Spec => []TypeOK
  <1>1. IInv => TypeOK
    BY DEF IInv
  <1> QED BY <1>1, Invariance, PTL

\* The command a running session takes next was made for that session.
THEOREM SessionsApart == Spec => []NoInputFromOtherSession
  <1>1. IInv => NoInputFromOtherSession
    <2> SUFFICES ASSUME IInv, bpc = "running", queue # <<>> PROVE Head(queue).n = bn
      BY DEF NoInputFromOtherSession
    <2>1. bn = connects /\ Of(queue, connects)
      BY DEF IInv, Turns, Rests
    <2>2. 1 \in 1..Len(queue) /\ Head(queue) = queue[1]
      BY QueueTail DEF IInv, TypeOK
    <2> QED BY <2>1, <2>2 DEF Of
  <1> QED BY <1>1, Invariance, PTL

\* For a user whose keyboard does not repeat into a view that has let go of the
\* key, and who opens no panel while a paste is being typed: once the queue and the
\* paste are empty, the Mac holds only what release_input would release.
THEOREM NoKeyLatched ==
  ASSUME Untracked \cap Acts = {}
  PROVE  Spec => []OnlyTrackedKeysDown
  <1>1. IInv => OnlyTrackedKeysDown
    <2> SUFFICES ASSUME IInv, bpc = "running", connected, ~cancelled, queue = <<>>, paste = <<>>
                 PROVE  /\ macDown \subseteq pressed \cup IF mods THEN {Cmd} ELSE {}
                        /\ macButton => buttons
      BY DEF OnlyTrackedKeysDown
    <2>1. Live /\ connected
      BY DEF Live, Inside
    <2>2. Len(queue) = 0 /\ Len(paste) = 0
      OBVIOUS
    <2>3. \A i \in 1..0 : FALSE
      OBVIOUS
    <2>4. \A D, c, k, q : Up(D, q, c, k, 0) <=> k \notin D
      BY <2>3 DEF Up
    <2>5. macDown \subseteq Keys \cup {Cmd, Char, Letter}
      BY DEF IInv, TypeOK, AllKeys
    <2>6. mods <=> ~Up(macDown, queue, "key", Cmd, Len(queue))
      BY <2>1 DEF IInv, ModsTracked, UpAfter
    <2>7. /\ ~buttons => Up(ButtonDown, queue, "button", Cmd, Len(queue))
          /\ \A k \in Keys \ pressed : Up(macDown, queue, "key", k, Len(queue))
          /\ \A k \in {Char, Letter} :
               Up(macDown, queue, "key", k, Len(queue)) \/ \E i \in 1..Len(paste) : Frees(paste[i], "key", k)
      BY <2>1 DEF IInv, Tracked, UpAfter
    <2>8. Cmd \in macDown => mods
      BY <2>2, <2>4, <2>6
    <2>9. \A k \in Keys \ pressed : k \notin macDown
      BY <2>2, <2>4, <2>7
    <2>10. \A k \in {Char, Letter} : k \notin macDown
      BY <2>2, <2>3, <2>4, <2>7
    <2>11. ~buttons => Cmd \notin ButtonDown
      BY <2>2, <2>4, <2>7
    <2>12. macButton => buttons
      BY <2>11 DEF ButtonDown
    <2> QED BY <2>5, <2>8, <2>9, <2>10, <2>12
  <1> QED BY <1>1, Invariance, PTL

\* For a user who copies and pastes nothing more while a paste is being typed: a
\* pasted character meets Command up, the letter of a replayed shortcut meets it
\* down, whatever the keyboard did since.
THEOREM PasteMeetsCmd ==
  ASSUME Nested \cap Acts = {}
  PROVE  Spec => []CmdAsMeant
  <1>1. IInv => CmdAsMeant
    <2> SUFFICES ASSUME IInv, bpc = "running", ~cancelled, queue # <<>>
                 PROVE  /\ IsTyped(Head(queue)) => Cmd \notin macDown
                        /\ IsShort(Head(queue)) => Cmd \in macDown
      BY DEF CmdAsMeant, TypedWithoutCmd, ShortcutWithCmd, IsTyped, IsShort
    <2>1. Live
      BY DEF Live, Inside
    <2>2. connected
      BY <2>1 DEF IInv, Begun
    <2>3. 1 \in 1..Len(queue) /\ Head(queue) = queue[1]
      BY QueueTail DEF IInv, TypeOK
    <2>4. /\ IsTyped(queue[1]) => Up(macDown, queue, "key", Cmd, 1 - 1)
          /\ IsShort(queue[1]) => ~Up(macDown, queue, "key", Cmd, 1 - 1)
      BY <2>1, <2>2, <2>3 DEF IInv, Meant, UpAfter
    <2>5. 1 - 1 = 0 /\ \A i \in 1..0 : FALSE
      OBVIOUS
    <2>6. Up(macDown, queue, "key", Cmd, 0) <=> Cmd \notin macDown
      BY <2>5 DEF Up
    <2> QED BY <2>3, <2>4, <2>5, <2>6
  <1> QED BY <1>1, Invariance, PTL

\* A view that is closing never shows a new picture, nor takes a late Connected
\* for an answer.
THEOREM ClosingStaysClosed == Spec => NeverRevived
  <1> DEFINE A == cancelling /\ cancelling' => (connected' => connected) /\ texture' \in {texture, 0}
  <1>1. [Next]_vars => [A]_vars
    <2> SUFFICES ASSUME [Next]_vars PROVE A
      OBVIOUS
    <2>1. CASE Back \/ UNCHANGED vars
      <3>1. connected' = connected /\ texture' = texture
        BY <2>1, BackKeeps DEF vars, view
      <3> QED BY <3>1
    <2>2. CASE Connect
      BY <2>2 DEF Connect
    <2>3. CASE TakeFrame \/ OnConnected \/ OnDisconnected
      BY <2>3 DEF TakeFrame, OnConnected, OnDisconnected
    <2>4. CASE DrainPaste \/ SkipToolbar \/ QuietCanvas \/ TogglePanel \/ Disconnect \/ Quit \/ Hands
      <3>1. connected' = connected /\ texture' = texture
        BY <2>4 DEF DrainPaste, SkipToolbar, QuietCanvas, TogglePanel, Disconnect, Quit, Hands, HandCmd,
                    HandKeyUp, Focus, view
      <3> QED BY <3>1
    <2>5. CASE RemoteInput
      <3>1. CanvasRest
        BY <2>5 DEF RemoteInput, NoEvent, Copy, PasteRemote, PasteLocal, KeyDown, KeyRepeat, KeyUp, Click
      <3>2. connected' = connected /\ texture' = texture
        BY <3>1 DEF CanvasRest, view
      <3> QED BY <3>2
    <2>6. Back \/ Connect \/ Ui \/ UNCHANGED vars
      BY Zenon DEF Next, Frame, UserActs, Ui, RemoteInput, Back
    <2> QED BY <2>1, <2>2, <2>3, <2>4, <2>5, <2>6 DEF Ui
  <1> QED BY <1>1, PTL DEF Spec, NeverRevived

=============================================================================
