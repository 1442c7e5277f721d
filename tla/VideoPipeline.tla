--------------------------- MODULE VideoPipeline ---------------------------
(***************************************************************************)
(* From video packets to published pictures: the media part of             *)
(* run_session (macvnc-app, backend.rs), the depacketizer, the decoder as  *)
(* the session uses it, and the compositor (hp-media, compositor.rs).      *)
(*                                                                         *)
(* The session's loop is a reconfiguration if there is one, the packets    *)
(* that have arrived, a last poll, the access units, a publication.  The   *)
(* network loses packets and delivers the others in any order; SRTP has    *)
(* removed duplicates.  FFmpeg is external: it may decode an access unit,  *)
(* return no picture, or report an error, whatever it is given, so nothing *)
(* here rests on its reporting a missing reference.                        *)
(***************************************************************************)
EXTENDS Depacketizer

CONSTANTS
  TileCounts,       \* tile counts the Mac may answer with
  Plans,            \* what the Mac may send: for each source a sequence of pictures,
                    \* records of key, lead (parameter sets first), slices, geo
  MaxReoffer        \* bound: media re-offers and changes of size

NoGeneration == -1
NoSlot       == -1

VARIABLES
  d,            \* depacketizer
  units,        \* units, the access units of this batch
  phase,        \* where the loop is: receive, decode, or over
  generation,   \* generation, NoGeneration for None
  lossEpoch,    \* loss_epoch
  needsKey,     \* needs_keyframe
  dirty,        \* dirty
  bases,        \* per source, the last keyframe the decoder has (history)
  tiles,        \* the compositor's bands, where seen
  slot,         \* Compositor.slot_height
  latest,       \* the bands of the picture last published
  canvas,       \* history: number of reconfigurations
  air           \* packets under way, or lost

vars == <<d, units, phase, generation, lossEpoch, needsKey, dirty, bases, tiles, slot, latest,
          canvas, air>>

session == <<units, phase, generation, lossEpoch, needsKey, dirty, bases, tiles, slot,
             latest, canvas>>

Blank   == <<>>
NoBases == [s \in Sources |-> 0]

-----------------------------------------------------------------------------
(* The Mac.  It does not hear of what arrives, so all it will send is under   *)
(* way from the beginning, to be delivered at any time, in any order, or      *)
(* never.                                                                     *)

Size(x) == x.slices + IF x.lead THEN 1 ELSE 0

\* A packet may be delayed as long as the session lasts, so what a source sends spans
\* less than half the timestamps, and a picture no more than all sequence numbers.
ASSUME PlansAssumption ==
  /\ TileCounts \subseteq Nat \ {0}
  /\ \A plan \in Plans, s \in Sources :
       /\ plan[s] \in Seq([key : BOOLEAN, lead : BOOLEAN, slices : Nat, geo : Nat])
       /\ Len(plan[s]) <= TsSpace \div 2
       /\ \A n \in DOMAIN plan[s] : Size(plan[s][n]) <= SeqSpace

\* The packets of picture n of a source, its first one numbered `from`.
Packets(s, n, x, from) ==
  {[src |-> s, pic |-> n, geo |-> x.geo, key |-> x.key,
    ts |-> (TsSpace - 3 + n) % TsSpace, seq |-> (from + i) % SeqSpace,
    lead |-> x.lead /\ i = 0, first |-> i = Size(x) - x.slices,
    marker |-> i = Size(x) - 1, slices |-> x.slices]
   : i \in 0..Size(x) - 1}

\* A source numbers the packets of its pictures x[1], x[2], ... without gaps.
Sends(s, x) ==
  UNION {Packets(s, n, x[n],
                 FoldLeft(LAMBDA sum, y : sum + Size(y), SeqSpace - 1, SubSeq(x, 1, n - 1)))
         : n \in DOMAIN x}

Init ==
  /\ \E n \in TileCounts : d = New(n)
  /\ units = <<>> /\ phase = "receive"
  /\ generation = NoGeneration /\ lossEpoch = 0
  /\ needsKey = TRUE /\ dirty = FALSE
  /\ bases = NoBases /\ tiles = Blank /\ slot = NoSlot /\ latest = Blank /\ canvas = 0
  /\ \E plan \in Plans : air = UNION {Sends(s, plan[s]) : s \in Sources}

-----------------------------------------------------------------------------
(* The loop of run_session *)

Tick ==
  /\ phase = "receive"
  /\ d' = Older(d)
  /\ d' # d
  /\ UNCHANGED <<session, air>>

\* Another size, or a re-offer: everything but the keys starts afresh.
Reconfigure ==
  /\ phase = "receive" /\ units = <<>>
  /\ canvas < MaxReoffer
  /\ \E n \in TileCounts : d' = New(n)
  /\ generation' = NoGeneration /\ lossEpoch' = 0
  /\ needsKey' = TRUE /\ dirty' = FALSE
  /\ bases' = NoBases /\ tiles' = Blank /\ slot' = NoSlot
  /\ canvas' = canvas + 1
  /\ UNCHANGED <<units, phase, latest, air>>

Receive(p) ==
  /\ phase = "receive"
  /\ \E victim \in Victims(d) \cup {0} :
       /\ victim = 0 <=> Victims(d) = {}
       /\ LET r == Push(d, p, victim) IN d' = r.d /\ units' = units \o r.out
  /\ air' = air \ {p}
  /\ UNCHANGED <<phase, generation, lossEpoch, needsKey, dirty, bases, tiles, slot, latest, canvas>>

\* The socket has no more: poll, then turn to the access units.
EndReceive ==
  /\ phase = "receive"
  /\ LET r == Poll(d) IN d' = r.d /\ units' = units \o r.out
  /\ phase' = "decode"
  /\ UNCHANGED <<generation, lossEpoch, needsKey, dirty, bases, tiles, slot, latest,
                 canvas, air>>

Fresh(au) == generation # au.generation \/ lossEpoch # au.epoch

\* Whether only a keyframe will do, once the unit's generation and epoch are seen.
Gate(au) == needsKey \/ Fresh(au)

Suppress(au) ==
  /\ Gate(au) /\ ~au.key
  /\ needsKey' = TRUE
  /\ dirty' = (dirty /\ ~Fresh(au))
  /\ UNCHANGED <<bases, tiles, slot, phase>>

\* A keyframe that was waited for gets a new decoder and a new compositor.
Bases(au) ==
  LET b == IF Gate(au) THEN NoBases ELSE bases
  IN IF au.key THEN [b EXCEPT ![au.src] = au.pic] ELSE b
Canvas(au) == IF Gate(au) THEN Blank ELSE tiles
Slot(au)   == IF Gate(au) THEN NoSlot ELSE slot

\* The decoder fails, or logs an error or a missing reference.
DecodeError(au) ==
  /\ Gate(au) => au.key
  /\ needsKey' = TRUE /\ dirty' = FALSE
  /\ bases' = Bases(au) /\ tiles' = Canvas(au) /\ slot' = Slot(au)
  /\ UNCHANGED phase

\* No error and no picture.
DecodeNothing(au) ==
  /\ Gate(au) => au.key
  /\ needsKey' = Gate(au)
  /\ dirty' = (dirty /\ ~Fresh(au))
  /\ bases' = Bases(au) /\ tiles' = Canvas(au) /\ slot' = Slot(au)
  /\ UNCHANGED phase

Band(au) == [src |-> au.src, pic |-> au.pic, geo |-> au.geo, base |-> Bases(au)[au.src],
             stamp |-> <<canvas, au.generation, au.epoch>>]

\* Compositor::update; a band of another height ends the session.
Compose(au) ==
  /\ Gate(au) => au.key
  /\ needsKey' = FALSE
  /\ bases' = Bases(au)
  /\ IF Slot(au) \in {NoSlot, au.geo}
     THEN /\ slot' = au.geo
          /\ tiles' = [i \in DOMAIN Canvas(au) \cup {au.tile} |->
                          IF i = au.tile THEN Band(au) ELSE Canvas(au)[i]]
          /\ dirty' = ((dirty /\ ~Fresh(au))
                        \/ DOMAIN tiles' = 0..d.tiles - 1)
          /\ UNCHANGED phase
     ELSE /\ phase' = "over"
          /\ UNCHANGED <<dirty, tiles, slot>>

DecodeUnit ==
  /\ phase = "decode" /\ units # <<>>
  /\ LET au == Head(units) IN
       /\ Suppress(au) \/ DecodeError(au) \/ DecodeNothing(au) \/ Compose(au)
       /\ generation' = au.generation /\ lossEpoch' = au.epoch
  /\ units' = Tail(units)
  /\ UNCHANGED <<d, latest, canvas, air>>

\* the last unit decides alone
PublishRegardless ==
  /\ phase = "decode" /\ units = <<>>
  /\ latest' = IF dirty /\ ~needsKey THEN tiles ELSE latest
  /\ dirty' = (dirty /\ needsKey)
  /\ phase' = "receive"
  /\ UNCHANGED <<d, units, generation, lossEpoch, needsKey, bases, tiles, slot, canvas, air>>

\* A loss after the last unit counts; then the picture, if it is new and sound.
Publish ==
  LET lost == lossEpoch # d.epoch IN
  /\ phase = "decode" /\ units = <<>>
  /\ lossEpoch' = d.epoch
  /\ needsKey' = (needsKey \/ lost)
  /\ latest' = IF dirty /\ ~needsKey' THEN tiles ELSE latest
  /\ dirty' = (dirty /\ needsKey /\ ~lost)
  /\ phase' = "receive"
  /\ UNCHANGED <<d, units, generation, bases, tiles, slot, canvas, air>>

Loop == EndReceive \/ DecodeUnit \/ Publish

Next == Tick \/ Reconfigure \/ (\E p \in air : Receive(p)) \/ Loop

Spec == Init /\ [][Next]_vars

\* The loop goes round, and sleeps a millisecond each time: the clock does not
\* stand still for ever while rounds pass.
FairSpec == Spec /\ WF_vars(Loop) /\ SF_vars(Tick)

-----------------------------------------------------------------------------
(* Properties *)

\* The state is well typed, and the limits on what waits to be assembled hold.
TypeOK ==
  /\ d.tiles \in TileCounts
  /\ d.sources \subseteq Sources /\ Cardinality(d.sources) <= d.tiles
  /\ {d.generation, d.epoch} \subseteq Nat
  /\ Len(d.groups) <= MAX_GROUPS /\ Pending(d) <= MAX_PENDING_BYTES
  /\ \A i \in DOMAIN d.groups :
       /\ d.groups[i].src \in d.sources
       /\ Cardinality(d.groups[i].packets) \in 1..MAX_GROUP_BYTES
       /\ \A j \in 1..i - 1 : /\ GroupOf(d, [src |-> d.groups[i].src, ts |-> d.groups[i].ts]) = {i}
                              /\ d.groups[j].age >= d.groups[i].age
  /\ \A s \in Sources : Len(d.prefix[s]) <= CANDIDATE
  /\ phase \in {"receive", "decode", "over"}
  /\ generation \in Nat \cup {NoGeneration} /\ lossEpoch \in Nat
  /\ {needsKey, dirty} \subseteq BOOLEAN
  /\ DOMAIN tiles \subseteq 0..d.tiles - 1

\* Reassembly discards exactly what is damaged: an access unit has all slices
\* of its picture, and a picture whose slices are all there is not given up.
WholePictures ==
  /\ \A i \in DOMAIN units : units[i].whole
  /\ \A x \in d.givenUp : ~x.whole

\* Units of a source leave in the order of the Mac's pictures, however packets
\* overtake each other and wherever the timestamps wrap.
InOrder ==
  \A j \in DOMAIN units :
    LET u == units[j] IN
      /\ \A i \in 1..j - 1 :
           units[i].src = u.src /\ units[i].generation = u.generation => units[i].pic < u.pic
      /\ \A i \in DOMAIN tiles :
           tiles[i].src = u.src /\ tiles[i].stamp[2] = u.generation => tiles[i].pic < u.pic

\* The access units of a source are the Mac's pictures, whole and in order;
\* what is missing from them was damaged on the way.
UnitsSound == WholePictures /\ InOrder

\* A picture is published only if all of it was decoded after a keyframe that left
\* reassembly after the last loss, in the present configuration, and from one
\* generation of sources.
PublishedSound ==
  [][latest' # latest =>
       /\ \E s \in Sources : bases[s] # 0
       /\ DOMAIN tiles = 0..d.tiles - 1
       /\ \E g \in 0..d.generation : \A i \in DOMAIN tiles :
            tiles[i].stamp = <<canvas, g, d.epoch>>]_vars

\* A picture given up between the last keyframe and a published picture of its
\* source is never passed over: an earlier keyframe does not clear a later loss.
LossNotCleared ==
  \A i \in DOMAIN latest : \A x \in d.givenUp :
    latest[i].src = x.src /\ latest[i].base # 0 /\ latest[i].stamp[1] = canvas
      => x.pic \notin latest[i].base + 1..latest[i].pic

\* A group does not wait for ever, neither for a marker nor behind another group:
\* when no more packets come, nothing stays behind.
GroupsLeave == []<>(d.groups = <<>> \/ phase = "over")
=============================================================================
