---------------------------- MODULE Depacketizer ----------------------------
(***************************************************************************)
(* hp-media, depacketize.rs: authenticated RTP packets in, access units    *)
(* out.  Packets are grouped by source and timestamp; groups leave in the  *)
(* order in which they arrived, whole, or are given up with a new loss     *)
(* epoch.  A single-picture receiver follows a source that restarts under  *)
(* another SSRC.                                                           *)
(*                                                                         *)
(* The struct Depacketizer is a record d; times are the ages the code      *)
(* computes from `now`, each up to the largest it is compared with.  A     *)
(* packet is one unit of bytes, and comes once (see SrtpReceiver).         *)
(* Payloads are reduced to what reassembly tells apart: a packet holds     *)
(* parameter sets only (lead), or the beginning of the first slice, or     *)
(* more of the slices of a picture.                                        *)
(***************************************************************************)
EXTENDS Integers, SequencesExt

CONSTANTS
  Sources,          \* SSRCs, numbers; fewer than the 32 observed ones
  SeqSpace,         \* 65536
  TsSpace,          \* 2^32
  HOLD,             \* HOLD_MS, for fragments that follow the marker
  IDLE,             \* INCOMPLETE_IDLE_MS
  AGE,              \* MAX_GROUP_AGE_MS
  DISCOVERY,        \* 750 ms to see all sources
  QUIET,            \* 100 ms without the present source
  ADOPT,            \* packets that a new source must have shown (8)
  CANDIDATE,        \* MAX_CANDIDATE_PACKETS
  MAX_GROUPS, MAX_GROUP_BYTES, MAX_PENDING_BYTES

ASSUME DepacketizerAssumption ==
  /\ Sources \subseteq Nat /\ {SeqSpace, TsSpace} \subseteq Nat \ {0}
  /\ {HOLD, IDLE, AGE, DISCOVERY, QUIET, ADOPT, CANDIDATE} \subseteq Nat \ {0}
  /\ {MAX_GROUPS, MAX_GROUP_BYTES, MAX_PENDING_BYTES} \subseteq Nat \ {0}
  \* An adoption replays fewer packets than would evict a group.
  /\ CANDIDATE < MAX_GROUPS

NoTs == -1

Upto(limit, n) == IF n < limit THEN n ELSE limit

\* Depacketizer::new
New(tiles) ==
  [tiles |-> tiles, sources |-> {}, groups |-> <<>>,
   begun |-> FALSE, since |-> 0, haveKey |-> FALSE,
   lastTs |-> [s \in Sources |-> NoTs],
   packets |-> [s \in Sources |-> 0], silent |-> [s \in Sources |-> 0],
   prefix |-> [s \in Sources |-> <<>>],
   generation |-> 0, epoch |-> 0,
   givenUp |-> {}]          \* what reassembly has discarded (history)

RecordLoss(d) == [d EXCEPT !.epoch = @ + 1]

Marked(g) == \E p \in g.packets : p.marker

OlderGroup(g) ==
  [g EXCEPT !.age = Upto(AGE, @ + 1), !.idle = Upto(IDLE, @ + 1),
            !.held = IF Marked(g) THEN Upto(HOLD, @ + 1) ELSE 0]

\* Time goes by: a millisecond, or many at once.
Older(d) ==
  [d EXCEPT
    !.since = IF d.begun THEN Upto(DISCOVERY, @ + 1) ELSE 0,
    !.silent = [s \in Sources |-> Upto(QUIET, @[s] + 1)],
    !.groups = [i \in DOMAIN @ |-> OlderGroup(@[i])]]

-----------------------------------------------------------------------------
(* Groups *)

End(g) == (CHOOSE p \in g.packets : p.marker).seq

\* Sorted by distance from the marker, the numbers must be consecutive.
Consecutive(g) ==
  {(End(g) - p.seq) % SeqSpace : p \in g.packets}
    = 0..Cardinality(g.packets) - 1

Slices(g) == {p \in g.packets : ~p.lead}

\* reassemble finds no FU start, or no slice is the first of the picture.
Headless(g) == Slices(g) # {} /\ \A p \in Slices(g) : ~p.first

\* History: the picture, and whether all its slices are there.
Sample(g) == CHOOSE p \in g.packets : TRUE
Whole(g)  == Cardinality(Slices(g)) = Sample(g).slices

\* only what has just been emitted counts as late
LateOnlyAgain(d, g) == g.ts = d.lastTs[g.src]

\* The timestamp is not ahead of the last one emitted, as a wrapped i32.
LateTimestamp(d, g) ==
  /\ d.lastTs[g.src] # NoTs
  /\ (g.ts - d.lastTs[g.src]) % TsSpace \notin 1..TsSpace \div 2 - 1

\* a marker is waited for without a limit
HeldForMarker(g) == Marked(g) => g.held < HOLD

\* A group waits for fragments behind its marker, or for its marker.
Held(g) == IF Marked(g) THEN g.held < HOLD ELSE g.idle < IDLE /\ g.age < AGE

\* sources.binary_search
Tile(d, s) == Cardinality({r \in d.sources : r < s})

AccessUnit(d, g) ==
  [src |-> g.src, pic |-> Sample(g).pic, geo |-> Sample(g).geo, key |-> Sample(g).key,
   whole |-> Whole(g), tile |-> Tile(d, g.src), generation |-> d.generation,
   epoch |-> d.epoch]

-----------------------------------------------------------------------------
(* Depacketizer::poll, one group: r.d without it, and with what it becomes.  *)

GiveUp(r, g) ==
  LET picture == [src |-> g.src, pic |-> Sample(g).pic, whole |-> Whole(g)]
  IN [r EXCEPT !.d = [RecordLoss(r.d) EXCEPT !.givenUp = r.d.givenUp \cup {picture}]]

Emit(r, g) ==
  [r EXCEPT !.out = Append(@, AccessUnit(r.d, g)),
            !.d.haveKey = @ \/ Sample(g).key,
            !.d.lastTs[g.src] = g.ts]

Assemble(r, g) ==
  IF ~Marked(g) \/ ~Consecutive(g) \/ Headless(g) THEN GiveUp(r, g)
  ELSE IF Slices(g) = {}                          THEN r
  ELSE IF ~r.d.haveKey /\ ~Sample(g).key             THEN r
  ELSE Emit(r, g)

PollGroup(r, g) ==
  LET left == [r EXCEPT !.d.groups = Tail(@)]
  IN IF r.stopped                 THEN r
     ELSE IF LateTimestamp(r.d, g) THEN left
     ELSE IF Held(g)              THEN [r EXCEPT !.stopped = TRUE]
     ELSE Assemble(left, g)

\* Depacketizer::poll
Poll(d) ==
  LET start == [d |-> d, out |-> <<>>, stopped |-> FALSE]
  IN IF Cardinality(d.sources) < d.tiles /\ d.since < DISCOVERY
     THEN start
     ELSE FoldLeft(PollGroup, start, d.groups)

-----------------------------------------------------------------------------
(* Depacketizer::push_selected *)

Pending(d) == FoldLeft(LAMBDA n, g : n + Cardinality(g.packets), 0, d.groups)

GroupOf(d, p) ==
  {i \in DOMAIN d.groups : d.groups[i].src = p.src /\ d.groups[i].ts = p.ts}

\* The group evicted at the limit is the oldest, any of several of that age.
Victims(d) ==
  {i \in DOMAIN d.groups :
     \A j \in DOMAIN d.groups : d.groups[j].age <= d.groups[i].age}

\* no group is evicted
MakeNoRoom(d, p, victim) == d

MakeRoom(d, p, victim) ==
  IF GroupOf(d, p) = {} /\ Len(d.groups) >= MAX_GROUPS
  THEN RecordLoss([d EXCEPT !.groups = RemoveAt(@, victim)])
  ELSE d

Insert(d, p) ==
  IF GroupOf(d, p) = {}
  THEN [d EXCEPT !.groups = Append(@, [src |-> p.src, ts |-> p.ts, packets |-> {p},
                                       age |-> 0, idle |-> 0, held |-> 0])]
  ELSE LET i == CHOOSE i \in GroupOf(d, p) : TRUE
           g == d.groups[i]
       IN [d EXCEPT !.groups[i] =
            [g EXCEPT !.packets = @ \cup {p}, !.idle = 0,
                      !.held = IF Marked(g) THEN @ ELSE 0]]

DropOversized(d, p) ==
  LET big == {i \in GroupOf(d, p) : Cardinality(d.groups[i].packets) > MAX_GROUP_BYTES}
  IN IF big = {} THEN d
     ELSE RecordLoss([d EXCEPT !.groups = RemoveAt(@, CHOOSE i \in big : TRUE)])

PushSelected(d, p, victim) ==
  LET e == [d EXCEPT !.begun = TRUE]
  IN IF Pending(d) + 1 > MAX_PENDING_BYTES
     THEN Poll(RecordLoss(e))
     ELSE Poll(DropOversized(Insert(MakeRoom(e, p, victim), p), p))

-----------------------------------------------------------------------------
(* Depacketizer::push *)

Observe(d, p) ==
  [d EXCEPT !.packets[p.src] = Upto(ADOPT, @ + 1), !.silent[p.src] = 0]

Handoff(d) ==
  [d EXCEPT !.generation = @ + 1, !.sources = {}, !.groups = <<>>,
            !.haveKey = FALSE, !.lastTs = [s \in Sources |-> NoTs]]

\* Another source takes over: the present one is quiet, this one is not.
Replaces(d, p) ==
  /\ d.tiles = 1
  /\ \A s \in d.sources : d.silent[s] >= QUIET
  /\ d.packets[p.src] >= ADOPT

\* The newest packets of a candidate are kept.
KeepPrefix(d, p) ==
  IF d.tiles # 1 THEN d
  ELSE [d EXCEPT !.prefix[p.src] =
          Append(IF Len(@) >= CANDIDATE THEN Tail(@) ELSE @, p)]

\* The packets kept of a source now selected, then the one in hand.
Replay(d, p, victim) ==
  LET step(r, q) == LET n == PushSelected(r.d, q, victim)
                    IN [n EXCEPT !.out = r.out \o @]
  IN FoldLeft(step, [d |-> [d EXCEPT !.prefix[p.src] = <<>>], out |-> <<>>,
                     stopped |-> FALSE], Append(d.prefix[p.src], p))

Push(d, p, victim) ==
  LET o == Observe(d, p)
      select(e) == [e EXCEPT !.sources = @ \cup {p.src}]
  IN IF p.src \in d.sources                      THEN Replay(o, p, victim)
     ELSE IF Cardinality(d.sources) < d.tiles    THEN Replay(select(o), p, victim)
     ELSE IF Replaces(o, p)                      THEN Replay(select(Handoff(o)), p, victim)
     ELSE Poll(KeepPrefix(o, p))
=============================================================================
