-------------------------- MODULE MCVideoPipeline --------------------------
(* Small instances of VideoPipeline for TLC. *)
EXTENDS VideoPipeline

Shape(key, lead, n) == [key |-> key, lead |-> lead, slices |-> n, geo |-> 0]
Key        == Shape(TRUE, FALSE, 1)
Delta      == Shape(FALSE, FALSE, 1)
KeyAndSets == Shape(TRUE, TRUE, 1)
BigDelta   == Shape(FALSE, FALSE, 2)
Oversized  == Shape(FALSE, FALSE, 3)
SetsOnly   == Shape(FALSE, TRUE, 0)
Resized(x) == [x EXCEPT !.geo = 1]

\* One source: a keyframe or not, pictures of every sort, one that needs them.
OneStream ==
  {<<<<x, y, z>>, <<>>>> : x \in {Key, Delta}, y \in {KeyAndSets, BigDelta, Oversized, SetsOnly},
                           z \in {Key, Delta}}

\* A source restarts under another number, before or after its size changes.
Takeover ==
  {<<<<Key>>, x>> : x \in {<<Key, Delta>>, <<BigDelta, Key>>, <<KeyAndSets, Resized(Key)>>}}

\* Two sources side by side.
Bands == {<<<<Key, Delta>>, <<Delta, Delta>>>>, <<<<Key>>, <<Resized(Key), Delta>>>>}

AllPlans == OneStream \cup Takeover \cup Bands
=============================================================================
