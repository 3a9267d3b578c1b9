----------------------------- MODULE MCDisplay -----------------------------
(* A picture of two parts, with the overlay on the corner. Programs clear it,
   fill the corner, or draw a bitmap on the rest; the PPA takes the bitmap
   until it fails. *)
EXTENDS Display

CONSTANTS rest, corner, red

MCRegion == {rest, corner}
MCColour == {red, Term}
MCFills == [area : {MCRegion, {corner}}, colour : {red}]
MCBlits == [area : {{rest}}, eligible : {TRUE}]

(* Once an open has met a presentation the pictures are given up: the run
   follows the two to the end of their meeting. It follows a frame that an early
   refresh has hit to its fence: the next refresh leads back to what is reached
   without it. *)
CoincidencesEnd ==
  /\ met => pc["app"] \in {"begin", "lock"} \/ holder = "term"
  /\ early => pending \/ \E a \in Actor : pc[a] = "choose"
=============================================================================
