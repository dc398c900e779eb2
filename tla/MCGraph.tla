-------------------------------- MODULE MCGraph --------------------------------
(* EnrollmentGraph for TLC: five samples.  A transform is a rigid motion on a     *)
(* ring of three places, a turn (1 or -1) and a shift; turns and shifts do not    *)
(* commute.  A registration either scores well both ways or only from the lower   *)
(* sample to the higher one, and the one that scores well has fewer inliers.      *)
EXTENDS EnrollmentGraph

MCTransforms == [turn : {1, -1}, shift : 0..2]
MCIdentity   == [turn |-> 1, shift |-> 0]
MCCompose(s, t) == [turn |-> s.turn * t.turn, shift |-> (s.shift + s.turn * t.shift) % 3]
MCInvert(t)     == [turn |-> t.turn, shift |-> (-t.turn * t.shift) % 3]

Good   == [inliers |-> 7, transform |-> [turn |-> 1, shift |-> 1], score |-> 209, back |-> 210]
OneWay == [inliers |-> 9, transform |-> [turn |-> -1, shift |-> 1], score |-> 205, back |-> 206]
MCMeasures == {Good, OneWay}
=============================================================================
