------------------------------- MODULE MCForest -------------------------------
(* TemplateForest for TLC: a template may be written after any sample.  The      *)
(* transforms and registrations are those MCGraph explains.                      *)
EXTENDS TemplateForest

MCTransforms == [turn : {1, -1}, shift : 0..2]
MCIdentity   == [turn |-> 1, shift |-> 0]
MCCompose(s, t) == [turn |-> s.turn * t.turn, shift |-> (s.shift + s.turn * t.shift) % 3]
MCInvert(t)     == [turn |-> t.turn, shift |-> (-t.turn * t.shift) % 3]

Good   == [inliers |-> 7, transform |-> [turn |-> 1, shift |-> 1], score |-> 209, back |-> 210]
OneWay == [inliers |-> 9, transform |-> [turn |-> -1, shift |-> 1], score |-> 205, back |-> 206]
MCMeasures == {Good, OneWay}
=============================================================================
