----------------------------- MODULE TouchContract -----------------------------
(***************************************************************************)
(* What one touch of the sensor promises to the operation that asked for   *)
(* it, with no word about USB: touches follow one another, each ends in    *)
(* exactly one report, and a touch that is reported as delivered hands     *)
(* over a frame exposed during that very touch.                            *)
(***************************************************************************)
EXTENDS Naturals

CONSTANT Reports           \* the ways a touch can fail

VARIABLES active,          \* a touch is under way
          number,          \* touches begun so far
          report,          \* how the latest touch ended; "none" while it has not
          origin           \* touch during which the delivered frame was exposed

vars == <<active, number, report, origin>>

Init == active = FALSE /\ number = 0 /\ report = "none" /\ origin = 0

Begin ==
  /\ ~active
  /\ active' = TRUE
  /\ number' = number + 1
  /\ report' = "none"
  /\ origin' = 0

Yield ==
  /\ active
  /\ active' = FALSE
  /\ report' = "delivered"
  /\ origin' = number
  /\ UNCHANGED number

Abort ==
  /\ active
  /\ active' = FALSE
  /\ report' \in Reports
  /\ origin' = 0
  /\ UNCHANGED number

Next == Begin \/ Yield \/ Abort

Spec == Init /\ [][Next]_vars

\* A touch that has begun ends.
FairSpec == Spec /\ WF_vars(Yield \/ Abort)
=============================================================================
