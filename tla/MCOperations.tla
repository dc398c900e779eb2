------------------------------ MODULE MCOperations ------------------------------
(* Operations for TLC: prints of four samples, eight touches and galleries of up  *)
(* to three prints; two scores that match, so that there are ties, and one that   *)
(* does not.                                                                      *)
EXTENDS Operations

MCScores  == {-1, 1, 2}
MCReports == {"transfer", "protocol", "image"}
=============================================================================
