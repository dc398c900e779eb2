------------------------------ MODULE MCGallery ------------------------------
(* GalleryScan for TLC: a full gallery, one with room left, and one whose   *)
(* samples carry modes of their own; the limits on rejects are scaled down. *)
EXTENDS GalleryScan

S(c, e) == [canonical_member |-> c, embedded |-> e]

MCTemplates ==
  {[samples |-> <<S(TRUE, 0), S(FALSE, 0), S(TRUE, 0), S(TRUE, 0)>>, configured_max_samples |-> 4],
   [samples |-> <<S(TRUE, 0), S(TRUE, 4), S(FALSE, 2)>>, configured_max_samples |-> 4],
   [samples |-> <<S(FALSE, 1), S(TRUE, 5), S(TRUE, 0)>>, configured_max_samples |-> 3]}
==============================================================================
