----------------------------- MODULE MCLruList ------------------------------
(***************************************************************************)
(* Four frames and six accesses: every frame can be moved from every place *)
(* of the row, adjacent to the head and to the tail included, and moved    *)
(* again.                                                                  *)
(***************************************************************************)
EXTENDS LruList

(* The history is bounded, so the model stops when the bound is reached.   *)
=============================================================================
