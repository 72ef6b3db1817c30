--------------------------- MODULE MCSegmentSearch ---------------------------
(***************************************************************************)
(* Every device of up to MaxSegments segments, with every set of them      *)
(* allocated, and every request of up to MaxRequest segments.              *)
(***************************************************************************)
EXTENDS SegmentSearch
=============================================================================
