------------------------------ MODULE Segments ------------------------------
(***************************************************************************)
(* Windows of consecutive segments of one DAX device, the vocabulary that  *)
(* the search loop (SegmentSearch) and the pool (MemoryPool) share.        *)
(*                                                                         *)
(* A device is seen through the set of its allocated segment indices.      *)
(***************************************************************************)
EXTENDS Integers

\* The num indices from start on.
Window(start, num) == start .. (start + num - 1)

\* A window of num free segments of a device with total segments.
FreeWindow(allocated, total, num, start) ==
    /\ start \in 0 .. (total - num)
    /\ Window(start, num) \cap allocated = {}

(***************************************************************************)
(* What find_free_segments() promises when it returns start >= 0: the      *)
(* lowest free window.                                                     *)
(***************************************************************************)
FirstFreeWindow(allocated, total, num, start) ==
    /\ FreeWindow(allocated, total, num, start)
    /\ \A k \in 0 .. (start - 1) : ~FreeWindow(allocated, total, num, k)

\* There is no free window: find_free_segments() must return -1.
NoFreeWindow(allocated, total, num) ==
    \A k \in 0 .. (total - num) : ~FreeWindow(allocated, total, num, k)
=============================================================================
