------------------------ MODULE SegmentSearchProofs ------------------------
(***************************************************************************)
(* find_free_segments() is a correct first-fit search on every device and  *)
(* for every request, and never reads outside the device.                  *)
(***************************************************************************)
EXTENDS SegmentSearch, TLAPS

\* The inductive invariant: types and the loop invariant.
Inv == TypeOK /\ LoopInv

\* The inner loop's reads stay inside the device because a window that fits
\* below total_segments is being examined.
LEMMA InvReadsInBounds == Inv => ReadsInBounds
  BY DEF Inv, TypeOK, LoopInv, ReadsInBounds

\* The scan starts at the first segment.
LEMMA InitInv == Init => Inv
  BY MaxSegmentsAssumption, MaxRequestAssumption
  DEF Init, Inv, TypeOK, LoopInv, FindsFirstFit, NoWindowBefore, NotFound

\* Every round of the scan keeps the invariant.
LEMMA NextInv == Inv /\ [Next]_vars => Inv'
  <1> SUFFICES ASSUME Inv, [Next]_vars
               PROVE  Inv'
    OBVIOUS
  <1> USE MaxSegmentsAssumption, MaxRequestAssumption
  <1>1. CASE EnterWhile
    BY <1>1 DEF EnterWhile, device, Inv, TypeOK, LoopInv, FindsFirstFit,
                NoWindowBefore, Window
  <1>2. CASE LeaveWhile
    <2>1. NoFreeWindow(allocated, total_segments, num_segments)
      BY <1>2 DEF LeaveWhile, Inv, TypeOK, LoopInv, NoWindowBefore, NoFreeWindow
    <2> QED
      BY <1>2, <2>1
      DEF LeaveWhile, device, Inv, TypeOK, LoopInv, FindsFirstFit, NotFound
  <1>3. CASE ForFree
    <2>1. Window(i, j + 1) \cap allocated = {}
      <3>1. Window(i, j + 1) = Window(i, j) \cup {i + j}
        BY <1>3 DEF ForFree, Inv, TypeOK, Window
      <3> QED
        BY <1>3, <3>1 DEF ForFree, Inv, LoopInv
    <2> QED
      BY <1>3, <2>1 DEF ForFree, device, Inv, TypeOK, LoopInv, FindsFirstFit,
                        NoWindowBefore
  <1>4. CASE ForAllocated
    <2>1. NoWindowBefore(i + j + 1)
      <3> SUFFICES ASSUME NEW k \in 0 .. (i + j)
                   PROVE  ~FreeWindow(allocated, total_segments, num_segments, k)
        BY DEF NoWindowBefore, Inv, TypeOK
      <3>1. CASE k < i
        BY <1>4, <3>1 DEF ForAllocated, Inv, TypeOK, LoopInv, NoWindowBefore
      <3>2. CASE k >= i
        \* The window from k on would contain the allocated segment i + j.
        <4>1. i + j \in Window(k, num_segments)
          BY <1>4, <3>2 DEF ForAllocated, Inv, TypeOK, Window
        <4> QED
          BY <1>4, <4>1 DEF ForAllocated, FreeWindow
      <3> QED
        BY <3>1, <3>2 DEF Inv, TypeOK
    <2> QED
      BY <1>4, <2>1 DEF ForAllocated, device, Inv, TypeOK, LoopInv,
                        FindsFirstFit, NoWindowBefore
  <1>5. CASE ReturnFound
    <2>1. FirstFreeWindow(allocated, total_segments, num_segments, i)
      BY <1>5 DEF ReturnFound, Inv, TypeOK, LoopInv, NoWindowBefore,
                  FirstFreeWindow, FreeWindow
    <2> QED
      BY <1>5, <2>1 DEF ReturnFound, device, Inv, TypeOK, LoopInv, FindsFirstFit
  <1>6. CASE UNCHANGED vars
    BY <1>6 DEF vars, Inv, TypeOK, LoopInv, FindsFirstFit, NoWindowBefore
  <1> QED
    BY <1>1, <1>2, <1>3, <1>4, <1>5, <1>6 DEF Next

\* find_free_segments returns the lowest window of num_segments free segments
\* of the device, or -1 when there is none, for every device and request.
THEOREM FirstFitCorrect == Spec => []FindsFirstFit
  <1>1. Inv => FindsFirstFit
    BY DEF Inv, LoopInv
  <1> QED
    BY InitInv, NextInv, <1>1, PTL DEF Spec

\* find_free_segments reads only segments[0 .. total_segments - 1].
THEOREM SearchInBounds == Spec => []ReadsInBounds
  BY InitInv, NextInv, InvReadsInBounds, PTL DEF Spec

\* The loop variables keep their ranges: j stays within the window and the
\* segments examined belong to a device of at most MaxSegments.
THEOREM SearchTypes == Spec => []TypeOK
  <1>1. Inv => TypeOK
    BY DEF Inv
  <1> QED
    BY InitInv, NextInv, <1>1, PTL DEF Spec
=============================================================================
