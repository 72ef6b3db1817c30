--------------------------- MODULE SegmentSearch ---------------------------
(***************************************************************************)
(* find_free_segments() of memory_pool.c, one action per test of its two   *)
(* loops.                                                                  *)
(*                                                                         *)
(* The outer loop does not advance by one.  When the inner loop stops at   *)
(* an allocated segment i + j, the search goes on at i + j + 1, past it.   *)
(* The module states what that shortcut must not lose: the lowest free     *)
(* window, and the answer -1 only when there is none.                      *)
(***************************************************************************)
EXTENDS Segments

CONSTANTS MaxSegments,  \* MAX_SEGMENTS, the length of the segments array
          MaxRequest    \* largest num_segments asked for

ASSUME MaxSegmentsAssumption == MaxSegments \in Nat \ {0}
ASSUME MaxRequestAssumption == MaxRequest \in Nat \ {0}

VARIABLES total_segments,  \* mem_dev->total_segments
          allocated,       \* the indices whose segment is allocated
          num_segments,    \* the argument
          i, j,            \* the loop variables
          pc,              \* which test comes next, "done" after return
          result           \* the returned value

device == <<total_segments, allocated, num_segments>>
vars == <<total_segments, allocated, num_segments, i, j, pc, result>>

NotFound == -1

\* Any device and any request of at least one segment: allocate_segments()
\* asserts num_segments > 0 before it calls the search.
Init ==
    /\ total_segments \in 0 .. MaxSegments
    /\ allocated \in SUBSET (0 .. (total_segments - 1))
    /\ num_segments \in 1 .. MaxRequest
    /\ i = 0
    /\ j = 0
    /\ pc = "while"
    /\ result = NotFound

(* Slips a programmer could make in the loop; each is the faulty form of   *)
(* the action whose name it begins with, and no part of Spec.              *)

\* Lets a window start anywhere on the device, however near its end.
EnterWhileIgnoresSize ==
    /\ pc = "while"
    /\ i < total_segments
    /\ j' = 0
    /\ pc' = "for"
    /\ UNCHANGED <<device, i, result>>

\* Forgets the bound of the inner loop.
ForFreeUnbounded ==
    /\ pc = "for"
    /\ i + j \notin allocated
    /\ j' = j + 1
    /\ UNCHANGED <<device, i, pc, result>>

\* Goes on behind the whole requested window, not behind the blocker.
ForAllocatedSkipsWindow ==
    /\ pc = "for"
    /\ j < num_segments
    /\ i + j \in allocated
    /\ i' = i + num_segments
    /\ pc' = "while"
    /\ UNCHANGED <<device, j, result>>

\* Goes on at the blocker itself.
ForAllocatedStays ==
    /\ pc = "for"
    /\ j < num_segments
    /\ i + j \in allocated
    /\ i' = i + j
    /\ pc' = "while"
    /\ UNCHANGED <<device, j, result>>

-----------------------------------------------------------------------------
\* while (i <= total_segments - num_segments) { int j = 0;
EnterWhile ==
    /\ pc = "while"
    /\ i <= total_segments - num_segments
    /\ j' = 0
    /\ pc' = "for"
    /\ UNCHANGED <<device, i, result>>

\* The loop runs out of positions: return -1.
LeaveWhile ==
    /\ pc = "while"
    /\ i > total_segments - num_segments
    /\ result' = NotFound
    /\ pc' = "done"
    /\ UNCHANGED <<device, i, j>>

\* for (; j < num_segments; j++) over a free segment.
ForFree ==
    /\ pc = "for"
    /\ j < num_segments
    /\ i + j \notin allocated
    /\ j' = j + 1
    /\ UNCHANGED <<device, i, pc, result>>

\* break at an allocated segment; i = i + j + 1.
ForAllocated ==
    /\ pc = "for"
    /\ j < num_segments
    /\ i + j \in allocated
    /\ i' = i + j + 1
    /\ pc' = "while"
    /\ UNCHANGED <<device, j, result>>

\* j == num_segments: return i.
ReturnFound ==
    /\ pc = "for"
    /\ j = num_segments
    /\ result' = i
    /\ pc' = "done"
    /\ UNCHANGED <<device, i, j>>

Next == EnterWhile \/ LeaveWhile \/ ForFree \/ ForAllocated \/ ReturnFound

Spec == Init /\ [][Next]_vars

\* The loop is straight-line code of one thread: it keeps running.
FairSpec == Spec /\ WF_vars(Next)

-----------------------------------------------------------------------------
(* Properties *)

TypeOK ==
    /\ total_segments \in 0 .. MaxSegments
    /\ allocated \in SUBSET (0 .. (total_segments - 1))
    /\ num_segments \in 1 .. MaxRequest
    /\ i \in Nat
    /\ j \in 0 .. num_segments
    /\ pc \in {"while", "for", "done"}
    /\ result \in Int

\* Every segments[i + j] the inner loop of find_free_segments reads is a
\* segment of the device, whatever i the shortcut jumped to.
ReadsInBounds ==
    pc = "for" /\ j < num_segments => i + j \in 0 .. (total_segments - 1)

\* find_free_segments returns the lowest free window, and -1 only if there is
\* none: jumping past an allocated segment (i = i + j + 1) skips no window.
FindsFirstFit ==
    pc = "done" =>
        \/ FirstFreeWindow(allocated, total_segments, num_segments, result)
        \/ /\ result = NotFound
           /\ NoFreeWindow(allocated, total_segments, num_segments)

\* The two nested loops of find_free_segments return on every device.
Terminates == <>(pc = "done")

(***************************************************************************)
(* The loop invariant: no free window starts below i, and the inner loop   *)
(* has seen j free segments from i on.                                     *)
(***************************************************************************)
NoWindowBefore(n) ==
    \A k \in 0 .. (n - 1) :
        ~FreeWindow(allocated, total_segments, num_segments, k)

LoopInv ==
    /\ pc \in {"while", "for"} => NoWindowBefore(i)
    /\ pc = "for" => /\ i <= total_segments - num_segments
                     /\ Window(i, j) \cap allocated = {}
    /\ FindsFirstFit
=============================================================================
