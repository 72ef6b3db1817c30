----------------------------- MODULE MemoryPool -----------------------------
(***************************************************************************)
(* The memory pool of memory_pool.c: DAX devices cut into segments of      *)
(* SegmentSizeMb megabytes, each free or owned by one VM, and the counter  *)
(* used_segments that every allocation and release keeps by hand.          *)
(*                                                                         *)
(* The operations are actions on the pool's variables, named after the C   *)
(* functions, so that VmManager can call them.  Sizes and offsets cross    *)
(* the interface in megabytes and are converted as the code converts them. *)
(* PoolSpec drives them directly, as test/test_memory_pool.c does.         *)
(*                                                                         *)
(* Left out: dev_path and align_mb of a request (functions of the node),   *)
(* tier and DAX ids (only reported), the text of memory_pool_get_usage.    *)
(***************************************************************************)
EXTENDS Segments, FiniteSets

CONSTANTS NumDevs,        \* g_num_devs
          TotalSizeMb,    \* g_mem_devs[i].total_size_mb, from the config file
          SegmentSizeMb,  \* g_segment_size_mb, from the config file
          VmId,           \* the VM ids clients use
          MbArg           \* the sizes and offsets clients ask for, in MB

\* memory_pool_load_config rejects sizes and segment sizes that are not
\* positive.  Node ids are array indices: init_memory_resource assigns them.
Node == 0 .. (NumDevs - 1)

ASSUME NumDevsAssumption == NumDevs \in Nat
ASSUME TotalSizeAssumption == TotalSizeMb \in [Node -> Nat \ {0}]
ASSUME SegmentSizeAssumption == SegmentSizeMb \in Nat \ {0}
ASSUME VmIdAssumption == VmId \subseteq Nat
ASSUME MbArgAssumption == MbArg \subseteq Int

VARIABLES segments,      \* segments[n][k]: the owner of a segment, or NoVm
          used_segments  \* used_segments[n], the counter

poolVars == <<segments, used_segments>>

\* used_vm_id of a segment that is not allocated.
NoVm == -1

Total(n) == TotalSizeMb[n] \div SegmentSizeMb

Index(n) == 0 .. (Total(n) - 1)

\* init_memory_resource()
PoolInit ==
    /\ segments = [n \in Node |-> [k \in Index(n) |-> NoVm]]
    /\ used_segments = [n \in Node |-> 0]

-----------------------------------------------------------------------------
is_aligned(mb) == mb >= 0 /\ mb % SegmentSizeMb = 0

NumSegments(mb) == mb \div SegmentSizeMb

Allocated(n) == {k \in Index(n) : segments[n][k] # NoVm}

HeldBy(vm, n) == {k \in Index(n) : segments[n][k] = vm}

\* The search, by its result; SegmentSearch is the loop that computes it.
find_free_segments(n, num, start) ==
    FirstFreeWindow(Allocated(n), Total(n), num, start)

\* segments[n] after the segments of region change hands.
Reassigned(n, region, vm) ==
    [k \in Index(n) |-> IF k \in region THEN vm ELSE segments[n][k]]

(***************************************************************************)
(* Faulty forms of the operations below, each a slip the code could have;  *)
(* no part of PoolSpec.                                                    *)
(***************************************************************************)
\* Trusts the free-segment count instead of looking for a free window.
find_free_segments_by_count(n, num, start) ==
    /\ Total(n) - used_segments[n] >= num
    /\ start = used_segments[n]

\* Forgets used_segments--.
release_segments_uncounted(n, vm, start, count, released) ==
    /\ released \in 0 .. count
    /\ \A k \in Window(start, released) : k \in HeldBy(vm, n)
    /\ released < count => (start + released) \notin HeldBy(vm, n)
    /\ segments' = [segments EXCEPT
                        ![n] = Reassigned(n, Window(start, released), NoVm)]
    /\ UNCHANGED used_segments

\* Does not ask whose segment it is.
release_segments_of_anyone(n, vm, start, count, released) ==
    /\ released \in 0 .. count
    /\ \A k \in Window(start, released) : k \in Allocated(n)
    /\ released < count => (start + released) \notin Allocated(n)
    /\ segments' = [segments EXCEPT
                        ![n] = Reassigned(n, Window(start, released), NoVm)]
    /\ used_segments' = [used_segments EXCEPT ![n] = @ - released]

\* Returns the whole count although it stopped early.
release_segments_overcounts(n, vm, start, count, released) ==
    /\ released \in 0 .. count
    /\ \A k \in Window(start, released) : k \in HeldBy(vm, n)
    /\ released < count => (start + released) \notin HeldBy(vm, n)
    /\ segments' = [segments EXCEPT
                        ![n] = Reassigned(n, Window(start, released), NoVm)]
    /\ used_segments' = [used_segments EXCEPT ![n] = @ - count]

-----------------------------------------------------------------------------
(* memory_pool_allocate_segments() *)

\* allocate_segments(): start is the index it returns.
allocate_segments(n, num, vm, start) ==
    /\ find_free_segments(n, num, start)
    /\ segments' = [segments EXCEPT
                        ![n] = Reassigned(n, Window(start, num), vm)]
    /\ used_segments' = [used_segments EXCEPT ![n] = @ + num]

\* The calls that return -1.
AllocateFails(nid, size_mb) ==
    \/ ~is_aligned(size_mb)
    \/ nid \notin Node
    \/ NoFreeWindow(Allocated(nid), Total(nid), NumSegments(size_mb))

\* The calls that die on assert(num_segments > 0): is_aligned() accepts 0.
AllocateAsserts(nid, size_mb) == size_mb = 0 /\ nid \in Node

\* The calls that return 0; start * SegmentSizeMb is mem_req->offset_mb.
memory_pool_allocate_segments(nid, vm, size_mb, start) ==
    /\ is_aligned(size_mb)
    /\ nid \in Node
    /\ NumSegments(size_mb) > 0
    /\ allocate_segments(nid, NumSegments(size_mb), vm, start)

\* struct memory_request, as filled in by a successful call.
MemoryRequest(nid, start, num) ==
    [node_id   |-> nid,
     offset_mb |-> start * SegmentSizeMb,
     size_mb   |-> num * SegmentSizeMb]

(* memory_pool_release_segments() *)

(***************************************************************************)
(* release_segments() frees the segments one by one and gives up at the    *)
(* first one that vm does not own: released of the count segments are then *)
(* already free.                                                           *)
(***************************************************************************)
release_segments(n, vm, start, count, released) ==
    /\ released \in 0 .. count
    /\ \A k \in Window(start, released) : k \in HeldBy(vm, n)
    /\ released < count => (start + released) \notin HeldBy(vm, n)
    /\ segments' = [segments EXCEPT
                        ![n] = Reassigned(n, Window(start, released), NoVm)]
    /\ used_segments' = [used_segments EXCEPT ![n] = @ - released]

memory_pool_release_segments(nid, vm, offset_mb, size_mb, ret) ==
    IF ~is_aligned(size_mb) \/ ~is_aligned(offset_mb) \/ nid \notin Node
    THEN ret = -1 /\ UNCHANGED poolVars
    ELSE \E released \in 0 .. NumSegments(size_mb) :
            /\ release_segments(nid, vm, NumSegments(offset_mb),
                                NumSegments(size_mb), released)
            /\ ret = IF released = NumSegments(size_mb) THEN 0 ELSE -1

\* memory_pool_release_vm_memory(): every segment of a VM, on every device.
memory_pool_release_vm_memory(vm) ==
    /\ segments' = [n \in Node |-> Reassigned(n, HeldBy(vm, n), NoVm)]
    /\ used_segments' =
          [n \in Node |-> used_segments[n] - Cardinality(HeldBy(vm, n))]

-----------------------------------------------------------------------------
(* The pool driven directly *)

Allocate ==
    \E nid \in Node, vm \in VmId, size_mb \in MbArg :
        \E start \in Index(nid) :
            memory_pool_allocate_segments(nid, vm, size_mb, start)

Release ==
    \E nid \in Node, vm \in VmId, offset_mb, size_mb \in MbArg, ret \in {0, -1} :
        memory_pool_release_segments(nid, vm, offset_mb, size_mb, ret)

ReleaseVm == \E vm \in VmId : memory_pool_release_vm_memory(vm)

PoolNext == Allocate \/ Release \/ ReleaseVm

PoolSpec == PoolInit /\ [][PoolNext]_poolVars

-----------------------------------------------------------------------------
(* Properties *)

PoolTypeOK ==
    /\ DOMAIN segments = Node
    /\ \A n \in Node : segments[n] \in [Index(n) -> VmId \cup {NoVm}]
    /\ used_segments \in [Node -> Nat]

\* The hand-kept used_segments of every device is the number of its allocated
\* segments, after partial releases too: allocate_segments, release_segments
\* and memory_pool_release_vm_memory each adjust it their own way.
UsedSegmentsExact ==
    \A n \in Node : used_segments[n] = Cardinality(Allocated(n))

\* A call works on behalf of one VM: whatever it allocates or releases, it
\* leaves the segments of every other VM alone (used_vm_id is checked on
\* release, allocated on allocation).
OneVmPerCall ==
    [][\A vm, other \in VmId :
          (\E n \in Node : HeldBy(vm, n)' # HeldBy(vm, n)) /\ other # vm
              => \A n \in Node : HeldBy(other, n)' = HeldBy(other, n)]_poolVars
=============================================================================
