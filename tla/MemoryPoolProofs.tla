-------------------------- MODULE MemoryPoolProofs --------------------------
(***************************************************************************)
(* The counter used_segments of every device is exact, whatever calls the  *)
(* pool gets: for any devices, segment size, VMs and arguments.            *)
(*                                                                         *)
(* Each operation has a lemma of its own about PoolInv.  The lemmas assume *)
(* the action, not PoolNext, so that a module whose actions call the pool  *)
(* can cite them.                                                          *)
(***************************************************************************)
EXTENDS MemoryPool, FiniteSetTheorems, TLAPS

\* The counter is natural because it is a cardinality, so the type invariant
\* and the exactness of the counter are proved together.
PoolInv == PoolTypeOK /\ UsedSegmentsExact

-----------------------------------------------------------------------------
(* Megabytes and segments *)

\* The number of segments of a device, as init_memory_resource computes it.
LEMMA TotalNat == ASSUME NEW n \in Node PROVE Total(n) \in Nat
  BY TotalSizeAssumption, SegmentSizeAssumption DEF Total

\* Megabytes as a number of segments.
LEMMA NumSegmentsNat ==
    ASSUME NEW mb \in Int, is_aligned(mb)
    PROVE  NumSegments(mb) \in Nat
  BY SegmentSizeAssumption DEF NumSegments, is_aligned

\* What a request records in megabytes is read back as the same segments.
LEMMA SegmentsOfMb ==
    ASSUME NEW k \in Nat
    PROVE  /\ k * SegmentSizeMb \in Nat
           /\ is_aligned(k * SegmentSizeMb)
           /\ NumSegments(k * SegmentSizeMb) = k
  BY SegmentSizeAssumption DEF is_aligned, NumSegments

-----------------------------------------------------------------------------
(* Sets of segments *)

\* Segments of a device can be counted.
LEMMA SegmentsFinite ==
    ASSUME NEW n \in Node, NEW S \in SUBSET Index(n)
    PROVE  IsFiniteSet(S) /\ Cardinality(S) \in Nat
  <1>1. IsFiniteSet(Index(n))
    BY TotalNat, FS_Interval DEF Index
  <1> QED
    BY <1>1, FS_Subset, FS_CardinalityType

\* A run of num segments has num of them.
LEMMA WindowCardinality ==
    ASSUME NEW start \in Int, NEW num \in Nat
    PROVE  IsFiniteSet(Window(start, num)) /\ Cardinality(Window(start, num)) = num
  BY FS_Interval DEF Window

\* Changing the owner of segments leaves a map of owners.
LEMMA ReassignedType ==
    ASSUME NEW n \in Node, NEW region, NEW vm \in VmId \cup {NoVm},
           segments[n] \in [Index(n) -> VmId \cup {NoVm}]
    PROVE  Reassigned(n, region, vm) \in [Index(n) -> VmId \cup {NoVm}]
  <1>1. \A k \in Index(n) :
           (IF k \in region THEN vm ELSE segments[n][k]) \in VmId \cup {NoVm}
    OBVIOUS
  <1> QED
    BY <1>1 DEF Reassigned

\* Handing region of device n to vm (to nobody: NoVm) keeps the invariant if
\* the counter is set to the number of segments then allocated.
LEMMA ReassignInv ==
    ASSUME PoolTypeOK, UsedSegmentsExact,
           NEW n \in Node, NEW region \in SUBSET Index(n),
           NEW vm \in VmId \cup {NoVm}, NEW u,
           segments' = [segments EXCEPT ![n] = Reassigned(n, region, vm)],
           used_segments' = [used_segments EXCEPT ![n] = u],
           u = Cardinality(IF vm = NoVm THEN Allocated(n) \ region
                                        ELSE Allocated(n) \cup region)
    PROVE  PoolInv'
  <1>1. \A m \in Node : segments'[m] = IF m = n THEN Reassigned(n, region, vm)
                                                ELSE segments[m]
    BY DEF PoolTypeOK
  <1>2. \A m \in Node : segments'[m] \in [Index(m) -> VmId \cup {NoVm}]
    BY <1>1, ReassignedType DEF PoolTypeOK
  <1>3. Allocated(n)' = IF vm = NoVm THEN Allocated(n) \ region
                                     ELSE Allocated(n) \cup region
    <2>0. \A k \in Index(n) :
             segments'[n][k] = IF k \in region THEN vm ELSE segments[n][k]
      <3>1. segments'[n] = Reassigned(n, region, vm)
        BY <1>1
      <3> QED
        BY <3>1 DEF Reassigned
    <2>1. Allocated(n)' = {k \in Index(n) :
                             (IF k \in region THEN vm ELSE segments[n][k]) # NoVm}
      <3>1. Allocated(n)' = {k \in Index(n) : segments'[n][k] # NoVm}
        BY DEF Allocated
      <3> QED
        BY <2>0, <3>1
    <2>2. CASE vm = NoVm
      BY <2>1, <2>2 DEF Allocated
    <2>3. CASE vm # NoVm
      BY <2>1, <2>3 DEF Allocated
    <2> QED
      BY <2>2, <2>3
  <1>4. \A m \in Node \ {n} : Allocated(m)' = Allocated(m)
    BY <1>1 DEF Allocated
  <1>5. \A m \in Node : used_segments'[m] = Cardinality(Allocated(m)')
    BY <1>3, <1>4 DEF PoolTypeOK, UsedSegmentsExact
  <1>6. \A m \in Node : Cardinality(Allocated(m)') \in Nat
    BY SegmentsFinite DEF Allocated
  <1>7. used_segments' \in [Node -> Nat]
    BY <1>5, <1>6 DEF PoolTypeOK
  <1>8. DOMAIN segments' = Node
    BY DEF PoolTypeOK
  <1> QED
    BY <1>2, <1>5, <1>7, <1>8 DEF PoolInv, PoolTypeOK, UsedSegmentsExact

-----------------------------------------------------------------------------
(* One lemma per operation *)

\* init_memory_resource starts with every segment free and none counted.
LEMMA PoolInitInv == PoolInit => PoolInv
  <1> SUFFICES ASSUME PoolInit PROVE PoolInv
    OBVIOUS
  <1>1. \A n \in Node : Allocated(n) = {}
    BY DEF PoolInit, Allocated
  <1> QED
    BY <1>1, FS_EmptySet DEF PoolInit, PoolInv, PoolTypeOK, UsedSegmentsExact

\* allocate_segments adds num to the counter and takes num free segments.
LEMMA AllocateInv ==
    ASSUME PoolTypeOK, UsedSegmentsExact,
           NEW nid, NEW vm \in VmId, NEW size_mb \in Int, NEW start,
           memory_pool_allocate_segments(nid, vm, size_mb, start)
    PROVE  PoolInv'
  <1> DEFINE num == NumSegments(size_mb)
             W == Window(start, num)
  <1>1. nid \in Node /\ is_aligned(size_mb) /\ allocate_segments(nid, num, vm, start)
    BY DEF memory_pool_allocate_segments
  <1>2. num \in Nat
    BY <1>1, NumSegmentsNat
  <1>3. start \in 0 .. (Total(nid) - num) /\ W \cap Allocated(nid) = {}
    BY <1>1 DEF allocate_segments, find_free_segments, FirstFreeWindow, FreeWindow
  <1>4. W \in SUBSET Index(nid)
    BY <1>1, <1>2, <1>3, TotalNat DEF Window, Index
  <1>5. IsFiniteSet(W) /\ Cardinality(W) = num
    BY <1>2, <1>3, WindowCardinality
  <1>6. IsFiniteSet(Allocated(nid)) /\ Cardinality(Allocated(nid)) \in Nat
    BY <1>1, SegmentsFinite DEF Allocated
  <1>7. Cardinality(Allocated(nid) \cup W) = Cardinality(Allocated(nid)) + num
    <2>1. Cardinality(Allocated(nid) \cap W) = 0
      <3>1. Allocated(nid) \cap W = {}
        BY <1>3
      <3> QED
        BY <3>1, FS_EmptySet
    <2> HIDE DEF num, W
    <2>2. Cardinality(Allocated(nid) \cup W) =
             Cardinality(Allocated(nid)) + Cardinality(W)
                - Cardinality(Allocated(nid) \cap W)
      BY <1>5, <1>6, FS_Union
    <2> QED
      BY <1>2, <1>5, <1>6, <2>1, <2>2
  <1>8. vm # NoVm
    BY VmIdAssumption DEF NoVm
  <1>9. /\ segments' = [segments EXCEPT ![nid] = Reassigned(nid, W, vm)]
        /\ used_segments' = [used_segments EXCEPT ![nid] = used_segments[nid] + num]
    BY <1>1 DEF allocate_segments
  <1>10. used_segments[nid] + num = Cardinality(Allocated(nid) \cup W)
    BY <1>1, <1>7 DEF UsedSegmentsExact
  <1> HIDE DEF num, W
  <1> QED
    BY <1>1, <1>4, <1>8, <1>9, <1>10, ReassignInv

\* release_segments frees a window of allocated segments, all of it or a part,
\* and subtracts what it freed.
LEMMA ReleaseSegmentsInv ==
    ASSUME PoolTypeOK, UsedSegmentsExact,
           NEW n \in Node, NEW vm \in Nat, NEW start \in Int, NEW cnt \in Nat,
           NEW released \in 0 .. cnt,
           release_segments(n, vm, start, cnt, released)
    PROVE  PoolInv'
  <1> DEFINE W == Window(start, released)
  <1>1. W \in SUBSET Allocated(n)
    BY DEF release_segments, HeldBy, Allocated, NoVm
  <1>2. W \in SUBSET Index(n)
    BY <1>1 DEF Allocated
  <1>3. IsFiniteSet(Allocated(n)) /\ Cardinality(Allocated(n)) \in Nat
    BY SegmentsFinite DEF Allocated
  <1>4. Cardinality(W) = released
    BY WindowCardinality
  <1>5. Cardinality(Allocated(n) \ W) = Cardinality(Allocated(n)) - released
    <2>1. Allocated(n) \cap W = W
      BY <1>1
    <2> HIDE DEF W
    <2>2. Cardinality(Allocated(n) \ W) =
             Cardinality(Allocated(n)) - Cardinality(Allocated(n) \cap W)
      BY <1>3, FS_Difference
    <2> QED
      BY <1>4, <2>1, <2>2
  <1>6. used_segments[n] - released = Cardinality(Allocated(n) \ W)
    BY <1>5 DEF UsedSegmentsExact
  <1>7. /\ segments' = [segments EXCEPT ![n] = Reassigned(n, W, NoVm)]
        /\ used_segments' = [used_segments EXCEPT ![n] = used_segments[n] - released]
    BY DEF release_segments
  <1> HIDE DEF W
  <1> QED
    BY <1>2, <1>6, <1>7, ReassignInv

\* memory_pool_release_segments counts down by what it freed, all or a part.
LEMMA ReleaseInv ==
    ASSUME PoolTypeOK, UsedSegmentsExact,
           NEW nid, NEW vm \in Nat, NEW offset_mb \in Int, NEW size_mb \in Int,
           NEW ret,
           memory_pool_release_segments(nid, vm, offset_mb, size_mb, ret)
    PROVE  PoolInv'
  <1>1. CASE ~is_aligned(size_mb) \/ ~is_aligned(offset_mb) \/ nid \notin Node
    <2>1. UNCHANGED poolVars
      BY <1>1 DEF memory_pool_release_segments
    <2> QED
      BY <2>1 DEF poolVars, PoolInv, PoolTypeOK, UsedSegmentsExact, Allocated
  <1>2. CASE is_aligned(size_mb) /\ is_aligned(offset_mb) /\ nid \in Node
    <2>1. PICK released \in 0 .. NumSegments(size_mb) :
             release_segments(nid, vm, NumSegments(offset_mb),
                              NumSegments(size_mb), released)
      BY <1>2 DEF memory_pool_release_segments
    <2>2. NumSegments(size_mb) \in Nat /\ NumSegments(offset_mb) \in Nat
      BY <1>2, NumSegmentsNat
    <2> QED
      BY <1>2, <2>1, <2>2, ReleaseSegmentsInv
  <1> QED
    BY <1>1, <1>2

\* memory_pool_release_vm_memory subtracts on each device what the VM held.
LEMMA ReleaseVmInv ==
    ASSUME PoolTypeOK, UsedSegmentsExact, NEW vm \in Nat,
           memory_pool_release_vm_memory(vm)
    PROVE  PoolInv'
  <1>1. \A n \in Node : segments'[n] = Reassigned(n, HeldBy(vm, n), NoVm)
    BY DEF memory_pool_release_vm_memory
  <1>2. DOMAIN segments' = Node
    BY DEF memory_pool_release_vm_memory
  <1>3. \A n \in Node : segments'[n] \in [Index(n) -> VmId \cup {NoVm}]
    BY <1>1, ReassignedType DEF PoolTypeOK
  <1>4. ASSUME NEW n \in Node
        PROVE  used_segments'[n] = Cardinality(Allocated(n)')
    <2>1. Allocated(n)' = Allocated(n) \ HeldBy(vm, n)
      BY <1>1 DEF Allocated, HeldBy, Reassigned
    <2>2. Allocated(n) \cap HeldBy(vm, n) = HeldBy(vm, n)
      BY DEF Allocated, HeldBy, NoVm
    <2>3. IsFiniteSet(Allocated(n))
      BY SegmentsFinite DEF Allocated
    <2>4. Cardinality(Allocated(n)') = Cardinality(Allocated(n)) - Cardinality(HeldBy(vm, n))
      BY <2>1, <2>2, <2>3, FS_Difference
    <2> QED
      BY <2>4 DEF memory_pool_release_vm_memory, UsedSegmentsExact
  <1>5. \A n \in Node : Cardinality(Allocated(n)') \in Nat
    BY SegmentsFinite DEF Allocated
  <1>6. used_segments' \in [Node -> Nat]
    BY <1>4, <1>5 DEF memory_pool_release_vm_memory
  <1> QED
    BY <1>2, <1>3, <1>4, <1>6 DEF PoolInv, PoolTypeOK, UsedSegmentsExact

-----------------------------------------------------------------------------
\* Every call of the pool keeps its counters exact.
LEMMA PoolNextInv == PoolInv /\ [PoolNext]_poolVars => PoolInv'
  <1> SUFFICES ASSUME PoolTypeOK, UsedSegmentsExact, [PoolNext]_poolVars
               PROVE  PoolInv'
    BY DEF PoolInv
  <1>1. CASE Allocate
    <2>1. PICK nid \in Node, vm \in VmId, size_mb \in MbArg :
             \E start \in Index(nid) :
                memory_pool_allocate_segments(nid, vm, size_mb, start)
      BY <1>1 DEF Allocate
    <2> QED
      BY <2>1, AllocateInv, MbArgAssumption
  <1>2. CASE Release
    <2>1. PICK nid \in Node, vm \in VmId, offset_mb \in MbArg,
               size_mb \in MbArg, ret \in {0, -1} :
             memory_pool_release_segments(nid, vm, offset_mb, size_mb, ret)
      BY <1>2 DEF Release
    <2> QED
      BY <2>1, ReleaseInv, MbArgAssumption, VmIdAssumption
  <1>3. CASE ReleaseVm
    BY <1>3, ReleaseVmInv, VmIdAssumption DEF ReleaseVm
  <1>4. CASE UNCHANGED poolVars
    BY <1>4 DEF poolVars, PoolInv, PoolTypeOK, UsedSegmentsExact, Allocated
  <1> QED
    BY <1>1, <1>2, <1>3, <1>4 DEF PoolNext

\* The pool's variables keep their types, whatever it is called with.
THEOREM PoolTypes == PoolSpec => []PoolTypeOK
  <1>1. PoolInv => PoolTypeOK
    BY DEF PoolInv
  <1> QED
    BY PoolInitInv, PoolNextInv, <1>1, PTL DEF PoolSpec

\* used_segments counts the allocated segments of its device at all times.
THEOREM UsedSegmentsAlwaysExact == PoolSpec => []UsedSegmentsExact
  <1>1. PoolInv => UsedSegmentsExact
    BY DEF PoolInv
  <1> QED
    BY PoolInitInv, PoolNextInv, <1>1, PTL DEF PoolSpec

-----------------------------------------------------------------------------
(* Whose segments a call touches *)

\* Every call of the pool has a VM for which it works, and no segment of
\* another VM changes hands.
LEMMA CallForOne ==
    ASSUME PoolTypeOK, PoolNext
    PROVE  \E vm \in VmId : \A other \in VmId \ {vm} : \A n \in Node :
              HeldBy(other, n)' = HeldBy(other, n)
  <1>1. CASE Allocate
    <2>0. PICK nid \in Node, vm \in VmId, size_mb \in MbArg :
             \E start \in Index(nid) :
                memory_pool_allocate_segments(nid, vm, size_mb, start)
      BY <1>1 DEF Allocate
    <2>1. PICK start \in Index(nid) :
             memory_pool_allocate_segments(nid, vm, size_mb, start)
      BY <2>0
    <2> DEFINE W == Window(start, NumSegments(size_mb))
    <2>2. NumSegments(size_mb) \in Nat
      BY <2>1, NumSegmentsNat, MbArgAssumption DEF memory_pool_allocate_segments
    <2>3. /\ start \in 0 .. (Total(nid) - NumSegments(size_mb))
          /\ W \cap Allocated(nid) = {}
          /\ segments' = [segments EXCEPT ![nid] = Reassigned(nid, W, vm)]
      BY <2>1 DEF memory_pool_allocate_segments, allocate_segments,
                  find_free_segments, FirstFreeWindow, FreeWindow
    <2>4. W \in SUBSET Index(nid)
      BY <2>2, <2>3, TotalNat DEF Window, Index
    <2>5. \A k \in W : segments[nid][k] = vm \/ segments[nid][k] = NoVm
      BY <2>3, <2>4 DEF Allocated
    <2>6. \A m \in Node : \A k \in Index(m) :
             segments'[m][k] = IF m = nid /\ k \in W THEN vm ELSE segments[m][k]
      BY <2>3 DEF PoolTypeOK, Reassigned
    <2> HIDE DEF W
    <2>7. \A other \in VmId : other # NoVm
      BY VmIdAssumption DEF NoVm
    <2>8. ASSUME NEW other \in VmId, other # vm, NEW m \in Node, NEW k \in Index(m)
          PROVE  segments'[m][k] = other <=> segments[m][k] = other
      BY <2>5, <2>6, <2>7, <2>8
    <2> QED
      BY <2>8 DEF HeldBy
  <1>2. CASE Release
    <2>1. PICK nid \in Node, vm \in VmId, offset_mb \in MbArg,
               size_mb \in MbArg, ret \in {0, -1} :
             memory_pool_release_segments(nid, vm, offset_mb, size_mb, ret)
      BY <1>2 DEF Release
    <2>2. CASE UNCHANGED poolVars
      BY <2>2 DEF poolVars, HeldBy
    <2>3. CASE ~UNCHANGED poolVars
      <3>1. PICK released \in 0 .. NumSegments(size_mb) :
               release_segments(nid, vm, NumSegments(offset_mb),
                                NumSegments(size_mb), released)
        BY <2>1, <2>3 DEF memory_pool_release_segments
      <3> DEFINE W == Window(NumSegments(offset_mb), released)
      <3>2. /\ W \in SUBSET HeldBy(vm, nid)
            /\ segments' = [segments EXCEPT ![nid] = Reassigned(nid, W, NoVm)]
        BY <3>1 DEF release_segments
      <3>3. /\ W \in SUBSET Index(nid)
            /\ \A k \in W : segments[nid][k] = vm \/ segments[nid][k] = NoVm
        BY <3>2 DEF HeldBy
      <3>4. \A m \in Node : \A k \in Index(m) :
               segments'[m][k] = IF m = nid /\ k \in W THEN NoVm ELSE segments[m][k]
        BY <3>2 DEF PoolTypeOK, Reassigned
      <3> HIDE DEF W
      <3>5. \A other \in VmId : other # NoVm
        BY VmIdAssumption DEF NoVm
      <3>6. ASSUME NEW other \in VmId, other # vm, NEW m \in Node, NEW k \in Index(m)
            PROVE  segments'[m][k] = other <=> segments[m][k] = other
        BY <3>3, <3>4, <3>5, <3>6
      <3> QED
        BY <3>6 DEF HeldBy
    <2> QED
      BY <2>2, <2>3
  <1>3. CASE ReleaseVm
    <2>1. PICK vm \in VmId : memory_pool_release_vm_memory(vm)
      BY <1>3 DEF ReleaseVm
    <2>2. \A n \in Node : \A k \in Index(n) :
             segments'[n][k] = IF segments[n][k] = vm THEN NoVm ELSE segments[n][k]
      BY <2>1 DEF memory_pool_release_vm_memory, Reassigned, HeldBy
    <2>3. \A other \in VmId : other # NoVm
      BY VmIdAssumption DEF NoVm
    <2> QED
      BY <2>2, <2>3 DEF HeldBy
  <1> QED
    BY <1>1, <1>2, <1>3 DEF PoolNext

\* No call of the pool, whatever its arguments, changes what two VMs hold:
\* allocate_segments skips segments that are allocated, release_segments stops
\* at one of another VM.
THEOREM OneVmAtATime == PoolSpec => OneVmPerCall
  <1> DEFINE A == \A vm, other \in VmId :
                (\E n \in Node : HeldBy(vm, n)' # HeldBy(vm, n)) /\ other # vm
                    => \A n \in Node : HeldBy(other, n)' = HeldBy(other, n)
  <1>1. PoolInv /\ [PoolNext]_poolVars => [A]_poolVars
    <2> SUFFICES ASSUME PoolTypeOK, PoolNext PROVE A
      BY DEF PoolInv
    <2>1. PICK vm \in VmId : \A other \in VmId \ {vm} : \A n \in Node :
              HeldBy(other, n)' = HeldBy(other, n)
      BY CallForOne
    <2> QED
      BY <2>1
  <1> QED
    BY PoolInitInv, PoolNextInv, <1>1, PTL DEF PoolSpec, OneVmPerCall
=============================================================================
