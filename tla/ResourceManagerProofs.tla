----------------------- MODULE ResourceManagerProofs -----------------------
(***************************************************************************)
(* The resource manager keeps its tables in order through every request    *)
(* and implements SegmentLease: for any devices, any VM ids, any table     *)
(* size and any requests.  The tables are VmManagerProofs' subject         *)
(* (TableInv).                                                             *)
(***************************************************************************)
EXTENDS ResourceManager, VmManagerProofs

-----------------------------------------------------------------------------
(* Requests *)

\* A request id that passes the handlers' test is one of the VM ids.
LEMMA ValidVid == \A vid \in VidArg : ~(vid < 0) => vid \in VmId /\ vid \in Nat
  BY VmIdAssumption DEF VidArg

\* Every RPC handler keeps the invariant.
LEMMA RequestInv ==
    ASSUME TableInv, Request
    PROVE  TableInv'
  <1>1. CASE InvalidArgs
    BY <1>1, NothingChangesInv DEF InvalidArgs
  <1>2. CASE ~InvalidArgs
    <2>1. ASSUME NEW vid \in VidArg, NEW core_set \in CoreArg,
                 rpc_handle_create_vm(vid, core_set)
          PROVE  TableInv'
      BY <1>2, <2>1, ValidVid, CreateTableInv DEF rpc_handle_create_vm, CoreArg
    <2>2. ASSUME NEW vid \in VidArg, rpc_handle_start_vm(vid)
          PROVE  TableInv'
      BY <1>2, <2>2, StartTableInv DEF rpc_handle_start_vm
    <2>3. ASSUME NEW vid \in VidArg, rpc_handle_stop_vm(vid)
          PROVE  TableInv'
      BY <1>2, <2>3, StopTableInv DEF rpc_handle_stop_vm
    <2>4. ASSUME NEW vid \in VidArg, rpc_handle_destroy_vm(vid)
          PROVE  TableInv'
      BY <1>2, <2>4, ValidVid, DestroyTableInv DEF rpc_handle_destroy_vm
    <2>5. ASSUME NEW nid \in NidArg, NEW vid \in VidArg, NEW size_mb \in MbArg,
                 rpc_handle_alloc_mem(nid, vid, size_mb)
          PROVE  TableInv'
      <3>1. size_mb \in Int
        BY MbArgAssumption
      <3>2. vid \in VmId /\ size_mb > 0
        BY <1>2, <2>5, <3>1, ValidVid DEF rpc_handle_alloc_mem
      <3>3. PICK malloc_ok \in BOOLEAN, ret \in {0, -1} :
               vm_mngr_instance_alloc_mem(nid, vid, size_mb, malloc_ok, ret)
        BY <1>2, <2>5 DEF rpc_handle_alloc_mem
      <3> QED
        BY <3>1, <3>2, <3>3, AllocTableInv
    <2>6. ASSUME NEW vid \in VidArg, NEW memid \in MemidArg,
                 rpc_handle_free_mem(vid, memid)
          PROVE  TableInv'
      BY <1>2, <2>6, ValidVid, FreeTableInv DEF rpc_handle_free_mem
    <2> QED
      BY <2>1, <2>2, <2>3, <2>4, <2>5, <2>6 DEF Request
  <1> QED
    BY <1>1, <1>2

-----------------------------------------------------------------------------
(* Theorems *)

\* The invariant holds throughout.
LEMMA SpecInv == Spec => []TableInv
  <1>1. Init => TableInv
    BY VmInitInv DEF Init
  <1>2. TableInv /\ UNCHANGED vars => TableInv'
    BY NothingChangesInv DEF vars
  <1>3. TableInv /\ [Request]_vars => TableInv'
    BY <1>2, RequestInv
  <1> QED
    BY <1>1, <1>3, PTL DEF Spec

\* Every variable of the manager keeps its type: no counter of VMs, agents or
\* segments goes below zero.
THEOREM ManagerTypes == Spec => []TypeOK
  <1>1. TableInv => TypeOK
    BY DEF TypeOK, TableInv, ManagerInv, MngrInv
  <1> QED
    BY SpecInv, <1>1, PTL

\* The VM count is exact, ids are unique, and no slot given up is running.
THEOREM VmTableAlwaysConsistent == Spec => []VmTableConsistent
  <1>1. TableInv => VmTableConsistent
    BY DEF TableInv, ManagerInv, MngrInv
  <1> QED
    BY SpecInv, <1>1, PTL

\* Running VMs, open perf events and connected agents stay in step.
THEOREM AgentsAlwaysMatch == Spec => []AgentsMatchRunning
  <1>1. TableInv => AgentsMatchRunning
    BY DEF TableInv, ManagerInv, MngrInv
  <1> QED
    BY SpecInv, <1>1, PTL

\* BUG_ON(VM->initialized) and assert(num_segments > 0) never fire: the count
\* leaves a free entry whenever it admits a VM, and the handler refuses the
\* size the pool takes for aligned but cannot allocate.
THEOREM NoInternalAssertionFails == Spec => []InternalAssertionsHold
  <1>1. TableInv => InternalAssertionsHold
    BY DEF TableInv, ManagerInv
  <1> QED
    BY SpecInv, <1>1, PTL

\* A segment belongs to a VM exactly when one memory_dev of the VM covers it:
\* allocate, free, destroy and create keep memory_pool.c's map and
\* vm_manager.c's lists in agreement, for any devices, segment size, VM ids
\* and requests.
THEOREM MemoryAlwaysAccounted == Spec => []MemoryAccounted
  <1>1. TableInv => MemoryAccounted
    BY DEF TableInv, Accounted
  <1> QED
    BY SpecInv, <1>1, PTL

-----------------------------------------------------------------------------
(***************************************************************************)
(* The refinement.  alloc-mem is a Grant, free-mem a TakeBack of the whole *)
(* lease, destroy-vm a TakeBackAll; every other step of the manager leaves *)
(* the leases, the free segments and the issued ids as they are.  A Grant  *)
(* uses an id that is new because of DevicesNumbered; a TakeBack takes     *)
(* back all of a lease because of Accounted (FreeReleasesAll).             *)
(***************************************************************************)

\* The three abstract variables, by their members.
LEMMA LeaseMembers ==
    \A l : l \in Leases <=>
       \E s \in Live : \E d \in VMs[s].attached_devs : l = LeaseOf(VMs[s].vm_id, d)
  BY DEF Leases

\* What the lease specification sees as free.
LEMMA FreeMembers ==
    \A x : x \in FreeSegments <=>
       \E n \in Node : \E k \in Index(n) : x = <<n, k>> /\ segments[n][k] = NoVm
  <1>1. \A n \in Node : \A k : k \in Index(n) \ Allocated(n) <=>
                                 k \in Index(n) /\ segments[n][k] = NoVm
    BY DEF Allocated
  <1> QED
    BY <1>1 DEF FreeSegments

\* What it sees as issued.
LEMMA IssuedMembers ==
    \A vm \in VmId : \A i : i \in Issued[vm] <=>
       \E s \in Instances(vm) : i \in 0 .. (VMs[s].memdev_counter - 1)
  BY DEF Issued

\* What it sees of a memory_dev.
LEMMA LeaseFields ==
    ASSUME NEW vm, NEW d
    PROVE  /\ LeaseOf(vm, d).vm = vm
           /\ LeaseOf(vm, d).id = d.memdev_idx
           /\ LeaseOf(vm, d).node = d.node_id
           /\ LeaseOf(vm, d).first = NumSegments(d.offset_mb)
           /\ LeaseOf(vm, d).last = NumSegments(d.offset_mb) + NumSegments(d.size_mb) - 1
  BY DEF LeaseOf

\* The extent of a device's lease is the device's window.
LEMMA LeaseExtent ==
    ASSUME NEW vm, NEW d
    PROVE  Lease!Extent(LeaseOf(vm, d)) = {d.node_id} \X DevWindow(d)
  BY LeaseFields DEF Lease!Extent, DevWindow, Window

\* A step that leaves the segments, and the id, devices and counter of every
\* slot alone is a stuttering step.
LEMMA SameLeases ==
    ASSUME UNCHANGED segments,
           \A t \in Slot : /\ VMs'[t].vm_id = VMs[t].vm_id
                           /\ (VMs'[t].initialized <=> VMs[t].initialized)
                           /\ VMs'[t].memdev_counter = VMs[t].memdev_counter
                           /\ VMs'[t].attached_devs = VMs[t].attached_devs
    PROVE  UNCHANGED <<FreeSegments, Leases, Issued>>
  <1>1. Live' = Live /\ \A vm : Instances(vm)' = Instances(vm)
    BY DEF Live, Instances
  <1>2. FreeSegments' = FreeSegments
    BY DEF FreeSegments, Allocated
  <1>3. Leases' = Leases
    BY <1>1 DEF Leases, Live, LeaseOf
  <1>4. Issued' = Issued
    BY <1>1 DEF Issued, Instances
  <1> QED
    BY <1>2, <1>3, <1>4

\* create-vm: the new VM has no device and no id was issued to it.
LEMMA CreateStutters ==
    ASSUME TableInv, NEW vm \in VmId, NEW core_set, NEW s \in Slot,
           ~VMs[s].initialized, ~CreateRefused(vm), CreateIn(s, vm, core_set)
    PROVE  UNCHANGED <<FreeSegments, Leases, Issued>>
  <1>1. /\ \A t \in Slot \ {s} : VMs'[t] = VMs[t]
        /\ VMs'[s].vm_id = vm
        /\ VMs'[s].initialized
        /\ VMs'[s].memdev_counter = 0
        /\ VMs'[s].attached_devs = {}
    <2>1. VMs \in [Slot -> VmInstance] /\ VMs[s] \in VmInstance
      BY DEF TableInv, ManagerInv, MngrInv, VmTypeOK
    <2> QED
      BY <2>1 DEF CreateIn, VmInstance
  <1>2. UNCHANGED segments
    BY DEF CreateIn, poolVars
  <1>3. FreeSegments' = FreeSegments
    BY <1>2 DEF FreeSegments, Allocated
  <1>4. \A t : t \in Live' <=> t \in Live \/ t = s
    BY <1>1 DEF Live
  <1>5. s \notin Live /\ \A t \in Live : VMs'[t] = VMs[t]
    BY <1>1 DEF Live
  <1>6. Leases' = Leases
    <2>1. \A l : l \in Leases' <=>
             \E t \in Live' : \E d \in VMs'[t].attached_devs :
                l = LeaseOf(VMs'[t].vm_id, d)
      BY DEF Leases, LeaseOf
    <2>2. \A l : l \in Leases' <=> l \in Leases
      BY <2>1, <1>1, <1>4, <1>5, LeaseMembers
    <2> QED
      BY <2>2
  <1>7. \A v \in VmId : Issued'[v] = Issued[v]
    <2> SUFFICES ASSUME NEW v \in VmId PROVE Issued'[v] = Issued[v]
      OBVIOUS
    <2>1. \A i : i \in Issued'[v] <=>
             \E t \in Instances(v)' : i \in 0 .. (VMs'[t].memdev_counter - 1)
      BY DEF Issued
    <2>2. \A t : t \in Instances(v)' <=> t \in Instances(v) \/ (t = s /\ v = vm)
      BY <1>1 DEF Instances
    <2>3. \A t \in Instances(v) : VMs'[t] = VMs[t]
      BY <1>5, InstancesAreLive
    <2>4. \A i : i \notin 0 .. (VMs'[s].memdev_counter - 1)
      BY <1>1
    <2>5. \A i : i \in Issued'[v] <=> i \in Issued[v]
      BY <2>1, <2>2, <2>3, <2>4, IssuedMembers
    <2> QED
      BY <2>5 DEF Issued
  <1>8. Issued' = Issued
    BY <1>7 DEF Issued
  <1> QED
    BY <1>3, <1>6, <1>8

\* alloc-mem takes free segments under the next index of the VM.
LEMMA AllocGrants ==
    ASSUME TableInv, NEW nid, NEW vm \in VmId, NEW size_mb \in Int,
           NEW start \in Index(nid), NEW s \in Live, VMs[s].vm_id = vm,
           AllocIn(s, nid, vm, size_mb, start)
    PROVE  \E id \in 0 .. (MaxMemdev - 1) : Lease!Grant(vm, id)
  <1> DEFINE num == NumSegments(size_mb)
             W == Window(start, num)
             c == VMs[s].memdev_counter
             d == NewMemDev(s, nid, start, num)
             l == LeaseOf(vm, d)
             last == start + num - 1
  <1>1. VmTypeOK /\ VmTableConsistent /\ DevicesNumbered
    BY DEF TableInv, ManagerInv, MngrInv
  <1>2. /\ c \in Nat /\ c < MaxMemdev
        /\ VMs'[s].memdev_counter = c + 1
        /\ VMs'[s].attached_devs = VMs[s].attached_devs \cup {d}
        /\ VMs'[s].vm_id = vm
        /\ \A t \in Slot \ {s} : VMs'[t] = VMs[t]
        /\ Live' = Live
        /\ \A v : Instances(v)' = Instances(v)
    BY <1>1, AllocSlot
  <1>3. /\ nid \in Node /\ is_aligned(size_mb) /\ num > 0
        /\ allocate_segments(nid, num, vm, start)
    BY DEF AllocIn, memory_pool_allocate_segments
  <1>4. num \in Nat
    BY <1>3, NumSegmentsNat
  <1>5. start \in 0 .. (Total(nid) - num) /\ W \cap Allocated(nid) = {}
    BY <1>3 DEF allocate_segments, find_free_segments, FirstFreeWindow, FreeWindow
  <1>6. W \in SUBSET Index(nid) /\ start \in Nat
    BY <1>3, <1>4, <1>5, TotalNat DEF Window, Index
  <1>7. \A k \in W : segments[nid][k] = NoVm
    BY <1>5, <1>6 DEF Allocated
  <1>8. \A n \in Node : \A k \in Index(n) :
           segments'[n][k] = IF n = nid /\ k \in W THEN vm ELSE segments[n][k]
    BY <1>1, <1>3 DEF allocate_segments, Reassigned, VmTypeOK, PoolTypeOK
  <1>9. vm # NoVm
    BY VmIdAssumption DEF NoVm
  <1>10. last \in Index(nid) /\ start <= last /\ W = start .. last
    BY <1>3, <1>4, <1>5, TotalNat DEF Window, Index
  <1>11. /\ d.memdev_idx = c /\ d.node_id = nid
         /\ NumSegments(d.offset_mb) = start /\ NumSegments(d.size_mb) = num
    BY <1>4, <1>6, SegmentsOfMb DEF NewMemDev, MemoryRequest
  <1>12. l = [vm |-> vm, id |-> c, node |-> nid, first |-> start, last |-> last]
    BY <1>11 DEF LeaseOf
  <1>13. Lease!Extent(l) = {nid} \X W
    BY <1>10, <1>12 DEF Lease!Extent
  <1>14. Instances(vm) = {s}
    BY <1>1, OneInstance
  <1>15. \A v \in VmId : v # vm => s \notin Instances(v)
    BY InstancesAreLive
  <1> HIDE DEF num, W, c, d, l, last
  <1>16. c \notin Issued[vm]
    BY <1>2, <1>14, IssuedMembers DEF c
  <1>17. Issued' = [Issued EXCEPT ![vm] = @ \cup {c}]
    <2>1. \A v \in VmId : \A i : i \in Issued'[v] <=>
             \E t \in Instances(v) : i \in 0 .. (VMs'[t].memdev_counter - 1)
      BY <1>2 DEF Issued
    <2>2. Issued'[vm] = Issued[vm] \cup {c}
      <3>1. \A i : i \in Issued'[vm] <=> i \in 0 .. c
        BY <1>2, <1>14, <2>1
      <3>2. \A i : i \in Issued[vm] <=> i \in 0 .. (c - 1)
        BY <1>14, IssuedMembers DEF c
      <3>3. \A i : i \in 0 .. c <=> i \in 0 .. (c - 1) \/ i = c
        BY <1>2
      <3>4. \A i : i \in Issued'[vm] <=> i \in Issued[vm] \cup {c}
        BY <3>1, <3>2, <3>3
      <3> QED
        BY <3>4 DEF Issued
    <2>3. ASSUME NEW v \in VmId, v # vm
          PROVE  Issued'[v] = Issued[v]
      <3>1. \A t \in Instances(v) : VMs'[t] = VMs[t]
        BY <1>2, <1>15, <2>3, InstancesAreLive DEF Live
      <3>2. \A i : i \in Issued'[v] <=> i \in Issued[v]
        BY <2>1, <3>1, IssuedMembers
      <3> QED
        BY <3>2 DEF Issued
    <2> QED
      BY <2>2, <2>3 DEF Issued
  <1>18. Leases' = Leases \cup {l}
    <2>1. \A x : x \in Leases' <=>
             \E t \in Live : \E e \in VMs'[t].attached_devs :
                x = LeaseOf(VMs'[t].vm_id, e)
      BY <1>2 DEF Leases, LeaseOf
    <2>2. \A t \in Live \ {s} : VMs'[t] = VMs[t]
      BY <1>2 DEF Live
    <2>3. \A x : x \in Leases' <=> x \in Leases \/ x = l
      BY <1>2, <2>1, <2>2, LeaseMembers DEF l
    <2> QED
      BY <2>3
  <1>19. \A x : x \in FreeSegments' <=>
            \E n \in Node : \E k \in Index(n) : x = <<n, k>> /\ segments'[n][k] = NoVm
    <2>1. \A n \in Node : \A k : k \in Index(n) \ Allocated(n)' <=>
                                   k \in Index(n) /\ segments'[n][k] = NoVm
      BY DEF Allocated
    <2> QED
      BY <2>1 DEF FreeSegments
  <1>20. Lease!Extent(l) \subseteq FreeSegments
    <2> SUFFICES ASSUME NEW x \in Lease!Extent(l) PROVE x \in FreeSegments
      OBVIOUS
    <2>1. PICK k \in W : x = <<nid, k>>
      BY <1>13
    <2>2. k \in Index(nid) /\ segments[nid][k] = NoVm
      BY <1>6, <1>7
    <2> QED
      BY <1>3, <2>1, <2>2, FreeMembers
  <1>21. FreeSegments' = FreeSegments \ Lease!Extent(l)
    <2>1. \A n \in Node : \A k \in Index(n) :
             segments'[n][k] = NoVm <=> segments[n][k] = NoVm /\ ~(n = nid /\ k \in W)
      BY <1>7, <1>8, <1>9
    <2>2. \A n, k : <<n, k>> \in Lease!Extent(l) <=> n = nid /\ k \in W
      BY <1>13
    <2>3. \A x : x \in FreeSegments' <=> x \in FreeSegments /\ x \notin Lease!Extent(l)
      BY <1>19, <2>1, <2>2, FreeMembers
    <2> QED
      BY <2>3
  <1>22. Lease!Grant(vm, c)
    BY <1>3, <1>10, <1>12, <1>16, <1>17, <1>18, <1>20, <1>21 DEF Lease!Grant
  <1> QED
    BY <1>2, <1>22, MaxMemdevAssumption

\* free-mem takes back all of a lease.
LEMMA FreeTakesBack ==
    ASSUME TableInv, NEW vm \in VmId, NEW s \in Live, VMs[s].vm_id = vm,
           NEW d \in VMs[s].attached_devs, NEW ret, FreeIn(s, d, vm, ret)
    PROVE  \E l \in Leases : Lease!TakeBack(l)
  <1> DEFINE l == LeaseOf(vm, d)
             n0 == d.node_id
             W == DevWindow(d)
  <1>1. VmTypeOK /\ VmTableConsistent /\ DevicesNumbered /\ Accounted
    BY DEF TableInv, ManagerInv, MngrInv
  <1>2. /\ VMs'[s].memdev_counter = VMs[s].memdev_counter
        /\ VMs'[s].attached_devs = VMs[s].attached_devs \ {d}
        /\ VMs'[s].vm_id = vm
        /\ \A t \in Slot \ {s} : VMs'[t] = VMs[t]
        /\ Live' = Live
        /\ \A v : Instances(v)' = Instances(v)
    BY <1>1, FreeSlot
  <1>3. n0 \in Node /\ W \subseteq Index(n0)
    BY <1>1 DEF Accounted, DevicesFit, DeviceFits
  <1>4. \A n \in Node : \A k \in Index(n) :
           segments'[n][k] = IF n = n0 /\ k \in W THEN NoVm ELSE segments[n][k]
    <2>1. segments' = [segments EXCEPT ![n0] = Reassigned(n0, W, NoVm)]
      BY <1>1, FreeReleasesAll
    <2> QED
      BY <1>1, <1>3, <2>1 DEF Reassigned, VmTypeOK, PoolTypeOK
  <1>5. Lease!Extent(l) = {n0} \X W
    BY LeaseExtent
  <1>6. l.vm = vm /\ l.id = d.memdev_idx
    BY LeaseFields
  <1>7. l \in Leases
    BY LeaseMembers
  <1> HIDE DEF l, n0, W
  <1>8. Issued' = Issued
    <2>1. \A t \in Slot : VMs'[t].memdev_counter = VMs[t].memdev_counter
      BY <1>2
    <2> QED
      BY <1>2, <2>1 DEF Issued, Instances
  <1>9. Leases' = Leases \ {l}
    <2>1. \A x : x \in Leases' <=>
             \E t \in Live : \E e \in VMs'[t].attached_devs :
                x = LeaseOf(VMs'[t].vm_id, e)
      BY <1>2 DEF Leases, LeaseOf
    <2>2. \A t \in Live \ {s} : VMs'[t] = VMs[t] /\ VMs[t].vm_id # vm
      BY <1>1, <1>2 DEF Live, VmTableConsistent
    <2>3. \A t \in Live \ {s} : \A e \in VMs[t].attached_devs :
             LeaseOf(VMs[t].vm_id, e) # l
      BY <1>6, <2>2, LeaseFields
    <2>4. \A e \in VMs[s].attached_devs \ {d} : LeaseOf(vm, e) # l
      BY <1>1, <1>6, LeaseFields DEF DevicesNumbered
    <2>5. ASSUME NEW x
          PROVE  x \in Leases' <=> x \in Leases /\ x # l
      <3>1. ASSUME x \in Leases' PROVE x \in Leases /\ x # l
        <4>1. PICK t \in Live : \E e \in VMs'[t].attached_devs :
                 x = LeaseOf(VMs'[t].vm_id, e)
          BY <2>1, <3>1
        <4>2. CASE t = s
          BY <1>2, <2>4, <4>1, <4>2, LeaseMembers
        <4>3. CASE t # s
          BY <2>2, <2>3, <4>1, <4>3, LeaseMembers
        <4> QED
          BY <4>2, <4>3
      <3>2. ASSUME x \in Leases, x # l PROVE x \in Leases'
        <4>1. PICK t \in Live : \E e \in VMs[t].attached_devs :
                 x = LeaseOf(VMs[t].vm_id, e)
          BY <3>2, LeaseMembers
        <4>2. CASE t = s
          BY <1>2, <2>1, <3>2, <4>1, <4>2 DEF l
        <4>3. CASE t # s
          BY <2>1, <2>2, <4>1, <4>3
        <4> QED
          BY <4>2, <4>3
      <3> QED
        BY <3>1, <3>2
    <2> QED
      BY <2>5
  <1>10. FreeSegments' = FreeSegments \cup Lease!Extent(l)
    <2>1. \A n \in Node : \A k : k \in Index(n) \ Allocated(n)' <=>
                                   k \in Index(n) /\ segments'[n][k] = NoVm
      BY DEF Allocated
    <2>2. \A x : x \in FreeSegments' <=>
             \E n \in Node : \E k \in Index(n) : x = <<n, k>> /\ segments'[n][k] = NoVm
      BY <2>1 DEF FreeSegments
    <2>3. \A n \in Node : \A k \in Index(n) :
             segments'[n][k] = NoVm <=> segments[n][k] = NoVm \/ (n = n0 /\ k \in W)
      BY <1>4
    <2>4. \A x : x \in Lease!Extent(l) <=>
             \E n \in Node : \E k \in Index(n) : x = <<n, k>> /\ n = n0 /\ k \in W
      BY <1>3, <1>5
    <2>5. \A x : x \in FreeSegments' <=> x \in FreeSegments \/ x \in Lease!Extent(l)
      BY <2>2, <2>3, <2>4, FreeMembers
    <2> QED
      BY <2>5
  <1>11. Lease!TakeBack(l)
    BY <1>7, <1>8, <1>9, <1>10 DEF Lease!TakeBack
  <1> QED
    BY <1>7, <1>11

\* destroy-vm takes back all leases of the VM, and forgets its ids.
LEMMA DestroyTakesBackAll ==
    ASSUME TableInv, NEW vm \in VmId, NEW s \in Live, VMs[s].vm_id = vm,
           DestroyIn(s, vm)
    PROVE  Lease!TakeBackAll(vm)
  <1> DEFINE held == {l \in Leases : l.vm = vm}
  <1>1. VmTypeOK /\ VmTableConsistent /\ DevicesNumbered /\ Accounted
    BY DEF TableInv, ManagerInv, MngrInv
  <1>2. /\ \A t \in Slot \ {s} : VMs'[t] = VMs[t]
        /\ ~VMs'[s].initialized
    BY <1>1 DEF DestroyIn, VmTypeOK, VmInstance, Live
  <1>3. \A n \in Node : \A k \in Index(n) :
           segments'[n][k] = IF segments[n][k] = vm THEN NoVm ELSE segments[n][k]
    BY DEF DestroyIn, memory_pool_release_vm_memory, Reassigned, HeldBy
  <1>4. \A t : t \in Live' <=> t \in Live /\ t # s
    BY <1>2 DEF Live
  <1>5. \A t \in Live : t # s => VMs'[t] = VMs[t] /\ VMs[t].vm_id # vm
    BY <1>1, <1>2 DEF Live, VmTableConsistent
  <1>6. Issued' = [Issued EXCEPT ![vm] = {}]
    <2>1. \A v \in VmId : \A i : i \in Issued'[v] <=>
             \E t \in Instances(v)' : i \in 0 .. (VMs'[t].memdev_counter - 1)
      BY DEF Issued
    <2>2. \A v, t : t \in Instances(v)' <=> t \in Live' /\ VMs'[t].vm_id = v
      BY DEF Instances, Live
    <2>3. Instances(vm)' = {}
      BY <1>4, <1>5, <2>2
    <2>4. Issued'[vm] = {}
      BY <2>1, <2>3 DEF Issued
    <2>5. ASSUME NEW v \in VmId, v # vm
          PROVE  Issued'[v] = Issued[v]
      <3>1. \A t : t \in Instances(v)' <=> t \in Instances(v)
        BY <1>4, <1>5, <2>2, <2>5, InstancesAreLive
      <3>2. \A t \in Instances(v) : VMs'[t] = VMs[t]
        BY <1>5, <2>5, InstancesAreLive
      <3>3. \A i : i \in Issued'[v] <=> i \in Issued[v]
        BY <2>1, <3>1, <3>2, IssuedMembers
      <3> QED
        BY <3>3 DEF Issued
    <2> QED
      BY <2>4, <2>5 DEF Issued
  <1>7. Leases' = Leases \ held
    <2>1. \A x : x \in Leases' <=>
             \E t \in Live' : \E e \in VMs'[t].attached_devs :
                x = LeaseOf(VMs'[t].vm_id, e)
      BY DEF Leases, LeaseOf
    <2>2. ASSUME NEW x
          PROVE  x \in Leases' <=> x \in Leases /\ x.vm # vm
      <3>1. ASSUME x \in Leases' PROVE x \in Leases /\ x.vm # vm
        <4>1. PICK t \in Live : t # s /\ \E e \in VMs[t].attached_devs :
                 x = LeaseOf(VMs[t].vm_id, e)
          BY <1>4, <1>5, <2>1, <3>1
        <4> QED
          BY <1>5, <4>1, LeaseMembers, LeaseFields
      <3>2. ASSUME x \in Leases, x.vm # vm PROVE x \in Leases'
        <4>1. PICK t \in Live : \E e \in VMs[t].attached_devs :
                 x = LeaseOf(VMs[t].vm_id, e)
          BY <3>2, LeaseMembers
        <4>2. t # s
          BY <3>2, <4>1, LeaseFields
        <4> QED
          BY <1>4, <1>5, <2>1, <4>1, <4>2
      <3> QED
        BY <3>1, <3>2
    <2> QED
      BY <2>2
  <1>8. FreeSegments' = FreeSegments \cup UNION {Lease!Extent(l) : l \in held}
    <2>1. \A n \in Node : \A k : k \in Index(n) \ Allocated(n)' <=>
                                   k \in Index(n) /\ segments'[n][k] = NoVm
      BY DEF Allocated
    <2>2. \A x : x \in FreeSegments' <=>
             \E n \in Node : \E k \in Index(n) : x = <<n, k>> /\ segments'[n][k] = NoVm
      BY <2>1 DEF FreeSegments
    <2>3. \A l : l \in held <=>
             \E d \in VMs[s].attached_devs : l = LeaseOf(vm, d)
      <3>1. ASSUME NEW l \in held
            PROVE  \E d \in VMs[s].attached_devs : l = LeaseOf(vm, d)
        <4>1. PICK t \in Live : \E e \in VMs[t].attached_devs :
                 l = LeaseOf(VMs[t].vm_id, e)
          BY LeaseMembers
        <4>2. t = s
          BY <1>5, <4>1, LeaseFields
        <4> QED
          BY <4>1, <4>2
      <3>2. ASSUME NEW d \in VMs[s].attached_devs
            PROVE  LeaseOf(vm, d) \in held
        BY LeaseMembers, LeaseFields
      <3> QED
        BY <3>1, <3>2
    <2>4. \A d \in VMs[s].attached_devs :
             /\ d.node_id \in Node
             /\ DevWindow(d) \subseteq Index(d.node_id)
             /\ Lease!Extent(LeaseOf(vm, d)) = {d.node_id} \X DevWindow(d)
      BY <1>1, LeaseExtent DEF Accounted, DevicesFit, DeviceFits
    <2>5. Instances(vm) = {s}
      BY <1>1, OneInstance
    <2>6. \A n \in Node : \A k \in Index(n) :
             segments[n][k] = vm <=>
                \E d \in VMs[s].attached_devs : d.node_id = n /\ k \in DevWindow(d)
      BY <1>1, <2>5 DEF Accounted, MemoryAccounted
    <2> HIDE DEF held
    <2>7. ASSUME NEW x
          PROVE  x \in UNION {Lease!Extent(l) : l \in held} <=>
                   \E n \in Node : \E k \in Index(n) :
                      x = <<n, k>> /\ segments[n][k] = vm
      <3>1. x \in UNION {Lease!Extent(l) : l \in held} <=>
               \E d \in VMs[s].attached_devs : x \in {d.node_id} \X DevWindow(d)
        BY <2>3, <2>4
      <3>2. \A d \in VMs[s].attached_devs :
               x \in {d.node_id} \X DevWindow(d) <=>
                  \E n \in Node : \E k \in Index(n) :
                     x = <<n, k>> /\ d.node_id = n /\ k \in DevWindow(d)
        BY <2>4
      <3> QED
        BY <2>6, <3>1, <3>2
    <2>8. \A n \in Node : \A k \in Index(n) :
             segments'[n][k] = NoVm <=> segments[n][k] = NoVm \/ segments[n][k] = vm
      BY <1>3
    <2>9. \A x : x \in FreeSegments' <=>
             x \in FreeSegments \/ x \in UNION {Lease!Extent(l) : l \in held}
      BY <2>2, <2>7, <2>8, FreeMembers
    <2> QED
      BY <2>9
  <1> QED
    BY <1>6, <1>7, <1>8 DEF Lease!TakeBackAll

\* A refused call is no step of the leases.
LEMMA NothingChangesStutters ==
    ASSUME NothingChanges
    PROVE  UNCHANGED <<FreeSegments, Leases, Issued>>
  BY SameLeases DEF NothingChanges, BUG_ON, mngrVars, tableVars, poolVars

\* destroy-vm returns every lease of the VM.
LEMMA DestroyLeases ==
    ASSUME TableInv, NEW vm, NEW ret, vm_mngr_instance_destroy(vm, ret)
    PROVE  Lease!Next \/ UNCHANGED <<FreeSegments, Leases, Issued>>
  <1>1. CASE NothingChanges
    BY <1>1, NothingChangesStutters
  <1>2. CASE ~NothingChanges
    <2>1. PICK s \in Live : VMs[s].vm_id = vm /\ DestroyIn(s, vm)
      BY <1>2, DestroyEffect DEF TableInv
    <2>2. vm \in VmId
      BY <2>1 DEF TableInv, DevicesNumbered
    <2>3. Lease!TakeBackAll(vm)
      BY <2>1, <2>2, DestroyTakesBackAll
    <2> QED
      BY <2>2, <2>3 DEF Lease!Next, Lease!vars
  <1> QED
    BY <1>1, <1>2

\* Every request is a step of the leases or none.
LEMMA RequestLeases ==
    ASSUME TableInv, Request
    PROVE  Lease!Next \/ UNCHANGED <<FreeSegments, Leases, Issued>>
  <1> DEFINE Step == Lease!Next \/ UNCHANGED <<FreeSegments, Leases, Issued>>
  <1>1. CASE InvalidArgs
    BY <1>1, NothingChangesStutters DEF InvalidArgs, NothingChanges
  <1>2. CASE ~InvalidArgs
    <2>1. ASSUME NEW vid \in VidArg, NEW core_set \in CoreArg,
                 rpc_handle_create_vm(vid, core_set)
          PROVE  Step
      <3>1. vid \in VmId
        BY <1>2, <2>1, ValidVid DEF rpc_handle_create_vm
      <3>2. PICK ret : vm_mngr_instance_create(vid, core_set, ret)
        BY <1>2, <2>1 DEF rpc_handle_create_vm
      <3>3. CASE NothingChanges
        BY <3>3, NothingChangesStutters
      <3>4. CASE ~NothingChanges
        BY <3>1, <3>2, <3>4, CreateEffect, CreateStutters DEF TableInv
      <3> QED
        BY <3>3, <3>4
    <2>2. ASSUME NEW vid \in VidArg, rpc_handle_start_vm(vid)
          PROVE  Step
      BY <1>2, <2>2, StartEffect, SameLeases DEF rpc_handle_start_vm, TableInv
    <2>3. ASSUME NEW vid \in VidArg, rpc_handle_stop_vm(vid)
          PROVE  Step
      BY <1>2, <2>3, StopEffect, SameLeases DEF rpc_handle_stop_vm, TableInv
    <2>4. ASSUME NEW vid \in VidArg, rpc_handle_destroy_vm(vid)
          PROVE  Step
      BY <1>2, <2>4, DestroyLeases DEF rpc_handle_destroy_vm
    <2>5. ASSUME NEW nid \in NidArg, NEW vid \in VidArg, NEW size_mb \in MbArg,
                 rpc_handle_alloc_mem(nid, vid, size_mb)
          PROVE  Step
      <3>1. size_mb \in Int
        BY MbArgAssumption
      <3>2. vid \in VmId
        BY <1>2, <2>5, ValidVid DEF rpc_handle_alloc_mem
      <3>3. PICK malloc_ok, ret :
               vm_mngr_instance_alloc_mem(nid, vid, size_mb, malloc_ok, ret)
        BY <1>2, <2>5 DEF rpc_handle_alloc_mem
      <3>4. CASE NothingChanges
        BY <3>4, NothingChangesStutters
      <3>5. CASE ~NothingChanges
        <4>1. PICK s \in Live :
                 /\ VMs[s].vm_id = vid
                 /\ \E start \in Index(nid) : AllocIn(s, nid, vid, size_mb, start)
          BY <3>3, <3>5, AllocEffect DEF TableInv
        <4>2. \E id \in 0 .. (MaxMemdev - 1) : Lease!Grant(vid, id)
          BY <3>1, <3>2, <4>1, AllocGrants
        <4> QED
          BY <3>2, <4>2 DEF Lease!Next, Lease!vars
      <3> QED
        BY <3>4, <3>5
    <2>6. ASSUME NEW vid \in VidArg, NEW memid \in MemidArg,
                 rpc_handle_free_mem(vid, memid)
          PROVE  Step
      <3>1. vid \in VmId
        BY <1>2, <2>6, ValidVid DEF rpc_handle_free_mem
      <3>2. PICK ret : vm_mngr_instance_free_mem(vid, memid, ret)
        BY <1>2, <2>6 DEF rpc_handle_free_mem
      <3>3. CASE NothingChanges
        BY <3>3, NothingChangesStutters
      <3>4. CASE ~NothingChanges
        <4>1. PICK s \in Live :
                 /\ VMs[s].vm_id = vid
                 /\ \E d \in VMs[s].attached_devs : FreeIn(s, d, vid, ret)
          BY <3>2, <3>4, FreeEffect DEF TableInv
        <4>2. \E l \in Leases : Lease!TakeBack(l)
          BY <3>1, <4>1, FreeTakesBack
        <4> QED
          BY <4>2 DEF Lease!Next, Lease!vars
      <3> QED
        BY <3>3, <3>4
    <2> QED
      BY <2>1, <2>2, <2>3, <2>4, <2>5, <2>6 DEF Request
  <1> QED
    BY <1>1, <1>2

\* The resource manager implements leases on segments, through every sequence
\* of requests: memory is granted from free segments only, under
\* an id the VM never had, and comes back whole or not at all.
THEOREM LeasesImplemented == Spec => LeaseSpec
  <1>1. Init => Lease!Init
    <2> SUFFICES ASSUME Init PROVE Lease!Init
      OBVIOUS
    <2>1. Live = {} /\ \A vm : Instances(vm) = {}
      BY DEF Init, VmInit, Live, Instances
    <2>2. Leases = {}
      BY <2>1 DEF Leases
    <2>3. Issued = [vm \in VmId |-> {}]
      BY <2>1 DEF Issued
    <2>4. \A n \in Node : Allocated(n) = {}
      BY DEF Init, VmInit, PoolInit, Allocated
    <2>5. FreeSegments = UNION {{n} \X Index(n) : n \in Node}
      BY <2>4 DEF FreeSegments
    <2> QED
      BY <2>2, <2>3, <2>5 DEF Lease!Init, Lease!Segment
  <1>2. TableInv /\ [Request]_vars => [Lease!Next]_(Lease!vars)
    <2> SUFFICES ASSUME TableInv, [Request]_vars
                 PROVE  Lease!Next \/ UNCHANGED <<FreeSegments, Leases, Issued>>
      BY DEF Lease!vars
    <2>1. CASE Request
      BY <2>1, RequestLeases
    <2>2. CASE UNCHANGED vars
      BY <2>2, NothingChangesStutters DEF vars, NothingChanges
    <2> QED
      BY <2>1, <2>2
  <1> QED
    BY SpecInv, <1>1, <1>2, PTL DEF Spec, LeaseSpec, Lease!Spec
=============================================================================
