------------------------- MODULE RamryderCliProofs -------------------------
(***************************************************************************)
(* What the commands of admin/ramryder_cli keep, for any number of         *)
(* operators at work at the same time, any VM ids, nodes and requests, and *)
(* with commands killed and QEMUs ending anywhere.                         *)
(*                                                                         *)
(* The argument has two layers.  All a command needs to know of the        *)
(* manager's tables is which VMs there are, which memory ids each of them  *)
(* holds, and which it was ever given (Created, HeldOf, IssuedOf); the     *)
(* first part says what each RPC does to these, from the lemmas about the  *)
(* tables.  On top of it, VmInv says how a VM, its QEMU and all the        *)
(* commands for it stand to each other.  QemuMemoryIsHeld and              *)
(* NothingLeaked are not inductive:                                        *)
(*   - memory ids are not used again in the life of a VM (IssuedOf), so a  *)
(*     new one is not in QEMU and with no other command;                   *)
(*   - memory ids of an attach-mem are not among those QEMU was started    *)
(*     with, so that the rollback frees no boot memory, and an id about to *)
(*     be freed by detach-mem is in QEMU no more (InStep);                 *)
(*   - any number of attach-mem, detach-mem and destroy-vm work on a VM at *)
(*     the same time; a create-vm is alone with attach-mem and detach-mem, *)
(*     and an id that is about to be plugged, or that QEMU starts with, is *)
(*     nobody else's (Apart);                                              *)
(*   - memory that is in no QEMU is pending with a command, or a leftover  *)
(*     (AllAccounted).                                                     *)
(* Nothing is claimed for the VM ids in "crossed", for which the commands  *)
(* do break this; for the others it holds whatever the commands do there.  *)
(*                                                                         *)
(* That alloc-mem is called with nodes and sizes of the right kind follows *)
(* from what the choice of channels computes, a sort and a greedy loop.    *)
(* Here it is shown to find a plan whenever there is one.                  *)
(***************************************************************************)
EXTENDS RamryderCli, VmManagerProofs

\* The memory ids a VM was given since it was created.
Issued(vm) == UNION {0 .. (VMs[s].memdev_counter - 1) : s \in Instances(vm)}

\* Which VMs the manager has, what they hold, and the ids they were given: all
\* that the commands need to know of its tables.
HeldOf == [vm \in VmId |-> Held(vm)]
IssuedOf == [vm \in VmId |-> Issued(vm)]
Created == {vm \in VmId : Instances(vm) # {}}

\* No operator starts a VM in the manager: destroy-vm is never refused.
NoneStarted == \A s \in Slot : ~VMs[s].running

Place == {"idle", "select", "create", "port", "alloc_boot", "launch", "poll",
          "cleanup", "kill", "destroy", "alloc", "attach", "rollback",
          "detach", "free"}

Plan == Seq(Node \X (Nat \ {0}))
Id == 0 .. (MaxMemdev - 1)

Command == [pc : Place, vm : Nat \cup {-1}, plan : Plan, memids : Seq(Id)]

Process == [pc : {"none", "running", "ended"}, ram : SUBSET Id, dimms : SUBSET Id,
            given_up : SUBSET Id]

CliTypes ==
    /\ cli \in [Cli -> Command]
    /\ qemu \in [VmId -> Process]
    /\ left \subseteq VmId
    /\ crossed \subseteq VmId

-----------------------------------------------------------------------------
(* The manager, seen from the commands *)

\* A VM holds the ids of the devices on its list.
LEMMA HeldMember ==
    \A vm : \A m : m \in Held(vm) <=>
        \E s \in Instances(vm) : \E d \in VMs[s].attached_devs : d.memdev_idx = m
  BY DEF Held

\* The same after a step.
LEMMA HeldMemberNext ==
    \A vm : \A m : m \in Held(vm)' <=>
        \E s \in Instances(vm)' : \E d \in VMs'[s].attached_devs : d.memdev_idx = m
  BY DEF Held

\* The ids a VM was given.
LEMMA IssuedMember ==
    \A vm : \A m : m \in Issued(vm) <=>
        \E s \in Instances(vm) : m \in 0 .. (VMs[s].memdev_counter - 1)
  BY DEF Issued

\* The same after a step.
LEMMA IssuedMemberNext ==
    \A vm : \A m : m \in Issued(vm)' <=>
        \E s \in Instances(vm)' : m \in 0 .. (VMs'[s].memdev_counter - 1)
  BY DEF Issued

\* A call that changes nothing changes no holdings.
LEMMA SameHoldings ==
    ASSUME NoneStarted, UNCHANGED mngrVars
    PROVE  NoneStarted' /\ UNCHANGED <<HeldOf, IssuedOf, Created>>
  <1>1. VMs' = VMs
    BY DEF mngrVars, tableVars
  <1>2. \A vm : Instances(vm)' = Instances(vm)
    BY <1>1 DEF Instances
  <1>3. \A vm : Held(vm)' = Held(vm) /\ Issued(vm)' = Issued(vm)
    BY <1>1, <1>2 DEF Held, Issued
  <1>. QED
    BY <1>1, <1>2, <1>3 DEF HeldOf, IssuedOf, Created, NoneStarted

\* What a call does to the holdings of one VM, the others keeping theirs.
Holds(vm, held, issued) ==
    /\ HeldOf'[vm] = held
    /\ IssuedOf'[vm] = issued
    /\ \A w \in VmId \ {vm} : /\ HeldOf'[w] = HeldOf[w]
                              /\ IssuedOf'[w] = IssuedOf[w]
                              /\ w \in Created' <=> w \in Created

\* What happens in the slot of one VM does not matter to the others.
LEMMA HoldingsOfOne ==
    ASSUME NEW vm \in VmId, NEW s, \A t \in Slot \ {s} : VMs'[t] = VMs[t],
           \A w \in VmId \ {vm} : Instances(w)' = Instances(w) /\ s \notin Instances(w),
           NEW held, Held(vm)' = held, NEW issued, Issued(vm)' = issued
    PROVE  Holds(vm, held, issued)
  <1>1. ASSUME NEW w \in VmId \ {vm}
        PROVE  Held(w)' = Held(w) /\ Issued(w)' = Issued(w) /\ (w \in Created' <=> w \in Created)
    <2>1. \A t \in Instances(w) : VMs'[t] = VMs[t]
      BY DEF Instances
    <2>2. \A m : m \in Held(w)' <=> m \in Held(w)
      BY <2>1, HeldMember, HeldMemberNext
    <2>3. \A m : m \in Issued(w)' <=> m \in Issued(w)
      BY <2>1, IssuedMember, IssuedMemberNext
    <2>. QED
      BY <2>2, <2>3 DEF Created
  <1>. QED
    BY <1>1 DEF Holds, HeldOf, IssuedOf

\* A VM that is not there holds nothing, and what a VM holds it was given.
LEMMA HoldingsIssued ==
    ASSUME TableInv, NEW vm \in VmId
    PROVE  /\ HeldOf[vm] \subseteq IssuedOf[vm]
           /\ vm \notin Created => HeldOf[vm] = {} /\ IssuedOf[vm] = {}
  <1>1. HeldOf[vm] = Held(vm) /\ IssuedOf[vm] = Issued(vm)
    BY DEF HeldOf, IssuedOf
  <1>2. ASSUME NEW s \in Instances(vm), NEW d \in VMs[s].attached_devs
        PROVE  d.memdev_idx \in 0 .. (VMs[s].memdev_counter - 1)
    <2>1. s \in Live
      BY DEF Instances, Live
    <2>2. VMs[s] \in VmInstance
      BY <2>1 DEF TableInv, ManagerInv, MngrInv, VmTypeOK, Live
    <2>3. d.memdev_idx \in Nat /\ VMs[s].memdev_counter \in Nat
      BY <2>2 DEF VmInstance, MemDev
    <2>4. d.memdev_idx < VMs[s].memdev_counter
      BY <2>1 DEF TableInv, DevicesNumbered
    <2>. QED
      BY <2>3, <2>4
  <1>3. \A m : m \in Held(vm) => m \in Issued(vm)
    BY <1>2, HeldMember, IssuedMember
  <1>4. vm \notin Created => Held(vm) = {} /\ Issued(vm) = {}
    BY DEF Created, Held, Issued
  <1>. QED
    BY <1>1, <1>3, <1>4

\* create-vm makes a VM that was not there, without memory.
LEMMA CreateHoldings ==
    ASSUME TableInv, NoneStarted, NEW vm \in VmId,
           vm_mngr_instance_create(vm, "cores", 0)
    PROVE  /\ TableInv' /\ NoneStarted'
           /\ vm \notin Created /\ vm \in Created'
           /\ Holds(vm, {}, {})
  <1>1. TableInv'
    BY CreateTableInv DEF CoreSet
  <1>2. PICK s \in Slot : /\ ~VMs[s].initialized /\ ~CreateRefused(vm)
                          /\ CreateIn(s, vm, "cores")
    <2>1. ~CreateRefused(vm)
      BY DEF vm_mngr_instance_create, Return
    <2>2. PICK s \in Slot : /\ FreeEntry(s)
                            /\ IF VMs[s].initialized THEN BUG_ON("slot_in_use")
                               ELSE CreateIn(s, vm, "cores")
      BY <2>1 DEF vm_mngr_instance_create
    <2>3. ~VMs[s].initialized
      BY <2>1, <2>2, FreeEntryIsFree DEF TableInv, ManagerInv
    <2>. QED
      BY <2>1, <2>2, <2>3
  <1>3. VMs \in [Slot -> VmInstance] /\ VMs[s] \in VmInstance
    BY DEF TableInv, ManagerInv, MngrInv, VmTypeOK
  <1>4. /\ VMs'[s].vm_id = vm /\ VMs'[s].initialized /\ VMs'[s].attached_devs = {}
        /\ VMs'[s].memdev_counter = 0 /\ VMs'[s].running = VMs[s].running
        /\ \A t \in Slot \ {s} : VMs'[t] = VMs[t]
    BY <1>2, <1>3 DEF CreateIn, VmInstance
  <1>5. Instances(vm) = {}
    BY <1>2 DEF CreateRefused
  <1>6. Instances(vm)' = {s}
    BY <1>4, <1>5 DEF Instances
  <1>7. \A w \in VmId \ {vm} : Instances(w)' = Instances(w) /\ s \notin Instances(w)
    BY <1>2, <1>4 DEF Instances
  <1>8. NoneStarted'
    BY <1>4 DEF NoneStarted
  <1>9. Held(vm)' = {}
    BY <1>4, <1>6 DEF Held
  <1>10. Issued(vm)' = {}
    <2>1. \A m : m \notin Issued(vm)'
      BY <1>4, <1>6, IssuedMemberNext
    <2>. QED
      BY <2>1
  <1>11. Holds(vm, {}, {})
    BY <1>4, <1>7, <1>9, <1>10, HoldingsOfOne
  <1>. QED
    BY <1>1, <1>5, <1>6, <1>8, <1>11 DEF Created

\* create-vm with an answer of -1 changed nothing.
LEMMA CreateFails ==
    ASSUME NEW vm, vm_mngr_instance_create(vm, "cores", -1)
    PROVE  UNCHANGED mngrVars
  BY DEF vm_mngr_instance_create, Return

\* The slot of a VM, and what it holds.
LEMMA SlotOf ==
    ASSUME TableInv, NEW s \in Live
    PROVE  /\ s \in Slot /\ VMs[s] \in VmInstance
           /\ VMs[s].vm_id \in Created
           /\ Instances(VMs[s].vm_id) = {s}
           /\ \A w : w # VMs[s].vm_id => s \notin Instances(w)
           /\ Held(VMs[s].vm_id) = {d.memdev_idx : d \in VMs[s].attached_devs}
  <1>1. s \in Slot /\ VMs[s] \in VmInstance
    BY DEF TableInv, ManagerInv, MngrInv, VmTypeOK, Live
  <1>2. Instances(VMs[s].vm_id) = {s}
    BY OneInstance DEF TableInv, ManagerInv, MngrInv
  <1>3. VMs[s].vm_id \in VmId
    BY DEF TableInv, DevicesNumbered
  <1>4. \A w : w # VMs[s].vm_id => s \notin Instances(w)
    BY DEF Instances
  <1>5. Held(VMs[s].vm_id) = {d.memdev_idx : d \in VMs[s].attached_devs}
    BY <1>2 DEF Held
  <1>. QED
    BY <1>1, <1>2, <1>3, <1>4, <1>5 DEF Created

\* An RPC that found no VM, or nothing to do, leaves all holdings as they are.
LEMMA HoldingsKept ==
    ASSUME TableInv, NoneStarted, NEW vm \in VmId, UNCHANGED mngrVars
    PROVE  /\ TableInv' /\ NoneStarted' /\ Created' = Created
           /\ Holds(vm, HeldOf[vm], IssuedOf[vm])
  BY SameHoldings, NothingChangesInv DEF Holds

\* destroy-vm: the VM is not started, so it goes, if it was there, with its memory.
LEMMA DestroyHoldings ==
    ASSUME TableInv, NoneStarted, NEW vm \in VmId, NEW ret,
           vm_mngr_instance_destroy(vm, ret)
    PROVE  /\ TableInv' /\ NoneStarted'
           /\ vm \notin Created'
           /\ Holds(vm, {}, {})
  <1>0. vm \in Nat
    BY VmIdAssumption
  <1>1. TableInv'
    BY <1>0, DestroyTableInv
  <1>2. CASE Instances(vm) = {}
    <2>1. UNCHANGED mngrVars /\ vm \notin Created
      BY <1>2 DEF vm_mngr_instance_destroy, vm_mngr_get_instance, Return, Created
    <2>. QED
      BY <2>1, HoldingsKept, HoldingsIssued
  <1>3. CASE Instances(vm) # {}
    <2>2. PICK s \in Slot : vm_mngr_get_instance(vm, s) /\ DestroyIn(s, vm)
      BY <1>3 DEF vm_mngr_instance_destroy, NoneStarted, Return
    <2>3. s \in Live /\ VMs[s].vm_id = vm
      BY <2>2, InstanceIsLive DEF TableInv, ManagerInv, MngrInv
    <2>4. VMs \in [Slot -> VmInstance] /\ VMs[s] \in VmInstance
      BY DEF TableInv, ManagerInv, MngrInv, VmTypeOK
    <2>5. /\ ~VMs'[s].initialized
          /\ VMs'[s].running = VMs[s].running
          /\ \A t \in Slot \ {s} : VMs'[t] = VMs[t]
      BY <2>2, <2>4 DEF DestroyIn, VmInstance
    <2>6. Instances(vm) = {s} /\ \A w : w # vm => s \notin Instances(w)
      BY <2>3, SlotOf
    <2>7. Instances(vm)' = {}
      BY <2>5, <2>6 DEF Instances
    <2>8. \A w \in VmId \ {vm} : Instances(w)' = Instances(w)
      BY <2>5, <2>6 DEF Instances
    <2>9. NoneStarted'
      BY <2>5 DEF NoneStarted
    <2>10. Held(vm)' = {} /\ Issued(vm)' = {} /\ vm \notin Created'
      BY <2>7 DEF Held, Issued, Created
    <2>11. Holds(vm, {}, {})
      BY <2>5, <2>6, <2>8, <2>10, HoldingsOfOne
    <2>. QED
      BY <1>1, <2>9, <2>10, <2>11
  <1>. QED
    BY <1>2, <1>3

\* alloc-mem that answers with 0: the VM is there and has one more device, with
\* an id it was never given before.
LEMMA AllocHoldings ==
    ASSUME TableInv, NoneStarted, NEW vm \in VmId, NEW nid,
           NEW size_mb \in Nat \ {0}, NEW malloc_ok \in BOOLEAN,
           vm_mngr_instance_alloc_mem(nid, vm, size_mb, malloc_ok, 0)
    PROVE  /\ TableInv' /\ NoneStarted'
           /\ vm \in Created /\ vm \in Created'
           /\ NewMemid(vm) \in Id \ IssuedOf[vm]
           /\ Holds(vm, HeldOf[vm] \cup {NewMemid(vm)}, IssuedOf[vm] \cup {NewMemid(vm)})
  <1>0. Instances(vm) # {}
    BY DEF vm_mngr_instance_alloc_mem, vm_mngr_get_instance, Return
  <1>1. TableInv'
    BY AllocTableInv
  <1>2. PICK s \in Live : /\ VMs[s].vm_id = vm
                          /\ \E start \in Index(nid) : AllocIn(s, nid, vm, size_mb, start)
    <2>1. ~AllocateAsserts(nid, size_mb)
      BY DEF AllocateAsserts
    <2>2. PICK s \in Slot : /\ vm_mngr_get_instance(vm, s)
                            /\ \E start \in Index(nid) :
                                  AllocIn(s, nid, vm, size_mb, start)
      BY <1>0, <2>1 DEF vm_mngr_instance_alloc_mem, Return
    <2>. QED
      BY <2>2, InstanceIsLive DEF TableInv, ManagerInv, MngrInv
  <1>3. PICK start \in Index(nid) : AllocIn(s, nid, vm, size_mb, start)
    BY <1>2
  <1> DEFINE m == VMs[s].memdev_counter
  <1>4. /\ m \in Nat /\ m < MaxMemdev /\ VMs'[s].memdev_counter = m + 1
        /\ VMs'[s].attached_devs = VMs[s].attached_devs
              \cup {NewMemDev(s, nid, start, NumSegments(size_mb))}
        /\ \A t \in Slot \ {s} : VMs'[t] = VMs[t]
        /\ \A v : Instances(v)' = Instances(v)
    BY <1>2, <1>3, AllocSlot DEF TableInv, ManagerInv, MngrInv
  <1>5. /\ Instances(vm) = {s}
        /\ \A w : w # vm => s \notin Instances(w)
        /\ s \in Slot
    BY <1>2, SlotOf
  <1>6. NewMemid(vm) = m
    BY <1>5 DEF NewMemid
  <1>7. m \notin Issued(vm)
    <2>1. m \notin 0 .. (m - 1)
      BY <1>4
    <2>. QED
      BY <1>5, <2>1, IssuedMember
  <1>8. Held(vm)' = Held(vm) \cup {m}
    <2>1. NewMemDev(s, nid, start, NumSegments(size_mb)).memdev_idx = m
      BY DEF NewMemDev
    <2>2. \A x : x \in Held(vm)' <=> x \in Held(vm) \cup {m}
      BY <1>4, <1>5, <2>1, HeldMember, HeldMemberNext
    <2>. QED
      BY <2>2
  <1>9. Issued(vm)' = Issued(vm) \cup {m}
    <2>1. 0 .. ((m + 1) - 1) = (0 .. (m - 1)) \cup {m}
      BY <1>4
    <2>2. \A x : x \in Issued(vm)' <=> x \in Issued(vm) \cup {m}
      BY <1>4, <1>5, <2>1, IssuedMember, IssuedMemberNext
    <2>. QED
      BY <2>2
  <1>10. Holds(vm, Held(vm) \cup {m}, Issued(vm) \cup {m})
    BY <1>4, <1>5, <1>8, <1>9, HoldingsOfOne
  <1>11. NoneStarted'
    <2>1. VMs'[s].running = VMs[s].running
      BY <1>3, <1>5 DEF AllocIn, TableInv, ManagerInv, MngrInv, VmTypeOK, VmInstance
    <2>. QED
      BY <2>1, <1>4 DEF NoneStarted
  <1>12. m \in Id
    BY <1>4, MaxMemdevAssumption DEF Id
  <1>13. HeldOf[vm] = Held(vm) /\ IssuedOf[vm] = Issued(vm)
    BY DEF HeldOf, IssuedOf
  <1>14. vm \in Created /\ vm \in Created'
    BY <1>0, <1>4 DEF Created
  <1>. QED
    BY <1>1, <1>6, <1>7, <1>10, <1>11, <1>12, <1>13, <1>14

\* alloc-mem with an answer of -1 changed nothing.
LEMMA AllocMemFails ==
    ASSUME NEW nid, NEW vm, NEW size_mb, NEW malloc_ok,
           vm_mngr_instance_alloc_mem(nid, vm, size_mb, malloc_ok, -1)
    PROVE  UNCHANGED mngrVars
  BY DEF vm_mngr_instance_alloc_mem, Return

\* free-mem, whatever the answer: the device is gone afterwards.
LEMMA FreeHoldings ==
    ASSUME TableInv, NoneStarted, NEW vm \in VmId, NEW m, NEW ret,
           vm_mngr_instance_free_mem(vm, m, ret)
    PROVE  /\ TableInv' /\ NoneStarted'
           /\ vm \in Created' <=> vm \in Created
           /\ Holds(vm, HeldOf[vm] \ {m}, IssuedOf[vm])
  <1>0. HeldOf[vm] = Held(vm) /\ IssuedOf[vm] = Issued(vm)
    BY DEF HeldOf, IssuedOf
  <1>1. CASE UNCHANGED mngrVars /\ m \notin HeldOf[vm]
    <2>1. HeldOf[vm] \ {m} = HeldOf[vm]
      BY <1>1
    <2>. QED
      BY <1>1, <2>1, HoldingsKept
  <1>2. CASE \E s \in Slot : /\ vm_mngr_get_instance(vm, s)
                            /\ \E d \in VMs[s].attached_devs :
                                  d.memdev_idx = m /\ FreeIn(s, d, vm, ret)
    <2>1. PICK s \in Slot : /\ vm_mngr_get_instance(vm, s)
                            /\ \E d \in VMs[s].attached_devs :
                                  d.memdev_idx = m /\ FreeIn(s, d, vm, ret)
      BY <1>2
    <2>2. s \in Live /\ VMs[s].vm_id = vm
      BY <2>1, InstanceIsLive DEF TableInv, ManagerInv, MngrInv
    <2>3. /\ Instances(vm) = {s}
          /\ \A w : w # vm => s \notin Instances(w)
      BY <2>2, SlotOf
    <2>4. PICK d \in VMs[s].attached_devs : d.memdev_idx = m /\ FreeIn(s, d, vm, ret)
      BY <2>1
    <2>5. /\ VMs'[s].attached_devs = VMs[s].attached_devs \ {d}
          /\ VMs'[s].memdev_counter = VMs[s].memdev_counter
          /\ \A t \in Slot \ {s} : VMs'[t] = VMs[t]
          /\ \A v : Instances(v)' = Instances(v)
          /\ ret = 0
      BY <2>2, <2>4, FreeSlot DEF TableInv, ManagerInv, MngrInv
    <2>6. \A e \in VMs[s].attached_devs : e.memdev_idx = m => e = d
      BY <2>2, <2>4 DEF TableInv, DevicesNumbered
    <2>7. Held(vm)' = Held(vm) \ {m}
      <3>1. \A x : x \in Held(vm)' <=> x \in Held(vm) \ {m}
        BY <2>3, <2>4, <2>5, <2>6, HeldMember, HeldMemberNext
      <3>. QED
        BY <3>1
    <2>8. Issued(vm)' = Issued(vm)
      <3>1. \A x : x \in Issued(vm)' <=> x \in Issued(vm)
        BY <2>3, <2>5, IssuedMember, IssuedMemberNext
      <3>. QED
        BY <3>1
    <2>9. Holds(vm, Held(vm) \ {m}, Issued(vm))
      BY <2>3, <2>5, <2>7, <2>8, HoldingsOfOne
    <2>10. NoneStarted'
      <3>1. VMs'[s].running = VMs[s].running
        BY <2>4, <2>5 DEF FreeIn, AfterFree, TableInv, ManagerInv, MngrInv, VmTypeOK,
           VmInstance
      <3>. QED
        BY <2>5, <3>1 DEF NoneStarted
    <2>11. TableInv'
      BY FreeTableInv
    <2>12. vm \in Created' <=> vm \in Created
      BY <2>5 DEF Created
    <2>. QED
      BY <1>0, <2>9, <2>10, <2>11, <2>12
  <1>3. \/ UNCHANGED mngrVars /\ m \notin HeldOf[vm]
        \/ \E s \in Slot : /\ vm_mngr_get_instance(vm, s)
                          /\ \E d \in VMs[s].attached_devs :
                                d.memdev_idx = m /\ FreeIn(s, d, vm, ret)
    <2>1. CASE Instances(vm) = {} /\ UNCHANGED mngrVars
      BY <1>0, <2>1, HeldMember
    <2>2. CASE /\ UNCHANGED mngrVars
               /\ \E s \in Slot : /\ vm_mngr_get_instance(vm, s)
                                 /\ \A d \in VMs[s].attached_devs : d.memdev_idx # m
      <3>1. PICK s \in Slot : /\ vm_mngr_get_instance(vm, s)
                              /\ \A d \in VMs[s].attached_devs : d.memdev_idx # m
        BY <2>2
      <3>2. Instances(vm) = {s}
        BY <3>1, InstanceIsLive, SlotOf DEF TableInv, ManagerInv, MngrInv
      <3>3. m \notin HeldOf[vm]
        BY <1>0, <3>1, <3>2, HeldMember
      <3>. QED
        BY <2>2, <3>3
    <2>. QED
      BY <2>1, <2>2 DEF vm_mngr_instance_free_mem, Return
  <1>. QED
    BY <1>1, <1>2, <1>3

-----------------------------------------------------------------------------
(* The choice of an id and of channels *)

\* However get-vms is cut, select_vmid finds a number that is not on the list:
\* there is one among the first as many numbers as there are VMs, and one more.
LEMMA SelectVmidNat ==
    ASSUME VmTypeOK, NEW listed \in SUBSET Slot
    PROVE  select_vmid(listed) \in Nat
  <1> DEFINE used == {VMs[s].vm_id : s \in listed} \cup Taken
             N == Cardinality(used)
             T == {id \in 0 .. N : id \notin used}
  <1>1. IsFiniteSet({VMs[s].vm_id : s \in listed})
    BY IdsFinite
  <1>2. IsFiniteSet(used) /\ N \in Nat
    BY <1>1, TakenAssumption, FS_Union, FS_CardinalityType
  <1>3. T # {}
    <2>. SUFFICES ASSUME T = {} PROVE FALSE
      OBVIOUS
    <2>1. 0 .. N \subseteq used
      OBVIOUS
    <2> HIDE DEF used, N, T
    <2>2. IsFiniteSet(0 .. N) /\ Cardinality(0 .. N) = N + 1
      BY <1>2, FS_Interval
    <2>3. Cardinality(0 .. N) <= Cardinality(used)
      BY <1>2, <2>1, FS_Subset
    <2>. QED
      BY <1>2, <2>2, <2>3 DEF N
  <1>4. \E id \in 0 .. N : id \notin used /\ 0 .. (id - 1) \subseteq used
    <2>1. T \in SUBSET Nat
      BY <1>2
    <2> HIDE DEF T
    <2>2. PICK x \in T : \A y \in T : x <= y
      BY <1>3, <2>1, LeastNat
    <2> USE DEF T
    <2> HIDE DEF used, N
    <2>3. x \in 0 .. N /\ x \notin used
      BY DEF T
    <2>4. ASSUME NEW i \in 0 .. (x - 1) PROVE i \in used
      BY <1>2, <2>2, <2>3, <2>4
    <2>. QED
      BY <2>3, <2>4
  <1>5. select_vmid(listed) \in 0 .. N
    BY <1>4, Zenon DEF select_vmid
  <1>. QED
    BY <1>2, <1>5

-----------------------------------------------------------------------------
(* The choice of channels.  A strict order on a finite set gives one         *)
(* sequence of its elements (InOrderSorted), which is what the sorts of the  *)
(* script are; the loop over the sizes then takes the nodes in the order of  *)
(* their room (PickPicks), so that a plan exists if the k-th roomiest node   *)
(* has room for the k-th largest size (Fits).  If it has not, there are k    *)
(* sizes and fewer than k nodes with room for one of them (PlaceableFits).   *)

\* Every channel of a request gets something.
LEMMA SplitMemory ==
    ASSUME NEW total_mb \in Nat, NEW channels \in Nat \ {0}, total_mb >= channels
    PROVE  /\ split_memory(total_mb, channels) \in Seq(Nat \ {0})
           /\ Len(split_memory(total_mb, channels)) = channels
  <1>1. total_mb \div channels \in Nat \ {0}
    OBVIOUS
  <1> DEFINE q == total_mb \div channels
             r == total_mb % channels
  <1>2. \A i \in 1 .. channels : q + (IF i <= r THEN 1 ELSE 0) \in Nat \ {0}
    <2> HIDE DEF q
    <2>. QED
      BY <1>1 DEF q
  <1>3. split_memory(total_mb, channels) = [i \in 1 .. channels |-> q + (IF i <= r THEN 1 ELSE 0)]
    BY DEF split_memory
  <1> HIDE DEF q, r
  <1>4. split_memory(total_mb, channels) \in [1 .. channels -> Nat \ {0}]
    BY <1>2, <1>3
  <1> HIDE DEF split_memory
  <1>. QED
    BY <1>4

\* The set before is a strict order in which any two elements of S compare.
Orders(before, S) ==
    /\ \A a \in S : <<a, a>> \notin before
    /\ \A a, b \in S : a # b => <<a, b>> \in before \/ <<b, a>> \in before
    /\ \A a, b, c \in S : <<a, b>> \in before /\ <<b, c>> \in before => <<a, c>> \in before

\* The sequence s of n elements is in the order of before.
Sorted(s, n, before) == \A i, j \in 1 .. n : i < j => <<s[i], s[j]>> \in before

\* One more element fits into a sequence in order, in front of the first element
\* that it comes before.
LEMMA Insertion ==
    ASSUME NEW n \in Nat, NEW S, NEW x \in S, NEW before, Orders(before, S),
           NEW s \in [1 .. n -> S \ {x}], Sorted(s, n, before)
    PROVE  \E t \in [1 .. (n + 1) -> S] : Sorted(t, n + 1, before)
  <1> DEFINE T == {i \in 1 .. (n + 1) : i = n + 1 \/ <<x, s[i]>> \in before}
  <1>1. PICK k \in T : \A i \in T : k <= i
    <2>1. T \in SUBSET Nat /\ n + 1 \in T
      OBVIOUS
    <2> HIDE DEF T
    <2>. QED
      BY <2>1, LeastNat
  <1>2. k \in 1 .. (n + 1) /\ (k = n + 1 \/ <<x, s[k]>> \in before)
    OBVIOUS
  <1>3. ASSUME NEW i \in 1 .. n, i < k PROVE <<s[i], x>> \in before
    <2>1. i \notin T
      BY <1>1, <1>2, <1>3
    <2>2. <<x, s[i]>> \notin before /\ s[i] \in S /\ s[i] # x
      BY <2>1
    <2>. QED
      BY <2>2 DEF Orders
  <1>4. ASSUME NEW i \in 1 .. n, i >= k PROVE <<x, s[i]>> \in before
    <2>1. k \in 1 .. n /\ <<x, s[k]>> \in before
      BY <1>2, <1>4
    <2>2. CASE i = k
      BY <2>1, <2>2
    <2>3. CASE i # k
      <3>1. k < i
        BY <1>2, <1>4, <2>3
      <3>2. <<s[k], s[i]>> \in before
        BY <2>1, <3>1 DEF Sorted
      <3>3. s[k] \in S /\ s[i] \in S
        BY <2>1
      <3>. QED
        BY <2>1, <3>2, <3>3 DEF Orders
    <2>. QED
      BY <2>2, <2>3
  <1> DEFINE t == [i \in 1 .. (n + 1) |->
                      IF i < k THEN s[i] ELSE IF i = k THEN x ELSE s[i - 1]]
  <1>5. t \in [1 .. (n + 1) -> S]
    BY <1>2
  <1>6. ASSUME NEW i \in 1 .. (n + 1), NEW j \in 1 .. (n + 1), i < j
        PROVE  <<t[i], t[j]>> \in before
    <2>1. CASE j < k
      <3>1. i \in 1 .. n /\ j \in 1 .. n /\ t[i] = s[i] /\ t[j] = s[j]
        BY <1>2, <1>6, <2>1
      <3>. QED
        BY <3>1, <1>6 DEF Sorted
    <2>2. CASE j = k
      <3>1. i \in 1 .. n /\ i < k /\ t[i] = s[i] /\ t[j] = x
        BY <1>2, <1>6, <2>2
      <3>. QED
        BY <3>1, <1>3
    <2>3. CASE j > k /\ i = k
      <3>1. j - 1 \in 1 .. n /\ j - 1 >= k /\ t[i] = x /\ t[j] = s[j - 1]
        BY <1>2, <1>6, <2>3
      <3>. QED
        BY <3>1, <1>4
    <2>4. CASE j > k /\ i > k
      <3>1. /\ j - 1 \in 1 .. n /\ i - 1 \in 1 .. n /\ i - 1 < j - 1
            /\ t[i] = s[i - 1] /\ t[j] = s[j - 1]
        BY <1>2, <1>6, <2>4
      <3>. QED
        BY <3>1 DEF Sorted
    <2>5. CASE j > k /\ i < k
      <3>1. /\ j - 1 \in 1 .. n /\ j - 1 >= k /\ i \in 1 .. n
            /\ t[i] = s[i] /\ t[j] = s[j - 1]
        BY <1>2, <1>6, <2>5
      <3>2. <<s[i], x>> \in before /\ <<x, s[j - 1]>> \in before
        BY <3>1, <2>5, <1>3, <1>4
      <3>3. s[i] \in S /\ s[j - 1] \in S
        BY <3>1
      <3>. QED
        BY <3>1, <3>2, <3>3 DEF Orders
    <2>. QED
      BY <1>2, <1>6, <2>1, <2>2, <2>3, <2>4, <2>5
  <1> HIDE DEF t
  <1>. QED
    BY <1>5, <1>6 DEF Sorted

\* Every finite set can be written down in order.
LEMMA SequenceInOrder ==
    ASSUME NEW S, IsFiniteSet(S), NEW before, Orders(before, S)
    PROVE  \E s \in [1 .. Cardinality(S) -> S] : Sorted(s, Cardinality(S), before)
  <1> DEFINE Fails(n) == \E U \in SUBSET S :
                            /\ Cardinality(U) = n
                            /\ ~ \E s \in [1 .. n -> U] : Sorted(s, n, before)
             T == {n \in Nat : Fails(n)}
  <1>1. SUFFICES ASSUME ~ \E s \in [1 .. Cardinality(S) -> S] : Sorted(s, Cardinality(S), before)
                 PROVE  FALSE
    OBVIOUS
  <1>2. T # {}
    <2>1. Cardinality(S) \in Nat
      BY FS_CardinalityType
    <2>2. Fails(Cardinality(S))
      BY <1>1
    <2>. QED
      BY <2>1, <2>2
  <1>3. PICK n \in T : \A m \in T : n <= m
    <2>1. T \in SUBSET Nat
      OBVIOUS
    <2> HIDE DEF T
    <2>. QED
      BY <1>2, <2>1, LeastNat
  <1>4. n \in Nat /\ Fails(n)
    OBVIOUS
  <1>5. PICK U \in SUBSET S : /\ Cardinality(U) = n
                              /\ ~ \E s \in [1 .. n -> U] : Sorted(s, n, before)
    BY <1>4
  <1>6. IsFiniteSet(U) /\ Orders(before, U)
    BY FS_Subset DEF Orders
  <1>7. n # 0
    <2>1. CASE n = 0
      <3>1. [i \in 1 .. n |-> i] \in [1 .. n -> U]
        BY <2>1
      <3>2. Sorted([i \in 1 .. n |-> i], n, before)
        BY <2>1 DEF Sorted
      <3>. QED
        BY <3>1, <3>2, <1>5
    <2>. QED
      BY <2>1
  <1>8. PICK x : x \in U
    BY <1>5, <1>6, <1>7, FS_EmptySet
  <1>9. Cardinality(U \ {x}) = n - 1 /\ n - 1 \in Nat
    BY <1>4, <1>5, <1>6, <1>7, <1>8, FS_RemoveElement
  <1>10. \E s \in [1 .. (n - 1) -> U \ {x}] : Sorted(s, n - 1, before)
    <2>1. n - 1 \notin T
      BY <1>3, <1>4, <1>9
    <2>2. ~Fails(n - 1)
      BY <1>9, <2>1
    <2>. QED
      BY <1>9, <2>2
  <1>11. PICK s \in [1 .. (n - 1) -> U \ {x}] : Sorted(s, n - 1, before)
    BY <1>10
  <1>12. \E t \in [1 .. ((n - 1) + 1) -> U] : Sorted(t, (n - 1) + 1, before)
    <2>1. n - 1 \in Nat
      BY <1>9
    <2>. QED
      BY <1>6, <1>8, <1>11, <2>1, Insertion
  <1>13. (n - 1) + 1 = n
    BY <1>4
  <1>. QED
    BY <1>5, <1>12, <1>13

\* InOrder is such a sequence, and has every element once.
LEMMA InOrderSorted ==
    ASSUME NEW S, IsFiniteSet(S), NEW before, Orders(before, S)
    PROVE  /\ Cardinality(S) \in Nat
           /\ InOrder(S, before) \in Bijection(1 .. Cardinality(S), S)
           /\ Sorted(InOrder(S, before), Cardinality(S), before)
  <1> DEFINE s == InOrder(S, before)
             n == Cardinality(S)
  <1>1. n \in Nat
    BY FS_CardinalityType
  <1>2. s \in [1 .. n -> S] /\ Sorted(s, n, before)
    BY SequenceInOrder DEF InOrder, Sorted
  <1>3. Cardinality(1 .. n) = n
    BY <1>1, FS_Interval
  <1> HIDE DEF s, n
  <1>4. s \in Injection(1 .. n, S)
    <2>1. ASSUME NEW i \in 1 .. n, NEW j \in 1 .. n, i < j, s[i] = s[j] PROVE FALSE
      <3>1. <<s[i], s[j]>> \in before /\ s[i] \in S
        BY <1>2, <2>1 DEF Sorted
      <3>. QED
        BY <2>1, <3>1 DEF Orders
    <2>2. \A i, j \in 1 .. n : s[i] = s[j] => i = j
      BY <1>1, <2>1
    <2>. QED
      BY <1>2, <2>2 DEF Injection, IsInjective
  <1>5. s \in Surjection(1 .. n, S)
    <2>1. Cardinality(S) = n
      BY DEF n
    <2>. QED
      BY <1>3, <1>4, <2>1, FS_Injection
  <1>. QED
    BY <1>1, <1>2, <1>4, <1>5 DEF Bijection, s, n

\* The stable sort by value puts no smaller value in front of a larger one.
LEMMA LargestFirstSorted ==
    ASSUME NEW keys \in SUBSET Int, IsFiniteSet(keys),
           NEW value, \A m \in keys : value[m] \in Int
    PROVE  /\ Cardinality(keys) \in Nat
           /\ LargestFirst(keys, value) \in Bijection(1 .. Cardinality(keys), keys)
           /\ \A i, j \in 1 .. Cardinality(keys) :
                 i < j => value[LargestFirst(keys, value)[i]] >= value[LargestFirst(keys, value)[j]]
  <1> DEFINE before == {p \in keys \X keys : \/ value[p[1]] > value[p[2]]
                                             \/ value[p[1]] = value[p[2]] /\ p[1] < p[2]}
             s == LargestFirst(keys, value)
             n == Cardinality(keys)
  <1>1. ASSUME NEW a \in keys, NEW b \in keys
        PROVE  <<a, b>> \in before <=> \/ value[a] > value[b]
                                       \/ value[a] = value[b] /\ a < b
    OBVIOUS
  <1>2. s = InOrder(keys, before)
    BY DEF LargestFirst
  <1> HIDE DEF before, s, n
  <1>3. Orders(before, keys)
    <2>1. ASSUME NEW a \in keys PROVE <<a, a>> \notin before
      BY <1>1
    <2>2. ASSUME NEW a \in keys, NEW b \in keys, a # b
          PROVE  <<a, b>> \in before \/ <<b, a>> \in before
      BY <1>1, <2>2
    <2>3. ASSUME NEW a \in keys, NEW b \in keys, NEW c \in keys,
                 <<a, b>> \in before, <<b, c>> \in before
          PROVE  <<a, c>> \in before
      BY <1>1, <2>3
    <2>. QED
      BY <2>1, <2>2, <2>3 DEF Orders
  <1>4. n \in Nat /\ s \in Bijection(1 .. n, keys) /\ Sorted(s, n, before)
    BY <1>2, <1>3, InOrderSorted DEF n
  <1>5. ASSUME NEW i \in 1 .. n, NEW j \in 1 .. n, i < j
        PROVE  value[s[i]] >= value[s[j]]
    <2>1. <<s[i], s[j]>> \in before
      BY <1>4, <1>5 DEF Sorted
    <2>2. s[i] \in keys /\ s[j] \in keys
      BY <1>4 DEF Bijection, Injection
    <2>3. \/ value[s[i]] > value[s[j]]
          \/ value[s[i]] = value[s[j]] /\ s[i] < s[j]
      BY <1>1, <2>1, <2>2, Zenon
    <2>4. value[s[i]] \in Int /\ value[s[j]] \in Int
      BY <2>2
    <2>. QED
      BY <2>3, <2>4
  <1>. QED
    BY <1>4, <1>5 DEF s, n

\* No element of s is larger than one in front of it.
Falling(s) == \A i, j \in 1 .. Len(s) : i < j => s[i] >= s[j]

\* The elements of s, in another order.
IsRearrangement(d, s) ==
    \E p \in Bijection(1 .. Len(s), 1 .. Len(s)) : \A k \in 1 .. Len(s) : d[k] = s[p[k]]

\* sorted(sizes, reverse=True) has the same sizes, the large ones first.
LEMMA DescendingSorted ==
    ASSUME NEW X \in SUBSET Int, NEW sizes \in Seq(X)
    PROVE  /\ Descending(sizes) \in Seq(X)
           /\ Len(Descending(sizes)) = Len(sizes)
           /\ Falling(Descending(sizes))
           /\ IsRearrangement(Descending(sizes), sizes)
  <1> DEFINE n == Len(sizes)
             order == LargestFirst(1 .. n, sizes)
             d == Descending(sizes)
  <1>1. n \in Nat /\ DOMAIN sizes = 1 .. n /\ \A i \in 1 .. n : sizes[i] \in X
    OBVIOUS
  <1> HIDE DEF n
  <1>2. IsFiniteSet(1 .. n) /\ Cardinality(1 .. n) = n
    BY <1>1, FS_Interval
  <1>3. /\ order \in Bijection(1 .. n, 1 .. n)
        /\ \A i, j \in 1 .. n : i < j => sizes[order[i]] >= sizes[order[j]]
    <2>1. 1 .. n \in SUBSET Int
      BY <1>1
    <2>2. \A x \in X : x \in Int
      BY Zenon
    <2>3. \A m \in 1 .. n : sizes[m] \in Int
      BY <1>1, <2>2, Zenon
    <2>. QED
      BY <1>2, <2>1, <2>3, LargestFirstSorted
  <1>4. d = [k \in 1 .. n |-> sizes[order[k]]]
    BY <1>1 DEF Descending
  <1> HIDE DEF order, d
  <1>5. \A k \in 1 .. n : order[k] \in 1 .. n
    BY <1>3 DEF Bijection, Injection
  <1>6. d \in [1 .. n -> X]
    BY <1>1, <1>4, <1>5
  <1>7. d \in Seq(X) /\ Len(d) = n
    BY <1>1, <1>6
  <1>8. Falling(d)
    BY <1>3, <1>4, <1>7 DEF Falling
  <1>9. IsRearrangement(d, sizes)
    BY <1>3, <1>4 DEF IsRearrangement, n
  <1>. QED
    BY <1>7, <1>8, <1>9 DEF d, n

\* The nodes picked before and after each size, as the loop computes them.
PickRun(f, order, free, sizes) ==
    f = [k \in 0 .. Len(sizes) |->
            IF k = 0 THEN <<>> ELSE PickNext(order, free, sizes, f[k - 1], k)]

\* The loop of the greedy choice is what its recursive definition says.
LEMMA PickLoop ==
    ASSUME NEW order, NEW free, NEW sizes, Len(sizes) \in Nat
    PROVE  \E f : PickRun(f, order, free, sizes) /\ Pick(order, free, sizes) = f[Len(sizes)]
  <1> DEFINE n == Len(sizes)
             Loop(m) == \E f : f = [k \in 0 .. m |->
                                       IF k = 0 THEN <<>>
                                       ELSE PickNext(order, free, sizes, f[k - 1], k)]
             T == {m \in Nat : ~Loop(m)}
  <1>1. T = {}
    <2>1. SUFFICES ASSUME T # {} PROVE FALSE
      OBVIOUS
    <2>2. PICK m \in T : \A i \in T : m <= i
      <3>1. T \in SUBSET Nat
        OBVIOUS
      <3> HIDE DEF T
      <3>. QED
        BY <2>1, <3>1, LeastNat
    <2>3. m \in Nat /\ ~Loop(m)
      OBVIOUS
    <2>4. m # 0
      <3>1. ASSUME m = 0 PROVE FALSE
        <4> DEFINE f == [k \in 0 .. 0 |-> <<>>]
        <4>1. f = [k \in 0 .. 0 |-> IF k = 0 THEN <<>>
                                    ELSE PickNext(order, free, sizes, f[k - 1], k)]
          OBVIOUS
        <4> HIDE DEF f
        <4>. QED
          BY <2>3, <3>1, <4>1
      <3>. QED
        BY <3>1
    <2>5. Loop(m - 1)
      <3>1. m - 1 \in Nat /\ ~(m <= m - 1)
        BY <2>3, <2>4
      <3>2. m - 1 \notin T
        BY <2>2, <3>1
      <3>. QED
        BY <3>1, <3>2
    <2>6. PICK f : f = [k \in 0 .. (m - 1) |->
                           IF k = 0 THEN <<>>
                           ELSE PickNext(order, free, sizes, f[k - 1], k)]
      BY <2>5
    <2> DEFINE g == [k \in 0 .. m |-> IF k < m THEN f[k]
                                      ELSE PickNext(order, free, sizes, f[m - 1], m)]
    <2>7. ASSUME NEW k \in 0 .. m
          PROVE  g[k] = IF k = 0 THEN <<>>
                        ELSE PickNext(order, free, sizes, g[k - 1], k)
      <3>1. CASE k = 0
        <4>1. g[k] = f[0] /\ 0 \in 0 .. (m - 1)
          BY <2>3, <2>4, <3>1
        <4>2. f[0] = <<>>
          BY <2>6, <4>1
        <4>. QED
          BY <3>1, <4>1, <4>2
      <3>2. CASE k # 0 /\ k < m
        <4>1. k \in 0 .. (m - 1) /\ g[k] = f[k] /\ g[k - 1] = f[k - 1]
          BY <2>3, <2>7, <3>2
        <4>2. f[k] = PickNext(order, free, sizes, f[k - 1], k)
          BY <2>6, <3>2, <4>1
        <4>. QED
          BY <3>2, <4>1, <4>2
      <3>3. CASE k = m
        <4>1. g[k] = PickNext(order, free, sizes, f[m - 1], m) /\ g[k - 1] = f[m - 1]
          BY <2>3, <2>4, <3>3
        <4>. QED
          BY <2>4, <3>3, <4>1
      <3>. QED
        BY <2>3, <2>7, <3>1, <3>2, <3>3
    <2>8. g = [k \in 0 .. m |-> IF k = 0 THEN <<>>
                                ELSE PickNext(order, free, sizes, g[k - 1], k)]
      <3>1. g = [k \in 0 .. m |-> g[k]]
        OBVIOUS
      <3> HIDE DEF g
      <3>. QED
        BY <2>7, <3>1
    <2> HIDE DEF g
    <2>. QED
      BY <2>3, <2>8
  <1>2. Loop(n)
    BY <1>1
  <1> DEFINE F == CHOOSE f : f = [k \in 0 .. n |->
                                     IF k = 0 THEN <<>>
                                     ELSE PickNext(order, free, sizes, f[k - 1], k)]
  <1>3. F = [k \in 0 .. n |-> IF k = 0 THEN <<>>
                              ELSE PickNext(order, free, sizes, F[k - 1], k)]
    BY <1>2, Zenon
  <1>4. Pick(order, free, sizes) = F[n]
    BY Zenon DEF Pick
  <1> HIDE DEF F
  <1>5. PickRun(F, order, free, sizes)
    BY <1>3, Zenon DEF PickRun
  <1>. QED
    BY <1>4, <1>5

\* The nodes picked for the first k sizes are the first r of the order.  There is
\* room on them, and there are fewer than k only if the next one has too little.
Picked(order, m, free, sizes, k, s) ==
    \E r \in 0 .. k :
        /\ r <= m
        /\ s = [i \in 1 .. r |-> order[i]]
        /\ \A i \in 1 .. r : free[order[i]] >= sizes[i]
        /\ r < k => r = m \/ free[order[r + 1]] < sizes[r + 1]

\* If no node has more room than one in front of it, the first that is not picked
\* is the only one worth trying.
LEMMA PickedNext ==
    ASSUME NEW m \in Nat, NEW nodes, NEW order \in Bijection(1 .. m, nodes),
           NEW free, \A x \in nodes : free[x] \in Int,
           \A i, j \in 1 .. m : i < j => free[order[i]] >= free[order[j]],
           NEW sizes, NEW k \in Nat \ {0}, sizes[k] \in Int,
           NEW s, Picked(order, m, free, sizes, k - 1, s)
    PROVE  Picked(order, m, free, sizes, k, PickNext(order, free, sizes, s, k))
  <1>1. PICK r \in 0 .. (k - 1) :
           /\ r <= m
           /\ s = [i \in 1 .. r |-> order[i]]
           /\ \A i \in 1 .. r : free[order[i]] >= sizes[i]
           /\ r < k - 1 => r = m \/ free[order[r + 1]] < sizes[r + 1]
    BY DEF Picked
  <1> DEFINE fit == {j \in DOMAIN order : order[j] \notin Range(s) /\ free[order[j]] >= sizes[k]}
             next == PickNext(order, free, sizes, s, k)
  <1>2. next = IF Len(s) < k - 1 \/ fit = {} THEN s ELSE Append(s, order[Min(fit)])
    BY DEF PickNext
  <1>3. r \in Nat /\ Len(s) = r
    BY <1>1
  <1>4. DOMAIN order = 1 .. m /\ \A j \in 1 .. m : order[j] \in nodes
    BY DEF Bijection, Injection
  <1>5. \A i, j \in 1 .. m : order[i] = order[j] => i = j
    BY DEF Bijection, Injection, IsInjective
  <1>6. \A j \in fit : j \in 1 .. m /\ j > r /\ free[order[j]] >= sizes[k]
    <2>1. ASSUME NEW j \in 1 .. r PROVE order[j] \in Range(s)
      BY <1>1, <1>3, <2>1 DEF Range
    <2>. QED
      BY <1>3, <1>4, <2>1
  <1>7. ASSUME NEW j \in 1 .. m, j > r, free[order[j]] >= sizes[k] PROVE j \in fit
    <2>1. order[j] \notin Range(s)
      <3>1. Range(s) = {order[i] : i \in 1 .. r}
        BY <1>1 DEF Range
      <3>2. \A i \in 1 .. r : i \in 1 .. m /\ i # j
        BY <1>1, <1>3, <1>7
      <3>. QED
        BY <1>5, <3>1, <3>2
    <2>. QED
      BY <1>4, <1>7, <2>1
  <1> HIDE DEF fit, next
  <1>8. CASE r < k - 1
    <2>1. next = s
      BY <1>2, <1>3, <1>8
    <2>2. r \in 0 .. k /\ r < k
      BY <1>8
    <2>3. r = m \/ free[order[r + 1]] < sizes[r + 1]
      BY <1>1, <1>8
    <2>4. Picked(order, m, free, sizes, k, next)
      BY <1>1, <2>1, <2>2, <2>3 DEF Picked
    <2>. QED
      BY <2>4 DEF next
  <1>9. CASE r = k - 1 /\ r < m /\ free[order[k]] >= sizes[k]
    <2>1. k = r + 1 /\ k \in 1 .. m /\ k \in fit
      BY <1>3, <1>7, <1>9
    <2>2. \A j \in fit : j \in 1 .. m /\ j >= k
      BY <1>3, <1>6, <2>1
    <2>3. Min(fit) = k
      <3>1. \A x \in fit : (\A y \in fit : x =< y) => x = k
        BY <2>1, <2>2
      <3>2. \E x \in fit : \A y \in fit : x =< y
        BY <2>1, <2>2
      <3>. QED
        BY <3>1, <3>2 DEF Min
    <2>4. next = Append(s, order[k])
      BY <1>2, <1>3, <1>9, <2>1, <2>3
    <2>5. next = [i \in 1 .. k |-> order[i]]
      <3>1. s \in Seq(nodes)
        <4>1. \A i \in 1 .. r : order[i] \in nodes
          BY <1>1, <1>3, <1>4
        <4>. QED
          BY <1>1, <1>3, <4>1
      <3>2. order[k] \in nodes
        BY <1>4, <2>1
      <3>3. /\ Append(s, order[k]) \in Seq(nodes) /\ Len(Append(s, order[k])) = r + 1
            /\ \A i \in 1 .. (r + 1) : Append(s, order[k])[i] = IF i <= r THEN s[i] ELSE order[k]
        BY <1>3, <3>1, <3>2
      <3>4. \A i \in 1 .. (r + 1) : next[i] = order[i]
        BY <1>1, <1>3, <2>1, <2>4, <3>3
      <3>5. DOMAIN next = 1 .. k /\ next = [i \in DOMAIN next |-> next[i]]
        BY <1>3, <2>1, <2>4, <3>3
      <3>. QED
        BY <2>1, <3>4, <3>5
    <2>6. \A i \in 1 .. k : free[order[i]] >= sizes[i]
      BY <1>1, <1>9, <2>1
    <2>7. k \in 0 .. k /\ k <= m /\ ~(k < k)
      BY <2>1
    <2>8. Picked(order, m, free, sizes, k, next)
      BY <2>5, <2>6, <2>7 DEF Picked
    <2>. QED
      BY <2>8 DEF next
  <1>10. CASE r = k - 1 /\ (r = m \/ free[order[k]] < sizes[k])
    <2>1. fit = {}
      <3>1. ASSUME NEW j \in fit PROVE FALSE
        <4>1. j \in 1 .. m /\ j > r /\ free[order[j]] >= sizes[k]
          BY <1>6
        <4>2. r # m /\ k \in 1 .. m /\ free[order[k]] < sizes[k] /\ j >= k
          BY <1>3, <1>10, <4>1
        <4>3. free[order[k]] >= free[order[j]]
          BY <4>1, <4>2, <1>4
        <4>4. free[order[k]] \in Int /\ free[order[j]] \in Int
          BY <1>4, <4>1, <4>2
        <4>. QED
          BY <4>1, <4>2, <4>3, <4>4
      <3>. QED
        BY <3>1
    <2>2. next = s
      BY <1>2, <2>1
    <2>3. r \in 0 .. k /\ k = r + 1
      BY <1>3, <1>10
    <2>4. Picked(order, m, free, sizes, k, next)
      BY <1>1, <1>10, <2>2, <2>3 DEF Picked
    <2>. QED
      BY <2>4 DEF next
  <1>11. r = m \/ r < m
    BY <1>1, <1>3
  <1>12. free[order[k]] >= sizes[k] \/ free[order[k]] < sizes[k] \/ r = m \/ r < k - 1
    <2>1. CASE r = k - 1 /\ r < m
      <3>1. k \in 1 .. m
        BY <1>3, <2>1
      <3>2. free[order[k]] \in Int
        BY <1>4, <3>1
      <3>. QED
        BY <3>2
    <2>. QED
      BY <1>1, <1>3, <1>11, <2>1
  <1>13. r < k - 1 \/ r = k - 1
    BY <1>3
  <1>. QED
    BY <1>8, <1>9, <1>10, <1>11, <1>12, <1>13

\* What the greedy choice picks.
LEMMA PickPicks ==
    ASSUME NEW m \in Nat, NEW nodes, NEW order \in Bijection(1 .. m, nodes),
           NEW free, \A x \in nodes : free[x] \in Int,
           \A i, j \in 1 .. m : i < j => free[order[i]] >= free[order[j]],
           NEW sizes \in Seq(Int)
    PROVE  Picked(order, m, free, sizes, Len(sizes), Pick(order, free, sizes))
  <1> DEFINE n == Len(sizes)
  <1>1. n \in Nat
    OBVIOUS
  <1>2. \A k \in 1 .. n : sizes[k] \in Int
    OBVIOUS
  <1> HIDE DEF n
  <1>3. PICK f : PickRun(f, order, free, sizes) /\ Pick(order, free, sizes) = f[n]
    BY <1>1, PickLoop DEF n
  <1>4. f = [k \in 0 .. n |-> IF k = 0 THEN <<>>
                             ELSE PickNext(order, free, sizes, f[k - 1], k)]
    BY <1>3, Zenon DEF PickRun, n
  <1> DEFINE T == {k \in 0 .. n : ~Picked(order, m, free, sizes, k, f[k])}
  <1>5. T = {}
    <2>1. SUFFICES ASSUME T # {} PROVE FALSE
      OBVIOUS
    <2>2. PICK k \in T : \A i \in T : k <= i
      <3>1. T \in SUBSET Nat
        BY <1>1
      <3> HIDE DEF T
      <3>. QED
        BY <2>1, <3>1, LeastNat
    <2>3. k \in 0 .. n /\ ~Picked(order, m, free, sizes, k, f[k])
      OBVIOUS
    <2>4. k # 0
      <3>1. ASSUME k = 0 PROVE Picked(order, m, free, sizes, 0, f[0])
        <4>1. f[0] = <<>>
          BY <1>4, <2>3, <3>1
        <4>2. f[0] = [i \in 1 .. 0 |-> order[i]]
          BY <4>1
        <4>. QED
          BY <4>2 DEF Picked
      <3>. QED
        BY <2>3, <3>1
    <2>5. k - 1 \in 0 .. n /\ k \in Nat \ {0} /\ k \in 1 .. n
      BY <1>1, <2>3, <2>4
    <2>6. Picked(order, m, free, sizes, k - 1, f[k - 1])
      BY <2>2, <2>5
    <2>7. f[k] = PickNext(order, free, sizes, f[k - 1], k)
      BY <1>4, <2>3, <2>4
    <2>8. sizes[k] \in Int
      BY <1>2, <2>5
    <2> HIDE DEF T
    <2>9. Picked(order, m, free, sizes, k, PickNext(order, free, sizes, f[k - 1], k))
      BY <2>5, <2>6, <2>8, PickedNext
    <2>. QED
      BY <2>3, <2>7, <2>9
  <1>6. n \in 0 .. n
    BY <1>1
  <1>. QED
    BY <1>3, <1>5, <1>6 DEF n

\* Pairs of a node and a size, no two of them with the same node, in the order of
\* nodes: each of them is there once.
LEMMA ByNodeSorted ==
    ASSUME NEW n \in Nat, NEW X, NEW P \in [1 .. n -> Int \X X],
           \A k, l \in 1 .. n : P[k][1] = P[l][1] => k = l
    PROVE  ByNode(P) \in Bijection(1 .. n, Range(P))
  <1> DEFINE R == Range(P)
             before == {p \in R \X R : p[1][1] < p[2][1]}
  <1>1. \A a \in R : \E k \in 1 .. n : a = P[k]
    BY DEF Range
  <1>2. P \in Bijection(1 .. n, R)
    <2>1. \A k \in 1 .. n : P[k] \in R
      BY DEF Range
    <2>2. P \in [1 .. n -> R]
      BY <2>1
    <2>3. \A k, l \in 1 .. n : P[k] = P[l] => k = l
      OBVIOUS
    <2>. QED
      BY <1>1, <2>2, <2>3 DEF Bijection, Injection, Surjection, IsInjective
  <1>3. IsFiniteSet(1 .. n) /\ Cardinality(1 .. n) = n
    BY FS_Interval
  <1>4. IsFiniteSet(R) /\ Cardinality(R) = n
    <2>1. ExistsBijection(1 .. n, R)
      BY <1>2 DEF ExistsBijection
    <2>. QED
      BY <1>3, <2>1, FS_Bijection
  <1>5. ASSUME NEW a \in R, NEW b \in R PROVE <<a, b>> \in before <=> a[1] < b[1]
    OBVIOUS
  <1>6. ByNode(P) = InOrder(R, before)
    BY DEF ByNode
  <1> HIDE DEF R, before
  <1>7. \A a \in R : a[1] \in Int
    BY <1>1
  <1>8. \A a, b \in R : a[1] = b[1] => a = b
    BY <1>1
  <1>9. Orders(before, R)
    <2>1. \A a \in R : <<a, a>> \notin before
      BY <1>5, <1>7
    <2>2. \A a, b \in R : a # b => <<a, b>> \in before \/ <<b, a>> \in before
      BY <1>5, <1>7, <1>8
    <2>3. \A a, b, c \in R :
             <<a, b>> \in before /\ <<b, c>> \in before => <<a, c>> \in before
      BY <1>5, <1>7
    <2>. QED
      BY <2>1, <2>2, <2>3 DEF Orders
  <1>. QED
    BY <1>4, <1>6, <1>9, InOrderSorted DEF R

\* The greedy choice in a formula: the k-th largest size goes to the node with the
\* k-th most room, and there is a plan if there is room for each.
Fits(nodes, free, sizes) ==
    /\ Len(sizes) <= Cardinality(nodes)
    /\ \A k \in 1 .. Len(sizes) : free[ByFree(nodes, free)[k]] >= Descending(sizes)[k]

\* The pairs of nodes and sizes that make up the plan.
Pairs(nodes, free, sizes) ==
    [k \in 1 .. Len(sizes) |-> <<ByFree(nodes, free)[k], Descending(sizes)[k]>>]

\* The sorts and the loop of choose_allocations_for_tier compute this formula.
LEMMA GreedyChoice ==
    ASSUME NEW nodes \in SUBSET Int, IsFiniteSet(nodes),
           NEW free, \A x \in nodes : free[x] \in Int,
           NEW X \in SUBSET Int, NEW sizes \in Seq(X)
    PROVE  choose_allocations_for_tier(nodes, free, sizes) =
               IF Fits(nodes, free, sizes) THEN {ByNode(Pairs(nodes, free, sizes))} ELSE {}
  <1> DEFINE m == Cardinality(nodes)
             n == Len(sizes)
             order == ByFree(nodes, free)
             d == Descending(sizes)
             pick == Pick(order, free, d)
  <1>1. /\ m \in Nat /\ order \in Bijection(1 .. m, nodes)
        /\ \A i, j \in 1 .. m : i < j => free[order[i]] >= free[order[j]]
    BY LargestFirstSorted DEF ByFree
  <1>2. n \in Nat /\ d \in Seq(X) /\ Len(d) = n
    BY DescendingSorted
  <1>3. d \in Seq(Int) /\ DOMAIN d = 1 .. n /\ \A k \in 1 .. n : d[k] \in Int
    <2>1. DOMAIN d = 1 .. n /\ \A k \in 1 .. n : d[k] \in X
      <3> HIDE DEF d, n
      <3>. QED
        BY <1>2
    <2>2. \A k \in 1 .. n : d[k] \in Int
      BY <2>1, Zenon
    <2>3. d = [k \in 1 .. n |-> d[k]]
      <3> HIDE DEF d, n
      <3>. QED
        BY <1>2, <2>1
    <2> HIDE DEF d, n
    <2>. QED
      BY <1>2, <2>1, <2>2, <2>3
  <1>4. choose_allocations_for_tier(nodes, free, sizes) =
            IF Len(pick) < n THEN {} ELSE {ByNode([k \in 1 .. n |-> <<pick[k], d[k]>>])}
    BY <1>2, <1>3 DEF choose_allocations_for_tier
  <1>5. Fits(nodes, free, sizes) <=> n <= m /\ \A k \in 1 .. n : free[order[k]] >= d[k]
    BY DEF Fits
  <1>6. Pairs(nodes, free, sizes) = [k \in 1 .. n |-> <<order[k], d[k]>>]
    BY DEF Pairs
  <1> HIDE DEF m, n, order, d
  <1>7. Picked(order, m, free, d, n, pick)
    <2>1. Picked(order, m, free, d, Len(d), pick)
      BY <1>1, <1>3, PickPicks
    <2>. QED
      BY <1>2, <2>1
  <1> HIDE DEF pick
  <1>8. PICK r \in 0 .. n : /\ r <= m
                            /\ pick = [i \in 1 .. r |-> order[i]]
                            /\ \A i \in 1 .. r : free[order[i]] >= d[i]
                            /\ r < n => r = m \/ free[order[r + 1]] < d[r + 1]
    BY <1>7 DEF Picked
  <1>9. Len(pick) = r /\ r \in Nat
    BY <1>2, <1>8
  <1>10. CASE r < n
    <2>1. ~Fits(nodes, free, sizes)
      <3>1. CASE r = m
        BY <1>1, <1>2, <1>5, <1>10, <3>1
      <3>2. CASE r < m /\ free[order[r + 1]] < d[r + 1]
        <4>1. r + 1 \in 1 .. n /\ r + 1 \in 1 .. m
          BY <1>1, <1>2, <1>9, <1>10, <3>2
        <4>2. free[order[r + 1]] \in Int /\ d[r + 1] \in Int
          BY <1>1, <1>3, <4>1 DEF Bijection, Injection
        <4>. QED
          BY <1>5, <3>2, <4>1, <4>2
      <3>. QED
        BY <1>1, <1>8, <1>9, <1>10, <3>1, <3>2
    <2>. QED
      BY <1>4, <1>9, <1>10, <2>1
  <1>11. CASE r = n
    <2>1. Fits(nodes, free, sizes)
      BY <1>5, <1>8, <1>11
    <2>2. [k \in 1 .. n |-> <<pick[k], d[k]>>] = Pairs(nodes, free, sizes)
      BY <1>6, <1>8, <1>11
    <2>3. ~(Len(pick) < n)
      BY <1>2, <1>9, <1>11
    <2>. QED
      BY <1>4, <2>1, <2>2, <2>3
  <1>. QED
    BY <1>2, <1>9, <1>10, <1>11

\* The plan of the greedy choice puts every size on a node of its own with room for
\* it, and consists of pairs of a node and a size.
LEMMA GreedyPlan ==
    ASSUME NEW nodes \in SUBSET Int, IsFiniteSet(nodes),
           NEW free, \A x \in nodes : free[x] \in Int,
           NEW X \in SUBSET Int, NEW sizes \in Seq(X), Fits(nodes, free, sizes),
           NEW plan, plan = ByNode(Pairs(nodes, free, sizes))
    PROVE  /\ plan \in Seq(nodes \X X)
           /\ IsPlanFor(plan, nodes, free, sizes)
  <1> DEFINE m == Cardinality(nodes)
             n == Len(sizes)
             order == ByFree(nodes, free)
             d == Descending(sizes)
             P == Pairs(nodes, free, sizes)
  <1>1. m \in Nat /\ order \in Bijection(1 .. m, nodes)
    BY LargestFirstSorted DEF ByFree
  <1>2. n \in Nat /\ d \in Seq(X) /\ Len(d) = n /\ DOMAIN sizes = 1 .. n
    BY DescendingSorted
  <1>3. PICK p \in Bijection(1 .. n, 1 .. n) : \A k \in 1 .. n : d[k] = sizes[p[k]]
    BY DescendingSorted DEF IsRearrangement
  <1>4. n <= m /\ \A k \in 1 .. n : free[order[k]] >= d[k]
    BY DEF Fits
  <1>5. P = [k \in 1 .. n |-> <<order[k], d[k]>>]
    BY DEF Pairs
  <1> HIDE DEF m, n, order, d, P
  <1>6. ASSUME NEW k \in 1 .. n PROVE order[k] \in nodes /\ order[k] \in Int /\ d[k] \in X
    <2>1. k \in 1 .. m
      BY <1>1, <1>2, <1>4
    <2>2. order[k] \in nodes
      BY <1>1, <2>1 DEF Bijection, Injection
    <2>3. d[k] \in X
      BY <1>2
    <2>. QED
      BY <2>2, <2>3
  <1>7. \A k, l \in 1 .. n : order[k] = order[l] => k = l
    <2>1. \A k \in 1 .. n : k \in 1 .. m
      BY <1>1, <1>2, <1>4
    <2>. QED
      BY <1>1, <2>1 DEF Bijection, Injection, IsInjective
  <1>8. P \in [1 .. n -> Int \X X]
    BY <1>5, <1>6
  <1>9. \A k \in 1 .. n : P[k] = <<order[k], d[k]>> /\ P[k][1] = order[k] /\ P[k][2] = d[k]
    BY <1>5
  <1>10. plan \in Bijection(1 .. n, Range(P))
    <2>1. \A k, l \in 1 .. n : P[k][1] = P[l][1] => k = l
      BY <1>7, <1>9
    <2>. QED
      BY <1>2, <1>8, <2>1, ByNodeSorted DEF P
  <1>11. /\ plan \in [1 .. n -> Range(P)]
         /\ \A i, j \in 1 .. n : plan[i] = plan[j] => i = j
    BY <1>10 DEF Bijection, Injection, IsInjective
  <1> DEFINE K(i) == CHOOSE k \in 1 .. n : P[k] = plan[i]
  <1>12. ASSUME NEW i \in 1 .. n PROVE K(i) \in 1 .. n /\ P[K(i)] = plan[i]
    <2>1. plan[i] \in Range(P)
      BY <1>11
    <2>2. \E k \in 1 .. n : P[k] = plan[i]
      BY <1>8, <2>1 DEF Range
    <2>. QED
      BY <2>2
  <1> HIDE DEF K
  <1>13. ASSUME NEW i \in 1 .. n
         PROVE  /\ plan[i] = <<order[K(i)], d[K(i)]>>
                /\ plan[i][1] = order[K(i)] /\ plan[i][2] = d[K(i)]
                /\ plan[i] \in nodes \X X
    <2>1. K(i) \in 1 .. n /\ P[K(i)] = plan[i]
      BY <1>12
    <2>2. P[K(i)] = <<order[K(i)], d[K(i)]>>
      BY <1>9, <2>1
    <2>3. order[K(i)] \in nodes /\ d[K(i)] \in X
      BY <1>6, <2>1
    <2>. QED
      BY <2>1, <2>2, <2>3
  <1>14. DOMAIN plan = 1 .. n /\ plan \in Seq(nodes \X X) /\ Len(plan) = n
    <2>1. plan \in [1 .. n -> nodes \X X]
      BY <1>11, <1>13
    <2>. QED
      BY <1>2, <2>1
  <1>15. {plan[i][1] : i \in DOMAIN plan} \subseteq nodes
    BY <1>6, <1>12, <1>13, <1>14
  <1>16. ASSUME NEW i \in 1 .. n, NEW j \in 1 .. n, K(i) = K(j) PROVE i = j
    BY <1>11, <1>12, <1>16
  <1>17. \A i, j \in DOMAIN plan : i # j => plan[i][1] # plan[j][1]
    <2>1. ASSUME NEW i \in 1 .. n, NEW j \in 1 .. n, plan[i][1] = plan[j][1] PROVE i = j
      <3>1. order[K(i)] = order[K(j)] /\ K(i) \in 1 .. n /\ K(j) \in 1 .. n
        BY <1>12, <1>13, <2>1
      <3>2. K(i) = K(j)
        BY <1>7, <3>1
      <3>. QED
        BY <1>16, <3>2
    <2>. QED
      BY <1>14, <2>1
  <1>18. \A i \in DOMAIN plan : free[plan[i][1]] >= plan[i][2]
    BY <1>4, <1>12, <1>13, <1>14
  <1>19. \E of \in Bijection(DOMAIN plan, DOMAIN sizes) :
            \A i \in DOMAIN plan : plan[i][2] = sizes[of[i]]
    <2> DEFINE of == [i \in 1 .. n |-> p[K(i)]]
    <2>1. p \in [1 .. n -> 1 .. n] /\ \A k, l \in 1 .. n : p[k] = p[l] => k = l
      BY <1>3 DEF Bijection, Injection, IsInjective
    <2>2. of \in [1 .. n -> 1 .. n]
      BY <1>12, <2>1
    <2>3. ASSUME NEW i \in 1 .. n, NEW j \in 1 .. n, of[i] = of[j] PROVE i = j
      <3>1. K(i) \in 1 .. n /\ K(j) \in 1 .. n /\ p[K(i)] = p[K(j)]
        BY <1>12, <2>3
      <3>2. K(i) = K(j)
        BY <2>1, <3>1
      <3>. QED
        BY <1>16, <3>2
    <2>4. \A i \in 1 .. n : plan[i][2] = sizes[of[i]]
      BY <1>3, <1>12, <1>13
    <2> HIDE DEF of
    <2>5. of \in Injection(1 .. n, 1 .. n)
      BY <2>2, <2>3 DEF Injection, IsInjective
    <2>6. of \in Surjection(1 .. n, 1 .. n)
      <3>1. IsFiniteSet(1 .. n)
        BY <1>2, FS_Interval
      <3>. QED
        BY <2>5, <3>1, FS_Injection
    <2>. QED
      BY <1>2, <1>14, <2>4, <2>5, <2>6 DEF Bijection
  <1>20. Len(plan) = Len(sizes)
    BY <1>14 DEF n
  <1>. QED
    BY <1>14, <1>15, <1>17, <1>18, <1>19, <1>20 DEF IsPlanFor

\* A plan is a placement.
LEMMA FitsPlaceable ==
    ASSUME NEW nodes \in SUBSET Int, IsFiniteSet(nodes),
           NEW free, \A x \in nodes : free[x] \in Int,
           NEW X \in SUBSET Int, NEW sizes \in Seq(X), Fits(nodes, free, sizes),
           NEW some, \A k \in 1 .. Len(sizes) : ByFree(nodes, free)[k] \in some
    PROVE  Placeable(some, free, sizes)
  <1> DEFINE m == Cardinality(nodes)
             n == Len(sizes)
             order == ByFree(nodes, free)
             d == Descending(sizes)
  <1>1. m \in Nat /\ order \in Bijection(1 .. m, nodes)
    BY LargestFirstSorted DEF ByFree
  <1>2. n \in Nat /\ DOMAIN sizes = 1 .. n
    OBVIOUS
  <1>3. PICK p \in Bijection(1 .. n, 1 .. n) : \A k \in 1 .. n : d[k] = sizes[p[k]]
    BY DescendingSorted DEF IsRearrangement
  <1>4. n <= m /\ \A k \in 1 .. n : free[order[k]] >= d[k]
    BY DEF Fits
  <1>5. \A k \in 1 .. n : order[k] \in some
    OBVIOUS
  <1> HIDE DEF m, n, order, d
  <1>6. \A k, l \in 1 .. n : order[k] = order[l] => k = l
    <2>1. \A k \in 1 .. n : k \in 1 .. m
      BY <1>1, <1>2, <1>4
    <2>. QED
      BY <1>1, <2>1 DEF Bijection, Injection, IsInjective
  <1> DEFINE K(i) == CHOOSE k \in 1 .. n : p[k] = i
             place == [i \in 1 .. n |-> order[K(i)]]
  <1>7. ASSUME NEW i \in 1 .. n PROVE K(i) \in 1 .. n /\ p[K(i)] = i
    <2>1. \E k \in 1 .. n : p[k] = i
      BY <1>3 DEF Bijection, Surjection
    <2>. QED
      BY <2>1
  <1> HIDE DEF K
  <1>8. place \in [1 .. n -> some]
    BY <1>5, <1>7
  <1>9. ASSUME NEW i \in 1 .. n, NEW j \in 1 .. n, place[i] = place[j] PROVE i = j
    <2>1. K(i) \in 1 .. n /\ K(j) \in 1 .. n /\ order[K(i)] = order[K(j)]
      BY <1>7, <1>9
    <2>2. K(i) = K(j)
      BY <1>6, <2>1
    <2>. QED
      BY <1>7, <2>2
  <1>10. \A i \in 1 .. n : free[place[i]] >= sizes[i]
    BY <1>3, <1>4, <1>7
  <1> HIDE DEF place
  <1>. QED
    BY <1>2, <1>8, <1>9, <1>10 DEF Placeable

\* Where the greedy choice finds no node for a size, there are more sizes that
\* large than nodes with room for one: nobody can place them.
LEMMA PlaceableFits ==
    ASSUME NEW nodes \in SUBSET Int, IsFiniteSet(nodes),
           NEW free, \A x \in nodes : free[x] \in Int,
           NEW X \in SUBSET Int, NEW sizes \in Seq(X), Placeable(nodes, free, sizes)
    PROVE  Fits(nodes, free, sizes)
  <1> DEFINE m == Cardinality(nodes)
             n == Len(sizes)
             order == ByFree(nodes, free)
             d == Descending(sizes)
  <1>1. /\ m \in Nat /\ order \in Bijection(1 .. m, nodes)
        /\ \A i, j \in 1 .. m : i < j => free[order[i]] >= free[order[j]]
    BY LargestFirstSorted DEF ByFree
  <1>2. n \in Nat /\ d \in Seq(X) /\ Len(d) = n /\ DOMAIN sizes = 1 .. n
    BY DescendingSorted
  <1>3. \A i, j \in 1 .. n : i < j => d[i] >= d[j]
    <2>1. Falling(d) /\ Len(d) = n
      BY DescendingSorted
    <2> HIDE DEF d, n
    <2>. QED
      BY <2>1 DEF Falling
  <1>4. PICK p \in Bijection(1 .. n, 1 .. n) : \A k \in 1 .. n : d[k] = sizes[p[k]]
    BY DescendingSorted DEF IsRearrangement
  <1>5. PICK place \in [1 .. n -> nodes] :
           /\ \A i, j \in 1 .. n : i # j => place[i] # place[j]
           /\ \A i \in 1 .. n : free[place[i]] >= sizes[i]
    BY <1>2 DEF Placeable
  <1>6. Fits(nodes, free, sizes) <=> n <= m /\ \A k \in 1 .. n : free[order[k]] >= d[k]
    BY DEF Fits
  <1> HIDE DEF m, n, order, d
  <1>7. \A k \in 1 .. n : d[k] \in X
    BY <1>2
  <1>8. \A k \in 1 .. n : d[k] \in Int
    BY <1>7, Zenon
  <1>9. /\ p \in [1 .. n -> 1 .. n]
        /\ \A k, l \in 1 .. n : p[k] = p[l] => k = l
    BY <1>4 DEF Bijection, Injection, IsInjective
  <1>10. /\ \A j \in 1 .. m : order[j] \in nodes
         /\ \A x \in nodes : \E j \in 1 .. m : order[j] = x
    BY <1>1 DEF Bijection, Injection, Surjection
  \* The k-th largest size stands on the J(k)-th node.
  <1> DEFINE J(k) == CHOOSE j \in 1 .. m : order[j] = place[p[k]]
  <1>11. ASSUME NEW k \in 1 .. n
         PROVE  J(k) \in 1 .. m /\ order[J(k)] = place[p[k]] /\ free[order[J(k)]] >= d[k]
    <2>1. p[k] \in 1 .. n
      BY <1>9
    <2>2. place[p[k]] \in nodes /\ free[place[p[k]]] >= sizes[p[k]]
      BY <1>5, <2>1
    <2>3. \E j \in 1 .. m : order[j] = place[p[k]]
      BY <1>10, <2>2
    <2>4. J(k) \in 1 .. m /\ order[J(k)] = place[p[k]]
      BY <2>3
    <2> HIDE DEF J
    <2>. QED
      BY <1>4, <2>2, <2>4
  <1> HIDE DEF J
  <1>12. ASSUME NEW k \in 1 .. n, NEW l \in 1 .. n, J(k) = J(l) PROVE k = l
    <2>1. place[p[k]] = place[p[l]] /\ p[k] \in 1 .. n /\ p[l] \in 1 .. n
      BY <1>9, <1>11, <1>12
    <2>2. p[k] = p[l]
      BY <1>5, <2>1
    <2>. QED
      BY <1>9, <2>2
  \* More sizes than nodes to put them on cannot be.
  <1>13. ASSUME NEW r \in 0 .. n, NEW q \in 0 .. n, q < r,
                \A k \in 1 .. r : J(k) \in 1 .. q
         PROVE  FALSE
    <2> DEFINE f == [k \in 1 .. r |-> J(k)]
    <2>1. f \in [1 .. r -> 1 .. q]
      BY <1>13
    <2>2. /\ IsFiniteSet(1 .. r) /\ Cardinality(1 .. r) = r
          /\ IsFiniteSet(1 .. q) /\ Cardinality(1 .. q) = q
      <3>1. r \in Nat /\ q \in Nat
        BY <1>2
      <3>. QED
        BY <3>1, FS_Interval
    <2>3. \A k \in 1 .. r : f[k] = J(k) /\ k \in 1 .. n
      BY <1>2
    <2> HIDE DEF f
    <2>4. Cardinality(1 .. q) < Cardinality(1 .. r)
      BY <1>13, <2>2
    <2>5. \E k, l \in 1 .. r : k # l /\ f[k] = f[l]
      BY <2>1, <2>2, <2>4, FS_PigeonHole
    <2>. QED
      BY <1>12, <2>3, <2>5
  <1>14. n <= m
    <2>1. ASSUME n > m PROVE FALSE
      <3>1. m \in 0 .. n /\ n \in 0 .. n /\ m < n
        BY <1>1, <1>2, <2>1
      <3>. QED
        BY <1>11, <1>13, <3>1
    <2>. QED
      BY <1>1, <1>2, <2>1
  <1>15. ASSUME NEW k \in 1 .. n, free[order[k]] < d[k] PROVE FALSE
    <2>1. k \in 0 .. n /\ k - 1 \in 0 .. n /\ k - 1 < k /\ k \in 1 .. m
      BY <1>1, <1>2, <1>14
    <2>2. ASSUME NEW l \in 1 .. k PROVE J(l) \in 1 .. (k - 1)
      <3>1. l \in 1 .. n
        BY <1>2
      <3>2. d[l] >= d[k] /\ d[l] \in Int /\ d[k] \in Int
        <4>1. d[l] \in Int /\ d[k] \in Int
          BY <1>8, <3>1
        <4>2. CASE l = k
          BY <4>1, <4>2
        <4>3. CASE l < k
          BY <1>3, <3>1, <4>1, <4>3
        <4>. QED
          BY <1>2, <4>1, <4>2, <4>3
      <3>3. J(l) \in 1 .. m /\ free[order[J(l)]] >= d[l]
        BY <1>11, <3>1
      <3>4. free[order[J(l)]] \in Int /\ free[order[k]] \in Int
        BY <1>10, <2>1, <3>3
      <3>5. free[order[J(l)]] > free[order[k]]
        BY <1>15, <3>2, <3>3, <3>4
      <3>6. ~(J(l) > k) /\ J(l) # k
        BY <1>1, <2>1, <3>3, <3>4, <3>5
      <3>. QED
        BY <1>1, <2>1, <3>3, <3>6
    <2>. QED
      BY <1>13, <2>1, <2>2
  <1>16. ASSUME NEW k \in 1 .. n PROVE free[order[k]] >= d[k]
    <2>1. k \in 1 .. m
      BY <1>1, <1>2, <1>14
    <2>2. free[order[k]] \in Int /\ d[k] \in Int
      BY <1>8, <1>10, <2>1
    <2>. QED
      BY <1>15, <2>2
  <1>. QED
    BY <1>6, <1>14, <1>16

\* A choice misses nothing and is a plan of pairs of a node and a size.
ChoiceIsRight(found, nodes, free, sizes) ==
    /\ found # {} <=> Placeable(nodes, free, sizes)
    /\ \A plan \in found : /\ plan \in Seq(nodes \X (Nat \ {0}))
                           /\ IsPlanFor(plan, nodes, free, sizes)

\* The greedy choice misses nothing: it finds a plan if there is one.
LEMMA TierPlans ==
    ASSUME NEW nodes \in SUBSET Int, IsFiniteSet(nodes),
           NEW free, \A x \in nodes : free[x] \in Int,
           NEW sizes \in Seq(Nat \ {0})
    PROVE  ChoiceIsRight(choose_allocations_for_tier(nodes, free, sizes), nodes, free, sizes)
  <1> DEFINE found == choose_allocations_for_tier(nodes, free, sizes)
             plan == ByNode(Pairs(nodes, free, sizes))
  <1>1. Nat \ {0} \in SUBSET Int
    OBVIOUS
  <1>2. found = IF Fits(nodes, free, sizes) THEN {plan} ELSE {}
    BY <1>1, GreedyChoice
  <1>3. CASE Fits(nodes, free, sizes)
    <2>1. plan \in Seq(nodes \X (Nat \ {0})) /\ IsPlanFor(plan, nodes, free, sizes)
      BY <1>1, <1>3, GreedyPlan
    <2>2. Placeable(nodes, free, sizes)
      <3>1. \A k \in 1 .. Len(sizes) : ByFree(nodes, free)[k] \in nodes
        <4>1. /\ Cardinality(nodes) \in Nat
              /\ ByFree(nodes, free) \in [1 .. Cardinality(nodes) -> nodes]
          BY LargestFirstSorted DEF ByFree, Bijection, Injection
        <4>2. Len(sizes) <= Cardinality(nodes) /\ Len(sizes) \in Nat
          BY <1>3 DEF Fits
        <4>3. \A k \in 1 .. Len(sizes) : k \in 1 .. Cardinality(nodes)
          BY <4>1, <4>2
        <4>. QED
          BY <4>1, <4>3
      <3>. QED
        BY <1>1, <1>3, <3>1, FitsPlaceable
    <2> HIDE DEF plan, found
    <2>3. found = {plan}
      BY <1>2, <1>3
    <2>4. found # {} /\ \A q \in found : q = plan
      BY <2>3
    <2>. QED
      BY <2>1, <2>2, <2>4 DEF ChoiceIsRight, found
  <1>4. CASE ~Fits(nodes, free, sizes)
    <2>1. ~Placeable(nodes, free, sizes)
      BY <1>1, <1>4, PlaceableFits
    <2> HIDE DEF plan, found
    <2>2. found = {}
      BY <1>2, <1>4
    <2>. QED
      BY <2>1, <2>2 DEF ChoiceIsRight, found
  <1>. QED
    BY <1>3, <1>4

\* A plan on some of the nodes is a plan on the nodes.
LEMMA MorePlans ==
    ASSUME NEW nodes, NEW some \in SUBSET nodes, NEW X, NEW plan \in Seq(some \X X)
    PROVE  plan \in Seq(nodes \X X)
  <1> DEFINE n == Len(plan)
  <1>1. n \in Nat /\ plan = [i \in 1 .. n |-> plan[i]] /\ \A i \in 1 .. n : plan[i] \in some \X X
    OBVIOUS
  <1> HIDE DEF n
  <1>2. ASSUME NEW i \in 1 .. n PROVE plan[i] \in nodes \X X
    <2>1. \A x \in some \X X : x \in nodes \X X
      OBVIOUS
    <2>. QED
      BY <1>1, <2>1
  <1>3. [i \in 1 .. n |-> plan[i]] \in [1 .. n -> nodes \X X]
    BY <1>2
  <1>. QED
    BY <1>1, <1>3

\* More nodes to choose from do no harm, if they do not make more placeable.
LEMMA MoreNodes ==
    ASSUME NEW nodes, NEW some \in SUBSET nodes, NEW free, NEW sizes, NEW found,
           ChoiceIsRight(found, some, free, sizes),
           Placeable(nodes, free, sizes) => Placeable(some, free, sizes)
    PROVE  ChoiceIsRight(found, nodes, free, sizes)
  <1>1. \A place : place \in [DOMAIN sizes -> some] => place \in [DOMAIN sizes -> nodes]
    OBVIOUS
  <1>2. Placeable(some, free, sizes) => Placeable(nodes, free, sizes)
    BY <1>1 DEF Placeable
  <1>3. ASSUME NEW plan, IsPlanFor(plan, some, free, sizes)
        PROVE  IsPlanFor(plan, nodes, free, sizes)
    BY <1>3, Zenon DEF IsPlanFor
  <1>4. \A plan \in Seq(some \X (Nat \ {0})) : plan \in Seq(nodes \X (Nat \ {0}))
    BY MorePlans
  <1>. QED
    BY <1>2, <1>3, <1>4 DEF ChoiceIsRight

\* The roomiest nodes, as attach-mem selects them.
Roomiest(fresh, free, channels) ==
    Range(SubSeq(ByFree(fresh, free), 1, Min({channels, Len(ByFree(fresh, free))})))

\* These are the first nodes of the order, as many as are asked for if there are so many.
LEMMA RoomiestNodes ==
    ASSUME NEW fresh \in SUBSET Int, IsFiniteSet(fresh),
           NEW free, \A x \in fresh : free[x] \in Int, NEW channels \in Nat
    PROVE  /\ Roomiest(fresh, free, channels) \in SUBSET fresh
           /\ IsFiniteSet(Roomiest(fresh, free, channels))
           /\ channels <= Cardinality(fresh) =>
                 /\ Cardinality(Roomiest(fresh, free, channels)) = channels
                 /\ \A k \in 1 .. channels :
                       ByFree(fresh, free)[k] \in Roomiest(fresh, free, channels)
  <1> DEFINE m == Cardinality(fresh)
             order == ByFree(fresh, free)
             sel == Roomiest(fresh, free, channels)
  <1>1. m \in Nat /\ order \in Bijection(1 .. m, fresh)
    BY LargestFirstSorted DEF ByFree
  <1>2. sel = Range(SubSeq(order, 1, Min({channels, Len(order)})))
    BY DEF Roomiest
  <1> HIDE DEF m, order, sel
  <1>3. order \in [1 .. m -> fresh] /\ \A i, j \in 1 .. m : order[i] = order[j] => i = j
    BY <1>1 DEF Bijection, Injection, IsInjective
  <1>4. order \in Seq(fresh) /\ Len(order) = m
    BY <1>1, <1>3
  <1> DEFINE c == Min({channels, m})
  <1>5. c \in Nat /\ c <= m /\ (channels <= m => c = channels)
    <2>1. \E x \in {channels, m} : \A y \in {channels, m} : x =< y
      <3>1. channels <= m \/ m <= channels
        BY <1>1
      <3>. QED
        BY <1>1, <3>1
    <2>2. c \in {channels, m} /\ \A y \in {channels, m} : c =< y
      BY <2>1 DEF Min
    <2> HIDE DEF c
    <2>. QED
      BY <1>1, <2>2
  <1> HIDE DEF c
  <1>6. sel = {order[k] : k \in 1 .. c}
    <2>1. sel = Range(SubSeq(order, 1, c))
      BY <1>2, <1>4 DEF c
    <2>2. /\ DOMAIN SubSeq(order, 1, c) = 1 .. c
          /\ \A k \in 1 .. c : SubSeq(order, 1, c)[k] = order[k]
      BY <1>1, <1>4, <1>5
    <2>. QED
      BY <2>1, <2>2 DEF Range
  <1>7. \A k \in 1 .. c : k \in 1 .. m
    BY <1>1, <1>5
  <1>8. sel \in SUBSET fresh
    BY <1>3, <1>6, <1>7
  <1>9. IsFiniteSet(sel)
    BY <1>8, FS_Subset
  <1>10. Cardinality(sel) = c
    <2> DEFINE f == [k \in 1 .. c |-> order[k]]
    <2>1. f \in [1 .. c -> sel]
      BY <1>6
    <2>2. \A x \in sel : \E k \in 1 .. c : f[k] = x
      BY <1>6
    <2>3. \A k, l \in 1 .. c : f[k] = f[l] => k = l
      BY <1>3, <1>7
    <2> HIDE DEF f
    <2>4. f \in Bijection(1 .. c, sel)
      BY <2>1, <2>2, <2>3 DEF Bijection, Injection, Surjection, IsInjective
    <2>5. ExistsBijection(1 .. c, sel)
      BY <2>4 DEF ExistsBijection
    <2>6. IsFiniteSet(1 .. c) /\ Cardinality(1 .. c) = c
      BY <1>5, FS_Interval
    <2>. QED
      BY <2>5, <2>6, FS_Bijection
  <1>. QED
    BY <1>5, <1>6, <1>8, <1>9, <1>10 DEF m, sel, order

\* attach-mem with new channels: looking at the roomiest nodes only misses nothing.
LEMMA AttachNewChannels ==
    ASSUME NEW nodes \in SUBSET Int, IsFiniteSet(nodes),
           NEW free, \A x \in nodes : free[x] \in Int, NEW existing,
           NEW memory_mb \in Nat, NEW channels \in Nat \ {0}, memory_mb >= channels
    PROVE  ChoiceIsRight(choose_allocations_for_tier_attach(nodes, free, memory_mb, channels,
                                                            existing),
                         nodes \ existing, free, split_memory(memory_mb, channels))
  <1> DEFINE found == choose_allocations_for_tier_attach(nodes, free, memory_mb, channels, existing)
             sizes == split_memory(memory_mb, channels)
             fresh == nodes \ existing
             m == Cardinality(fresh)
             sel == Roomiest(fresh, free, channels)
  <1>1. fresh \in SUBSET Int /\ IsFiniteSet(fresh) /\ \A x \in fresh : free[x] \in Int
    BY FS_Difference
  <1>2. m \in Nat
    BY <1>1, FS_CardinalityType
  <1>3. sizes \in Seq(Nat \ {0}) /\ Len(sizes) = channels
    BY SplitMemory
  <1>4. Nat \ {0} \in SUBSET Int
    OBVIOUS
  <1>5. /\ sel \in SUBSET fresh /\ IsFiniteSet(sel)
        /\ channels <= m => /\ Cardinality(sel) = channels
                            /\ \A k \in 1 .. channels : ByFree(fresh, free)[k] \in sel
    BY <1>1, RoomiestNodes
  <1>6. found = IF sel = {} \/ channels > Cardinality(sel) \/ memory_mb < channels THEN {}
                ELSE choose_allocations_for_tier(sel, free, sizes)
    <2>1. memory_mb # 0 /\ channels # 0
      OBVIOUS
    <2>. QED
      BY <2>1 DEF choose_allocations_for_tier_attach, Roomiest
  <1> HIDE DEF fresh, m, sel, found, sizes
  <1>7. CASE channels > m
    <2>1. Cardinality(sel) \in Nat /\ Cardinality(sel) <= m
      BY <1>1, <1>5, FS_Subset, FS_CardinalityType DEF m
    <2>2. found = {}
      BY <1>2, <1>6, <1>7, <2>1
    <2>3. ~Fits(fresh, free, sizes)
      BY <1>2, <1>3, <1>7 DEF Fits, m
    <2>4. ~Placeable(fresh, free, sizes)
      BY <1>1, <1>3, <1>4, <2>3, PlaceableFits
    <2>. QED
      BY <2>2, <2>4 DEF ChoiceIsRight, fresh, found, sizes
  <1>8. CASE channels <= m
    <2>1. Cardinality(sel) = channels /\ sel # {}
      BY <1>5, <1>8, FS_EmptySet
    <2>2. found = choose_allocations_for_tier(sel, free, sizes)
      BY <1>6, <2>1
    <2>3. sel \in SUBSET Int /\ \A x \in sel : free[x] \in Int
      BY <1>1, <1>5
    <2>4. ChoiceIsRight(found, sel, free, sizes)
      BY <1>3, <1>4, <1>5, <2>2, <2>3, TierPlans
    <2>5. ASSUME Placeable(fresh, free, sizes) PROVE Placeable(sel, free, sizes)
      <3>1. Fits(fresh, free, sizes)
        BY <1>1, <1>3, <1>4, <2>5, PlaceableFits
      <3>2. \A k \in 1 .. Len(sizes) : ByFree(fresh, free)[k] \in sel
        BY <1>3, <1>5, <1>8
      <3>. QED
        BY <1>1, <1>3, <1>4, <3>1, <3>2, FitsPlaceable
    <2>6. ChoiceIsRight(found, fresh, free, sizes)
      BY <1>5, <2>4, <2>5, MoreNodes
    <2>. QED
      BY <2>6 DEF fresh, found, sizes
  <1>9. channels > m \/ channels <= m
    BY <1>2
  <1>. QED
    BY <1>7, <1>8, <1>9, Zenon

\* attach-mem without a number of channels, on the nodes that the VM has memory on.
LEMMA AttachSameChannels ==
    ASSUME NEW nodes \in SUBSET Int, IsFiniteSet(nodes),
           NEW free, \A x \in nodes : free[x] \in Int, NEW existing,
           NEW memory_mb \in Nat \ {0},
           NEW plan \in choose_allocations_for_tier_attach(nodes, free, memory_mb, 0, existing)
    PROVE  plan \in Seq(nodes \X (Nat \ {0}))
  <1> DEFINE sel == nodes \cap existing
             num == Cardinality(sel)
             sizes == split_memory(memory_mb, num)
  <1>1. sel \in SUBSET Int /\ IsFiniteSet(sel) /\ \A x \in sel : free[x] \in Int
    BY FS_Intersection
  <1>2. plan \in IF sel = {} \/ num > Cardinality(sel) \/ memory_mb < num THEN {}
                 ELSE choose_allocations_for_tier(sel, free, sizes)
    BY DEF choose_allocations_for_tier_attach
  <1>3. num \in Nat
    BY <1>1, FS_CardinalityType
  <1>4. sel # {} /\ memory_mb >= num /\ plan \in choose_allocations_for_tier(sel, free, sizes)
    <2> HIDE DEF sel, num, sizes
    <2>. QED
      BY <1>2, <1>3
  <1>5. num \in Nat \ {0}
    BY <1>1, <1>3, <1>4, FS_EmptySet
  <1> HIDE DEF num
  <1>6. sizes \in Seq(Nat \ {0})
    BY <1>4, <1>5, SplitMemory
  <1> HIDE DEF sizes, sel
  <1>7. plan \in Seq(sel \X (Nat \ {0}))
    BY <1>1, <1>4, <1>6, TierPlans DEF ChoiceIsRight
  <1>8. sel \in SUBSET nodes
    BY DEF sel
  <1>. QED
    BY <1>7, <1>8, MorePlans

-----------------------------------------------------------------------------

\* What get-mem-pool says is free on a node is a number.
LEMMA FreeMbType ==
    ASSUME VmTypeOK
    PROVE  FreeMb \in [Node -> Int]
  <1>1. ASSUME NEW n \in Node PROVE (Total(n) - used_segments[n]) * SegmentSizeMb \in Int
    <2>1. Total(n) \in Nat /\ used_segments[n] \in Nat /\ SegmentSizeMb \in Nat
      BY TotalNat, SegmentSizeAssumption DEF VmTypeOK, PoolTypeOK
    <2>. QED
      BY <2>1
  <1>. QED
    BY <1>1 DEF FreeMb

\* The nodes of a tier, and what is free on them, are what the choice is made from.
LEMMA TierOfPool ==
    ASSUME VmTypeOK, NEW t
    PROVE  /\ TierNodes(t) \in SUBSET Node
           /\ TierNodes(t) \in SUBSET Int
           /\ IsFiniteSet(TierNodes(t))
           /\ \A n \in TierNodes(t) : FreeMb[n] \in Int
  <1>1. TierNodes(t) \in SUBSET Node
    BY DEF TierNodes
  <1>2. NumDevs \in Int
    BY NumDevsAssumption
  <1>3. Node \in SUBSET Int /\ IsFiniteSet(Node)
    BY <1>2, FS_Interval DEF Node
  <1>4. \A n \in Node : FreeMb[n] \in Int
    BY FreeMbType
  <1>. QED
    BY <1>1, <1>3, <1>4, FS_Subset

\* The plan for a tier is one that alloc-mem can be called with, and has an entry
\* for each channel.
LEMMA CreateTier ==
    ASSUME VmTypeOK, NEW t, NEW sizes \in Seq(Nat \ {0}),
           NEW plan \in choose_allocations_for_tier(TierNodes(t), FreeMb, sizes)
    PROVE  plan \in Plan /\ Len(plan) = Len(sizes)
  <1>1. /\ TierNodes(t) \in SUBSET Node /\ TierNodes(t) \in SUBSET Int
        /\ IsFiniteSet(TierNodes(t)) /\ \A n \in TierNodes(t) : FreeMb[n] \in Int
    BY TierOfPool
  <1>2. /\ plan \in Seq(TierNodes(t) \X (Nat \ {0}))
        /\ IsPlanFor(plan, TierNodes(t), FreeMb, sizes)
    BY <1>1, TierPlans DEF ChoiceIsRight
  <1>. QED
    BY <1>1, <1>2, MorePlans DEF Plan, IsPlanFor

\* So is the plan of an attach-mem for a tier.
LEMMA AttachTier ==
    ASSUME VmTypeOK, NEW t, NEW existing, NEW memory_mb \in Nat, NEW channels \in Nat,
           NEW plan \in choose_allocations_for_tier_attach(TierNodes(t), FreeMb, memory_mb,
                                                          channels, existing)
    PROVE  plan \in Plan
  <1> DEFINE nodes == TierNodes(t)
  <1>1. /\ nodes \in SUBSET Node /\ nodes \in SUBSET Int
        /\ IsFiniteSet(nodes) /\ \A n \in nodes : FreeMb[n] \in Int
    BY TierOfPool
  <1>2. CASE memory_mb = 0
    <2>1. plan = <<>>
      BY <1>2, Zenon DEF choose_allocations_for_tier_attach
    <2>. QED
      BY <2>1 DEF Plan
  <1>3. CASE memory_mb # 0 /\ channels = 0
    <2>1. plan \in Seq(nodes \X (Nat \ {0}))
      BY <1>1, <1>3, AttachSameChannels
    <2>. QED
      BY <1>1, <2>1, MorePlans DEF Plan
  <1>4. CASE memory_mb # 0 /\ channels # 0 /\ memory_mb < channels
    <2>1. choose_allocations_for_tier_attach(nodes, FreeMb, memory_mb, channels, existing) = {}
      BY <1>4, Zenon DEF choose_allocations_for_tier_attach
    <2>. QED
      BY <2>1
  <1>5. CASE memory_mb # 0 /\ channels # 0 /\ memory_mb >= channels
    <2> HIDE DEF nodes
    <2>1. ChoiceIsRight(choose_allocations_for_tier_attach(nodes, FreeMb, memory_mb, channels,
                                                           existing),
                        nodes \ existing, FreeMb, split_memory(memory_mb, channels))
      BY <1>1, <1>5, AttachNewChannels
    <2>2. plan \in Seq((nodes \ existing) \X (Nat \ {0}))
      BY <2>1 DEF ChoiceIsRight, nodes
    <2>3. plan \in Seq(nodes \X (Nat \ {0}))
      BY <2>2, MorePlans
    <2>. QED
      BY <1>1, <2>3, MorePlans DEF Plan
  <1>6. memory_mb < channels \/ memory_mb >= channels
    OBVIOUS
  <1>. QED
    BY <1>2, <1>3, <1>4, <1>5, <1>6

\* A plan for local memory and one for CXL memory make a plan.
LEMMA BothPlans ==
    ASSUME NEW A, NEW B, \A a \in A : a \in Plan, \A b \in B : b \in Plan,
           NEW plan \in Both(A, B)
    PROVE  /\ plan \in Plan
           /\ \E a \in A : Len(plan) >= Len(a)
  <1>1. PICK a \in A, b \in B : plan = a \o b
    BY DEF Both
  <1>2. a \in Plan /\ b \in Plan
    BY <1>1
  <1>. QED
    BY <1>1, <1>2 DEF Plan

\* The plan of a create-vm has at least the channel for local memory.
LEMMA CreatePlan ==
    ASSUME VmTypeOK, NEW r \in Sizes, ValidCreate(r),
           NEW plan \in build_memory_plan(r)
    PROVE  plan \in Plan /\ Len(plan) > 0
  <1> DEFINE A == choose_allocations_for_tier(TierNodes(0), FreeMb,
                                              split_memory(r.memory, r.channels))
             C == choose_allocations_for_tier(TierNodes(1), FreeMb,
                      split_memory(r.cxl_memory, r.cxl_channels))
             B == IF r.cxl_channels = 0 THEN {<<>>} ELSE C
  <1>1. /\ r.memory \in Nat /\ r.channels \in Nat \ {0} /\ r.memory >= r.channels
        /\ r.cxl_memory \in Nat /\ r.cxl_channels \in Nat /\ r.cxl_memory >= r.cxl_channels
    BY DEF Sizes, ValidCreate
  <1>2. ASSUME NEW a \in A PROVE a \in Plan /\ Len(a) = r.channels
    <2>1. /\ split_memory(r.memory, r.channels) \in Seq(Nat \ {0})
          /\ Len(split_memory(r.memory, r.channels)) = r.channels
      BY <1>1, SplitMemory
    <2>. QED
      BY <1>2, <2>1, CreateTier
  <1>3. ASSUME NEW b \in B PROVE b \in Plan
    <2>1. CASE r.cxl_channels = 0
      BY <2>1, <1>3 DEF Plan
    <2>2. CASE r.cxl_channels # 0
      <3>1. split_memory(r.cxl_memory, r.cxl_channels) \in Seq(Nat \ {0})
        BY <1>1, <2>2, SplitMemory
      <3>2. b \in C
        BY <2>2, <1>3
      <3>. QED
        BY <3>1, <3>2, CreateTier
    <2>. QED
      BY <2>1, <2>2
  <1>4. plan \in Both(A, B)
    BY DEF build_memory_plan
  <1> HIDE DEF A, B, C
  <1>5. plan \in Plan /\ \E a \in A : Len(plan) >= Len(a)
    BY <1>2, <1>3, <1>4, BothPlans
  <1>6. Len(plan) \in Nat
    BY <1>5 DEF Plan
  <1>. QED
    BY <1>1, <1>2, <1>5, <1>6

\* The plan of an attach-mem is one alloc-mem can be called with.
LEMMA AttachPlan ==
    ASSUME VmTypeOK, NEW r \in Sizes, NEW existing \in SUBSET Node,
           NEW plan \in attach_plan(r, existing)
    PROVE  plan \in Plan
  <1> DEFINE A == choose_allocations_for_tier_attach(TierNodes(0), FreeMb, r.memory,
                                                     r.channels, existing)
             B == choose_allocations_for_tier_attach(TierNodes(1), FreeMb, r.cxl_memory,
                                                     r.cxl_channels, existing)
  <1>1. /\ r.memory \in Nat /\ r.channels \in Nat
        /\ r.cxl_memory \in Nat /\ r.cxl_channels \in Nat
    BY DEF Sizes
  <1>2. \A a \in A : a \in Plan
    BY <1>1, AttachTier
  <1>3. \A b \in B : b \in Plan
    BY <1>1, AttachTier
  <1>4. plan \in Both(A, B)
    BY DEF attach_plan
  <1> HIDE DEF A, B
  <1>. QED
    BY <1>2, <1>3, <1>4, BothPlans

\* get_vm_mem_nodes reads nodes off the devices of the VMs on the list.
LEMMA MemNodes ==
    ASSUME VmTypeOK, NEW vm, NEW listed \in SUBSET Slot
    PROVE  get_vm_mem_nodes(vm, listed) \in SUBSET Node
  <1>. SUFFICES ASSUME NEW s \in listed, NEW d \in VMs[s].attached_devs
                PROVE  d.node_id \in Node
    BY DEF get_vm_mem_nodes
  <1>1. VMs[s] \in VmInstance
    BY DEF VmTypeOK
  <1>. QED
    BY <1>1 DEF VmInstance, MemDev

-----------------------------------------------------------------------------
(* The inductive invariant *)

\* The command works on a VM: it has created it, or was given for it.
Works(c) == c.pc \in Creating \cup Given

WorksOn(p, vm) == Works(cli[p]) /\ cli[p].vm = vm

Booting == {"port", "alloc_boot", "launch"}
Growing == {"alloc", "attach", "rollback"}

IdsOf(c) == {c.memids[i] : i \in DOMAIN c.memids}
LastId(c) == c.memids[Len(c.memids)]

\* Memory a command has allocated, or has unplugged, and not seen through.
Pending(c) ==
    IF c.pc \in {"attach", "free"} THEN {LastId(c)}
    ELSE IF c.pc \in Booting \cup {"rollback"} THEN IdsOf(c) ELSE {}

\* Where a command is in its memory ids and its plan.
Placed(c) ==
    /\ c.pc = "idle" => c = NoCommand
    /\ c.pc \in {"select", "create", "port"} => c.memids = <<>> /\ Len(c.plan) > 0
    /\ c.pc \in {"alloc_boot", "alloc"} => Len(c.memids) < Len(c.plan)
    /\ c.pc \in {"attach", "rollback", "detach", "free"} => Len(c.memids) > 0

\* A QEMU that runs uses memory its VM holds, but for DIMMs that were given up.
\* What it was started with is no DIMM.
Sound(q, held, issued, created) ==
    /\ q.pc = "running" => created
    /\ q.pc # "running" => q.ram = {} /\ q.dimms = {}
    /\ q.ram \subseteq held
    /\ q.dimms \ q.given_up \subseteq held
    /\ q.dimms \subseteq issued
    /\ q.ram \cap q.dimms = {}

\* How a command stands to its VM and its QEMU.
InStep(c, q, held, issued, created) ==
    /\ c.pc \in Creating => created
    /\ c.pc \in Booting => q.pc = "none" /\ IdsOf(c) \subseteq held
    /\ c.pc = "poll" => q.pc # "none"
    /\ c.pc \in {"cleanup", "destroy"} => q.pc # "running"
    /\ c.pc \in Growing => IdsOf(c) \cap q.ram = {} /\ (created => IdsOf(c) \subseteq issued)
    /\ c.pc = "attach" => LastId(c) \notin q.dimms
    /\ c.pc = "free" => /\ q.pc # "none" /\ LastId(c) \notin q.ram \cup q.dimms
                        /\ created => LastId(c) \in issued

\* How two commands for the same VM stand to each other: a create-vm is the only
\* one, and without a destroy-vm; an id about to be plugged, or to be used by a
\* QEMU that starts, is nobody else's.
Beside(c, d) ==
    /\ ~(c.pc \in Creating /\ d.pc \in Creating \cup {"kill", "destroy"})
    /\ c.pc \in Booting /\ d.pc \in Growing => IdsOf(c) \cap IdsOf(d) = {}
    /\ c.pc = "attach" /\ d.pc \in {"attach", "free"} => LastId(c) # LastId(d)

Apart(c, d) == Beside(c, d) /\ Beside(d, c)

\* A command for the VM is at one of these places, or has this memory pending.
Busy(vm, places) == \E p \in Cli : WorksOn(p, vm) /\ cli[p].pc \in places
Waits(vm, m) == \E p \in Cli : WorksOn(p, vm) /\ m \in Pending(cli[p])

\* A VM without leftovers has its QEMU, or gets it, or goes again; and the memory
\* it holds is in this QEMU, or pending.
AllAccounted(vm) ==
    vm \in Created /\ vm \notin left =>
        /\ qemu[vm].pc = "none" => Busy(vm, Booting \cup {"cleanup"})
        /\ qemu[vm].pc # "ended" /\ ~Busy(vm, {"cleanup"}) =>
              \A m \in HeldOf[vm] :
                  m \in qemu[vm].ram \cup qemu[vm].dimms \/ Waits(vm, m)

VmInv(vm) ==
    /\ Sound(qemu[vm], HeldOf[vm], IssuedOf[vm], vm \in Created)
    /\ \A p \in Cli : WorksOn(p, vm) =>
          InStep(cli[p], qemu[vm], HeldOf[vm], IssuedOf[vm], vm \in Created)
    /\ \A p, r \in Cli : p # r /\ WorksOn(p, vm) /\ WorksOn(r, vm) =>
          Apart(cli[p], cli[r])
    /\ AllAccounted(vm)

CmdInv ==
    /\ \A p \in Cli : Placed(cli[p])
    /\ \A p \in Cli : Works(cli[p]) => cli[p].vm \in VmId
    /\ \A vm \in VmId \ crossed : VmInv(vm)

CliInv == TableInv /\ NoneStarted /\ CliTypes /\ CmdInv

-----------------------------------------------------------------------------
(* What a step leaves alone *)

\* Command p becomes c.
Becomes(p, c) ==
    /\ cli' \in [Cli -> Command]
    /\ cli'[p] = c
    /\ \A q \in Cli \ {p} : cli'[q] = cli[q]

\* Nothing happens to a VM and its commands, but that its QEMU may end.
LEMMA VmInvKept ==
    ASSUME NEW vm, VmInv(vm),
           HeldOf'[vm] = HeldOf[vm], IssuedOf'[vm] = IssuedOf[vm],
           vm \in Created' <=> vm \in Created,
           vm \in left' <=> vm \in left,
           qemu'[vm] = qemu[vm] \/ (qemu[vm].pc = "running" /\ qemu'[vm] = Ended),
           \A r \in Cli : /\ WorksOn(r, vm)' <=> WorksOn(r, vm)
                          /\ WorksOn(r, vm) => cli'[r] = cli[r]
    PROVE  VmInv(vm)'
  <1>0. Ended.pc = "ended" /\ Ended.ram = {} /\ Ended.dimms = {}
    BY DEF Ended, NoQemu
  <1>1. Sound(qemu'[vm], HeldOf'[vm], IssuedOf'[vm], vm \in Created')
    BY <1>0 DEF VmInv, Sound
  <1>2. ASSUME NEW r \in Cli, WorksOn(r, vm)
        PROVE  InStep(cli'[r], qemu'[vm], HeldOf'[vm], IssuedOf'[vm], vm \in Created')
    <2>1. InStep(cli[r], qemu[vm], HeldOf[vm], IssuedOf[vm], vm \in Created)
      BY <1>2 DEF VmInv
    <2>2. cli'[r] = cli[r]
      BY <1>2
    <2>. QED
      BY <1>0, <2>1, <2>2 DEF InStep
  <1>3. ASSUME NEW r \in Cli, NEW t \in Cli, r # t, WorksOn(r, vm), WorksOn(t, vm)
        PROVE  Apart(cli'[r], cli'[t])
    BY <1>3 DEF VmInv
  <1>4. \A m : Waits(vm, m) => Waits(vm, m)'
    BY DEF Waits, WorksOn
  <1>5. \A places : Busy(vm, places)' <=> Busy(vm, places)
    BY DEF Busy
  <1>6. AllAccounted(vm)'
    BY <1>0, <1>4, <1>5 DEF VmInv, AllAccounted
  <1>. QED
    BY <1>1, <1>2, <1>3, <1>6 DEF VmInv

\* What has to be known of a step of command p to find the memory of its VM
\* accounted for: this memory is in QEMU, or pending with p; or it was not p that
\* answered for it.
Accounts(p, vm) ==
    vm \in Created' /\ vm \notin left' =>
        /\ vm \in Created /\ vm \notin left
        /\ cli[p].pc # "cleanup"
        /\ qemu'[vm].pc = "none" =>
              /\ qemu[vm].pc = "none"
              /\ cli[p].pc \in Booting => cli'[p].pc \in Booting \cup {"cleanup"}
        /\ qemu'[vm].pc # "ended" => qemu[vm].pc # "ended"
        /\ qemu'[vm].pc # "ended" /\ cli'[p].pc # "cleanup" =>
              \A m \in HeldOf'[vm] :
                  \/ m \in qemu'[vm].ram \cup qemu'[vm].dimms
                  \/ m \in Pending(cli'[p])
                  \/ /\ m \in HeldOf[vm]
                     /\ m \notin qemu[vm].ram \cup qemu[vm].dimms
                     /\ m \notin Pending(cli[p])

\* Only a command at work has memory pending.
LEMMA PendingWorks == \A c : \A m \in Pending(c) : Works(c)
  BY DEF Pending, Works, Booting, Creating, Given

\* Memory stays accounted for.
LEMMA AccountsKept ==
    ASSUME NEW vm, AllAccounted(vm), NEW p \in Cli, Becomes(p, cli'[p]),
           Works(cli[p]) => cli[p].vm = vm, Works(cli'[p]) => cli'[p].vm = vm,
           Accounts(p, vm)
    PROVE  AllAccounted(vm)'
  <1>. SUFFICES ASSUME vm \in Created', vm \notin left'
                PROVE  /\ qemu'[vm].pc = "none" => Busy(vm, Booting \cup {"cleanup"})'
                       /\ qemu'[vm].pc # "ended" /\ ~Busy(vm, {"cleanup"})' =>
                             \A m \in HeldOf'[vm] :
                                 m \in qemu'[vm].ram \cup qemu'[vm].dimms \/ Waits(vm, m)'
    BY DEF AllAccounted
  <1>1. \A r \in Cli \ {p} : cli'[r] = cli[r] /\ (WorksOn(r, vm)' <=> WorksOn(r, vm))
    BY DEF Becomes, WorksOn
  <1>2. Works(cli'[p]) => WorksOn(p, vm)'
    BY DEF WorksOn
  <1>3. qemu'[vm].pc = "none" => Busy(vm, Booting \cup {"cleanup"})'
    <2>. SUFFICES ASSUME qemu'[vm].pc = "none" PROVE Busy(vm, Booting \cup {"cleanup"})'
      OBVIOUS
    <2>1. PICK r \in Cli : WorksOn(r, vm) /\ cli[r].pc \in Booting \cup {"cleanup"}
      BY DEF Accounts, AllAccounted, Busy
    <2>2. CASE r # p
      BY <1>1, <2>1, <2>2 DEF Busy
    <2>3. CASE r = p
      <3>1. cli'[p].pc \in Booting \cup {"cleanup"}
        BY <2>1, <2>3 DEF Accounts
      <3>2. Works(cli'[p])
        BY <3>1 DEF Works, Booting, Creating
      <3>. QED
        BY <1>2, <3>1, <3>2 DEF Busy
    <2>. QED
      BY <2>2, <2>3
  <1>4. ASSUME qemu'[vm].pc # "ended", ~Busy(vm, {"cleanup"})', NEW m \in HeldOf'[vm],
               m \notin qemu'[vm].ram \cup qemu'[vm].dimms
        PROVE  Waits(vm, m)'
    <2>1. cli'[p].pc # "cleanup"
      BY <1>2, <1>4 DEF Busy, Works, Creating
    <2>2. CASE m \in Pending(cli'[p])
      BY <1>2, <2>2, PendingWorks DEF Waits
    <2>3. CASE /\ m \in HeldOf[vm] /\ m \notin qemu[vm].ram \cup qemu[vm].dimms
               /\ m \notin Pending(cli[p])
      <3>1. ~Busy(vm, {"cleanup"})
        BY <1>1, <1>4 DEF Busy, Accounts
      <3>2. PICK r \in Cli : WorksOn(r, vm) /\ m \in Pending(cli[r])
        BY <1>4, <2>3, <3>1 DEF Accounts, AllAccounted, Waits
      <3>3. r # p
        BY <2>3, <3>2
      <3>. QED
        BY <1>1, <3>2, <3>3 DEF Waits
    <2>. QED
      BY <1>4, <2>1, <2>2, <2>3 DEF Accounts
  <1>. QED
    BY <1>3, <1>4

\* A step of command p keeps the invariant of its VM.
Keeps(p, vm) ==
    /\ Sound(qemu'[vm], HeldOf'[vm], IssuedOf'[vm], vm \in Created')
    /\ Works(cli'[p]) =>
          InStep(cli'[p], qemu'[vm], HeldOf'[vm], IssuedOf'[vm], vm \in Created')
    /\ \A r \in Cli \ {p} : WorksOn(r, vm) =>
          /\ InStep(cli[r], qemu'[vm], HeldOf'[vm], IssuedOf'[vm], vm \in Created')
          /\ Works(cli'[p]) => Apart(cli'[p], cli[r])
    /\ AllAccounted(vm)'

\* A step of command p for VM vm, by what it does to vm; of the other VMs at most
\* the QEMUs end.
LEMMA WorkStep ==
    ASSUME CliInv, NEW p \in Cli, NEW vm \in VmId, NEW held, NEW issued,
           TableInv', NoneStarted', Holds(vm, held, issued),
           Becomes(p, cli'[p]), Placed(cli'[p]),
           Works(cli[p]) => cli[p].vm = vm, Works(cli'[p]) => cli'[p].vm = vm,
           \A w \in VmId \ {vm} : /\ w \in left' <=> w \in left
                                  /\ qemu'[w] = qemu[w] \/ (Runs(w) /\ qemu'[w] = Ended),
           qemu' \in [VmId -> Process], left' \subseteq VmId,
           crossed' = crossed \/ crossed' = crossed \cup {vm},
           vm \notin crossed' /\ VmInv(vm) => Keeps(p, vm)
    PROVE  CliInv'
  <1>1. ASSUME NEW r \in Cli PROVE Placed(cli'[r]) /\ (Works(cli'[r]) => cli'[r].vm \in VmId)
    BY DEF CliInv, CmdInv, Becomes
  <1>2. CliTypes'
    BY DEF CliInv, CliTypes, Becomes
  <1>3. ASSUME NEW w \in VmId, w # vm, w \notin crossed' PROVE VmInv(w)'
    <2>1. VmInv(w)
      BY <1>3 DEF CliInv, CmdInv
    <2>2. /\ HeldOf'[w] = HeldOf[w] /\ IssuedOf'[w] = IssuedOf[w]
          /\ w \in Created' <=> w \in Created
      BY <1>3 DEF Holds
    <2>3. \A r \in Cli : /\ WorksOn(r, w)' <=> WorksOn(r, w)
                         /\ WorksOn(r, w) => cli'[r] = cli[r]
      BY <1>3 DEF Becomes, WorksOn
    <2>. QED
      BY <1>3, <2>1, <2>2, <2>3, VmInvKept DEF Runs
  <1>4. ASSUME vm \notin crossed' PROVE VmInv(vm)'
    <2>1. VmInv(vm) /\ Keeps(p, vm)
      BY <1>4 DEF CliInv, CmdInv
    <2>2. \A r \in Cli \ {p} : cli'[r] = cli[r] /\ (WorksOn(r, vm)' <=> WorksOn(r, vm))
      BY DEF Becomes, WorksOn
    <2>3. WorksOn(p, vm)' <=> Works(cli'[p])
      BY DEF WorksOn
    <2>4. ASSUME NEW r \in Cli, WorksOn(r, vm)'
          PROVE  InStep(cli'[r], qemu'[vm], HeldOf'[vm], IssuedOf'[vm], vm \in Created')
      BY <2>1, <2>2, <2>3, <2>4 DEF Keeps
    <2>5. ASSUME NEW r \in Cli, NEW t \in Cli, r # t, WorksOn(r, vm)', WorksOn(t, vm)'
          PROVE  Apart(cli'[r], cli'[t])
      <3>1. CASE r = p
        BY <2>1, <2>2, <2>3, <2>5, <3>1 DEF Keeps
      <3>2. CASE t = p
        BY <2>1, <2>2, <2>3, <2>5, <3>2 DEF Keeps, Apart
      <3>3. CASE r # p /\ t # p
        BY <2>1, <2>2, <2>5, <3>3 DEF VmInv
      <3>. QED
        BY <3>1, <3>2, <3>3
    <2>6. Sound(qemu'[vm], HeldOf'[vm], IssuedOf'[vm], vm \in Created') /\ AllAccounted(vm)'
      BY <2>1 DEF Keeps
    <2>. QED
      BY <2>4, <2>5, <2>6 DEF VmInv
  <1>5. CmdInv'
    BY <1>1, <1>3, <1>4 DEF CmdInv
  <1>. QED
    BY <1>2, <1>5 DEF CliInv

\* A command that works on no VM, before the step and after it.
LEMMA IdleStep ==
    ASSUME CliInv, NEW p \in Cli, ~Works(cli[p]), ~Works(cli'[p]),
           Becomes(p, cli'[p]), Placed(cli'[p]), UNCHANGED <<mngrVars, qemu, left, crossed>>
    PROVE  CliInv'
  <1>1. TableInv' /\ NoneStarted' /\ UNCHANGED <<HeldOf, IssuedOf, Created>>
    BY SameHoldings, NothingChangesInv DEF CliInv
  <1>2. CliTypes'
    BY DEF CliInv, CliTypes, Becomes
  <1>3. ASSUME NEW r \in Cli PROVE Placed(cli'[r]) /\ (Works(cli'[r]) => cli'[r].vm \in VmId)
    BY DEF CliInv, CmdInv, Becomes
  <1>4. \A r \in Cli : \A w : /\ WorksOn(r, w)' <=> WorksOn(r, w)
                              /\ WorksOn(r, w) => cli'[r] = cli[r]
    BY DEF Becomes, WorksOn
  <1>5. ASSUME NEW w \in VmId \ crossed PROVE VmInv(w)'
    BY <1>1, <1>4, VmInvKept DEF CliInv, CmdInv
  <1>6. CmdInv'
    BY <1>3, <1>5 DEF CmdInv
  <1>. QED
    BY <1>1, <1>2, <1>6 DEF CliInv

-----------------------------------------------------------------------------
(* How a command goes on *)

\* One command changes and the others stay.
LEMMA CommandSet ==
    ASSUME CliTypes, NEW p \in Cli, NEW c \in Command, cli' = [cli EXCEPT ![p] = c]
    PROVE  Becomes(p, c)
  BY DEF CliTypes, Becomes

\* A command goes on at another place.
LEMMA GotoEffect ==
    ASSUME CliTypes, NEW p \in Cli, NEW to \in Place, Goto(p, to)
    PROVE  /\ Becomes(p, cli'[p])
           /\ cli'[p].pc = to
           /\ cli'[p].vm = cli[p].vm
           /\ cli'[p].plan = cli[p].plan
           /\ cli'[p].memids = cli[p].memids
           /\ IdsOf(cli'[p]) = IdsOf(cli[p]) /\ LastId(cli'[p]) = LastId(cli[p])
  <1> DEFINE c == [cli[p] EXCEPT !.pc = to]
  <1>1. cli[p] \in Command
    BY DEF CliTypes
  <1>2. c \in Command
    BY <1>1 DEF Command
  <1>3. cli' = [cli EXCEPT ![p] = c]
    BY DEF Goto, CliTypes
  <1>4. Becomes(p, c)
    BY <1>2, <1>3, CommandSet
  <1>5. /\ Becomes(p, cli'[p])
        /\ cli'[p].pc = to
        /\ cli'[p].vm = cli[p].vm
        /\ cli'[p].plan = cli[p].plan
        /\ cli'[p].memids = cli[p].memids
    BY <1>1, <1>4 DEF Becomes, Command
  <1>. QED
    BY <1>5 DEF IdsOf, LastId

\* A place for a command that is free.
LEMMA NoCommandType ==
    /\ NoCommand \in Command /\ Placed(NoCommand) /\ ~Works(NoCommand)
    /\ Pending(NoCommand) = {} /\ NoCommand.pc = "idle"
  BY DEF NoCommand, Command, Place, Plan, Placed, Works, Pending, Booting, Creating, Given

\* A command ends and leaves its place free.
LEMMA EndEffect ==
    ASSUME CliTypes, NEW p \in Cli, End(p)
    PROVE  /\ Becomes(p, cli'[p]) /\ cli'[p] = NoCommand
           /\ Placed(cli'[p]) /\ ~Works(cli'[p])
           /\ Pending(cli'[p]) = {} /\ cli'[p].pc = "idle"
  BY NoCommandType, CommandSet DEF End, Becomes

\* The VM of a command that works.
LEMMA WorkVm ==
    ASSUME CliInv, NEW p \in Cli, Works(cli[p])
    PROVE  /\ Vm(p) \in VmId /\ cli[p].vm = Vm(p) /\ WorksOn(p, Vm(p))
           /\ qemu[Vm(p)] \in Process /\ Placed(cli[p])
  BY DEF CliInv, CmdInv, CliTypes, Vm, WorksOn

\* The types of QEMU processes.
LEMMA QemuTypes ==
    /\ NoQemu \in Process /\ Ended \in Process
    /\ \A q \in Process : \A S \in SUBSET Id :
          /\ [q EXCEPT !.dimms = S] \in Process
          /\ [q EXCEPT !.given_up = S] \in Process
    /\ \A S \in SUBSET Id : [NoQemu EXCEPT !.pc = "running", !.ram = S] \in Process
  BY DEF NoQemu, Ended, Process

\* One QEMU changes and the others stay.
LEMMA QemuSet ==
    ASSUME CliTypes, NEW vm \in VmId, NEW q \in Process, qemu' = [qemu EXCEPT ![vm] = q]
    PROVE  /\ qemu' \in [VmId -> Process]
           /\ qemu'[vm] = q
           /\ \A w \in VmId \ {vm} : qemu'[w] = qemu[w]
  BY DEF CliTypes

\* The ids of a command are memory ids, and its plan names nodes and sizes.
LEMMA CommandParts ==
    ASSUME CliTypes, NEW p \in Cli
    PROVE  /\ cli[p] \in Command
           /\ cli[p].plan \in Plan /\ cli[p].memids \in Seq(Id)
           /\ Len(cli[p].memids) \in Nat /\ Len(cli[p].plan) \in Nat
           /\ IdsOf(cli[p]) \subseteq Id
           /\ Memids(p) = IdsOf(cli[p])
           /\ Len(cli[p].memids) > 0 => LastId(cli[p]) \in IdsOf(cli[p])
           /\ Memid(p) = LastId(cli[p])
  <1>1. cli[p] \in Command
    BY DEF CliTypes
  <1>2. cli[p].plan \in Plan /\ cli[p].memids \in Seq(Id)
    BY <1>1 DEF Command
  <1>3. Len(cli[p].memids) \in Nat /\ Len(cli[p].plan) \in Nat
    BY <1>2 DEF Plan
  <1>4. IdsOf(cli[p]) \subseteq Id
    BY <1>2 DEF IdsOf
  <1>5. Len(cli[p].memids) > 0 => LastId(cli[p]) \in IdsOf(cli[p])
    BY <1>2 DEF IdsOf, LastId
  <1>. QED
    BY <1>1, <1>2, <1>3, <1>4, <1>5 DEF Memids, IdsOf, Memid, LastId

\* A step that does not ask the manager.
LEMMA QuietStep ==
    ASSUME CliInv, UNCHANGED mngrVars, NEW vm \in VmId
    PROVE  /\ TableInv' /\ NoneStarted' /\ Holds(vm, HeldOf[vm], IssuedOf[vm])
           /\ HeldOf' = HeldOf /\ IssuedOf' = IssuedOf /\ Created' = Created
  BY SameHoldings, HoldingsKept DEF CliInv

\* The other commands for a VM stay in step with it while it has what it had.
LEMMA OthersStay ==
    ASSUME NEW vm, VmInv(vm),
           qemu'[vm].pc = qemu[vm].pc, qemu'[vm].ram = qemu[vm].ram,
           qemu'[vm].dimms \subseteq qemu[vm].dimms,
           HeldOf[vm] \subseteq HeldOf'[vm], IssuedOf[vm] \subseteq IssuedOf'[vm],
           vm \in Created' <=> vm \in Created
    PROVE  \A r \in Cli : WorksOn(r, vm) =>
               InStep(cli[r], qemu'[vm], HeldOf'[vm], IssuedOf'[vm], vm \in Created')
  <1>. SUFFICES ASSUME NEW r \in Cli, WorksOn(r, vm)
                PROVE  InStep(cli[r], qemu'[vm], HeldOf'[vm], IssuedOf'[vm], vm \in Created')
    OBVIOUS
  <1>1. InStep(cli[r], qemu[vm], HeldOf[vm], IssuedOf[vm], vm \in Created)
    BY DEF VmInv
  <1>. QED
    BY <1>1 DEF InStep

\* A step that changes nothing but the command's place.
LEMMA QuietKeeps ==
    ASSUME NEW vm, VmInv(vm), NEW p \in Cli, Becomes(p, cli'[p]),
           Works(cli[p]) => cli[p].vm = vm, Works(cli'[p]) => cli'[p].vm = vm,
           HeldOf' = HeldOf, IssuedOf' = IssuedOf, Created' = Created,
           qemu'[vm] = qemu[vm],
           Works(cli'[p]) =>
               /\ InStep(cli'[p], qemu[vm], HeldOf[vm], IssuedOf[vm], vm \in Created)
               /\ \A r \in Cli \ {p} : WorksOn(r, vm) => Apart(cli'[p], cli[r]),
           Accounts(p, vm)
    PROVE  Keeps(p, vm)
  <1>1. Sound(qemu'[vm], HeldOf'[vm], IssuedOf'[vm], vm \in Created')
    BY DEF VmInv
  <1>2. \A r \in Cli : WorksOn(r, vm) =>
               InStep(cli[r], qemu'[vm], HeldOf'[vm], IssuedOf'[vm], vm \in Created')
    BY DEF VmInv
  <1>3. AllAccounted(vm)'
    BY AccountsKept DEF VmInv
  <1>. QED
    BY <1>1, <1>2, <1>3 DEF Keeps

\* A command notes the id of a device that was allocated.
LEMMA IdAppended ==
    ASSUME CliTypes, NEW p \in Cli, NEW m \in Id, NEW to \in Place,
           cli' = [cli EXCEPT ![p].memids = Append(@, m), ![p].pc = to]
    PROVE  /\ Becomes(p, cli'[p])
           /\ cli'[p].pc = to
           /\ cli'[p].vm = cli[p].vm
           /\ cli'[p].plan = cli[p].plan
           /\ Len(cli'[p].memids) = Len(cli[p].memids) + 1
           /\ IdsOf(cli'[p]) = IdsOf(cli[p]) \cup {m}
           /\ LastId(cli'[p]) = m
  <1> DEFINE ids == Append(cli[p].memids, m)
             c == [cli[p] EXCEPT !.memids = ids, !.pc = to]
  <1>1. cli[p] \in Command /\ cli[p].memids \in Seq(Id)
    BY CommandParts
  <1>2. ids \in Seq(Id) /\ Len(ids) = Len(cli[p].memids) + 1
    BY <1>1
  <1>3. cli' = [cli EXCEPT ![p] = c]
    BY DEF CliTypes
  <1>4. {ids[i] : i \in DOMAIN ids} = IdsOf(cli[p]) \cup {m} /\ ids[Len(ids)] = m
    BY <1>1 DEF IdsOf
  <1> HIDE DEF ids
  <1>5. /\ c \in Command /\ c.pc = to /\ c.vm = cli[p].vm /\ c.plan = cli[p].plan
        /\ c.memids = ids
    BY <1>1, <1>2 DEF Command
  <1> HIDE DEF c
  <1>6. Becomes(p, c)
    BY <1>3, <1>5, CommandSet
  <1>7. cli'[p] = c
    BY <1>6 DEF Becomes
  <1>. QED
    BY <1>2, <1>4, <1>5, <1>6, <1>7 DEF IdsOf, LastId

\* alloc-mem for the next channel of the plan, when the answer is 0.
LEMMA AllocMemEffect ==
    ASSUME CliInv, NEW p \in Cli, Works(cli[p]), AllocMem(p, 0),
           Len(cli[p].memids) < Len(cli[p].plan)
    PROVE  LET m == NewMemid(Vm(p))
           IN  /\ TableInv' /\ NoneStarted'
               /\ Vm(p) \in Created /\ Vm(p) \in Created'
               /\ m \in Id \ IssuedOf[Vm(p)]
               /\ Holds(Vm(p), HeldOf[Vm(p)] \cup {m}, IssuedOf[Vm(p)] \cup {m})
  <1>1. Vm(p) \in VmId
    BY WorkVm
  <1>2. NextAllocation(p) \in Node \X (Nat \ {0})
    <2>1. /\ cli[p].plan \in Seq(Node \X (Nat \ {0}))
          /\ Len(cli[p].memids) \in Nat /\ Len(cli[p].plan) \in Nat
      BY CommandParts DEF CliInv, Plan
    <2>2. Len(cli[p].memids) + 1 \in 1 .. Len(cli[p].plan)
      BY <2>1
    <2>. QED
      BY <2>1, <2>2 DEF NextAllocation
  <1>3. PICK malloc_ok \in BOOLEAN :
           vm_mngr_instance_alloc_mem(NextAllocation(p)[1], Vm(p),
                                      NextAllocation(p)[2], malloc_ok, 0)
    BY DEF AllocMem
  <1>4. NextAllocation(p)[2] \in Nat \ {0}
    BY <1>2
  <1>. QED
    BY <1>1, <1>3, <1>4, AllocHoldings DEF CliInv

\* An alloc-mem that fails changes nothing in the manager.
LEMMA AllocMemQuiet ==
    ASSUME CliInv, NEW p, AllocMem(p, -1)
    PROVE  UNCHANGED mngrVars
  BY AllocMemFails DEF AllocMem

\* The ids that are left after the first one was freed.
LEMMA IdDropped ==
    ASSUME CliTypes, NEW p \in Cli, Len(cli[p].memids) > 0, Len(cli[p].memids) # 1,
           cli' = [cli EXCEPT ![p].memids = Tail(@)]
    PROVE  /\ Becomes(p, cli'[p])
           /\ cli'[p].pc = cli[p].pc
           /\ cli'[p].vm = cli[p].vm
           /\ Len(cli'[p].memids) > 0
           /\ IdsOf(cli'[p]) \subseteq IdsOf(cli[p])
           /\ IdsOf(cli[p]) \subseteq IdsOf(cli'[p]) \cup {Head(cli[p].memids)}
  <1> DEFINE ids == Tail(cli[p].memids)
             c == [cli[p] EXCEPT !.memids = ids]
  <1>1. cli[p] \in Command /\ cli[p].memids \in Seq(Id) /\ Len(cli[p].memids) \in Nat
    BY CommandParts
  <1>2. /\ ids \in Seq(Id) /\ Len(ids) = Len(cli[p].memids) - 1
        /\ \A i \in 1 .. Len(ids) : ids[i] = cli[p].memids[i + 1]
    BY <1>1
  <1>3. DOMAIN ids = 1 .. Len(ids) /\ DOMAIN cli[p].memids = 1 .. Len(cli[p].memids)
    BY <1>1, <1>2
  <1>4. cli' = [cli EXCEPT ![p] = c]
    BY DEF CliTypes
  <1>5. Head(cli[p].memids) = cli[p].memids[1]
    BY <1>1
  <1> HIDE DEF ids
  <1>6. {ids[i] : i \in DOMAIN ids} \subseteq IdsOf(cli[p])
    <2>. SUFFICES ASSUME NEW i \in 1 .. Len(ids) PROVE ids[i] \in IdsOf(cli[p])
      BY <1>3
    <2>1. i + 1 \in DOMAIN cli[p].memids
      BY <1>1, <1>2, <1>3
    <2>. QED
      BY <1>2, <2>1 DEF IdsOf
  <1>7. IdsOf(cli[p]) \subseteq {ids[i] : i \in DOMAIN ids} \cup {Head(cli[p].memids)}
    <2>. SUFFICES ASSUME NEW j \in DOMAIN cli[p].memids, j # 1
                  PROVE  cli[p].memids[j] \in {ids[i] : i \in DOMAIN ids}
      BY <1>5 DEF IdsOf
    <2>1. j - 1 \in 1 .. Len(ids) /\ (j - 1) + 1 = j
      BY <1>1, <1>2, <1>3
    <2>2. ids[j - 1] = cli[p].memids[j]
      BY <1>2, <2>1
    <2>. QED
      BY <1>3, <2>1, <2>2
  <1>8. c \in Command /\ c.pc = cli[p].pc /\ c.vm = cli[p].vm /\ c.memids = ids
    BY <1>1, <1>2 DEF Command
  <1> HIDE DEF c
  <1>9. Becomes(p, c) /\ cli'[p] = c
    BY <1>4, <1>8, CommandSet DEF Becomes
  <1> DEFINE S == {ids[i] : i \in DOMAIN ids}
  <1>10. IdsOf(cli'[p]) = S
    BY <1>8, <1>9 DEF IdsOf
  <1>11. /\ S \subseteq IdsOf(cli[p])
         /\ IdsOf(cli[p]) \subseteq S \cup {Head(cli[p].memids)}
    BY <1>6, <1>7
  <1>12. Len(ids) > 0
    <2> DEFINE n == Len(cli[p].memids)
    <2>1. n \in Nat /\ n > 0 /\ n # 1 /\ Len(ids) = n - 1
      BY <1>1, <1>2
    <2> HIDE DEF n
    <2>. QED
      BY <2>1
  <1> HIDE DEF S
  <1>13. /\ IdsOf(cli'[p]) \subseteq IdsOf(cli[p])
         /\ IdsOf(cli[p]) \subseteq IdsOf(cli'[p]) \cup {Head(cli[p].memids)}
    BY <1>10, <1>11
  <1>. QED
    BY <1>8, <1>9, <1>12, <1>13

-----------------------------------------------------------------------------
(* create-vm *)

\* A plan is made.
LEMMA BeginCreateInv ==
    ASSUME CliInv, NEW p \in Cli, BeginCreate(p)
    PROVE  CliInv'
  <1>1. PICK r \in CreateRequest :
           /\ ValidCreate(r)
           /\ \E plan \in build_memory_plan(r) :
                 cli' = [cli EXCEPT ![p].pc = "select", ![p].plan = plan]
    BY DEF BeginCreate
  <1>2. PICK plan \in build_memory_plan(r) :
                 cli' = [cli EXCEPT ![p].pc = "select", ![p].plan = plan]
    BY <1>1
  <1>3. plan \in Plan /\ Len(plan) > 0
    BY <1>1, CreatePlan, RequestAssumption
    DEF CliInv, TableInv, ManagerInv, MngrInv
  <1>4. cli[p] = NoCommand /\ ~Works(cli[p])
    BY NoCommandType DEF BeginCreate, At, CliInv, CmdInv, Placed
  <1> DEFINE c == [cli[p] EXCEPT !.pc = "select", !.plan = plan]
  <1>5. c \in Command /\ Placed(c) /\ ~Works(c)
    <2>1. cli[p] \in Command /\ cli[p].memids = <<>>
      BY <1>4 DEF CliInv, CliTypes, NoCommand
    <2>2. c \in Command /\ c.pc = "select" /\ c.plan = plan /\ c.memids = <<>>
      BY <1>3, <2>1 DEF Command, Place
    <2> HIDE DEF c
    <2>. QED
      BY <1>3, <2>2 DEF Placed, Works, Creating, Given
  <1>6. cli' = [cli EXCEPT ![p] = c]
    BY <1>2 DEF CliInv, CliTypes
  <1> HIDE DEF c
  <1>7. Becomes(p, c) /\ cli'[p] = c
    BY <1>5, <1>6, CommandSet DEF CliInv, Becomes
  <1>. QED
    BY <1>4, <1>5, <1>7, IdleStep DEF BeginCreate

\* select_vmid chooses an id and takes nothing yet.
LEMMA SelectVmidInv ==
    ASSUME CliInv, NEW p \in Cli, SelectVmid(p)
    PROVE  CliInv'
  <1>1. PICK k \in ListLength :
           cli' = [cli EXCEPT ![p].pc = "create", ![p].vm = select_vmid(ListedSlots(k))]
    BY DEF SelectVmid
  <1> DEFINE vm == select_vmid(ListedSlots(k))
             c == [cli[p] EXCEPT !.pc = "create", !.vm = vm]
  <1>2. vm \in Nat
    <2>1. ListedSlots(k) \in SUBSET Slot
      BY DEF ListedSlots
    <2>. QED
      BY <2>1, SelectVmidNat DEF CliInv, TableInv, ManagerInv, MngrInv
  <1> HIDE DEF vm
  <1>3. cli[p] \in Command /\ cli[p].pc = "select" /\ Placed(cli[p]) /\ ~Works(cli[p])
    BY DEF CliInv, CliTypes, SelectVmid, At, CmdInv, Works, Creating, Given
  <1>4. c \in Command /\ Placed(c) /\ ~Works(c)
    BY <1>2, <1>3 DEF Command, Place, Placed, Works, Creating, Given
  <1>5. cli' = [cli EXCEPT ![p] = c]
    BY <1>1, <1>3 DEF CliInv, CliTypes, vm
  <1> HIDE DEF c
  <1>6. Becomes(p, c) /\ cli'[p] = c
    BY <1>4, <1>5, CommandSet DEF CliInv, Becomes
  <1>. QED
    BY <1>3, <1>4, <1>6, IdleStep DEF SelectVmid

\* The manager gives the id to one command; one that is refused ends.
LEMMA CreateVmInv ==
    ASSUME CliInv, NEW p \in Cli, CreateVm(p)
    PROVE  CliInv'
  <1>1. cli[p].pc = "create" /\ Placed(cli[p]) /\ ~Works(cli[p])
    BY DEF CreateVm, At, CliInv, CmdInv, Works, Creating, Given
  <1>2. CASE /\ Vm(p) \in VmId /\ vm_mngr_instance_create(Vm(p), "cores", 0)
             /\ Goto(p, "port")
             /\ qemu' = [qemu EXCEPT ![Vm(p)] = NoQemu]
             /\ left' = left \ {Vm(p)}
             /\ Crosses(Given, Vm(p))
    <2>0. PICK vm \in VmId : vm = Vm(p)
      BY <1>2
    <2>1. /\ TableInv' /\ NoneStarted'
          /\ vm \notin Created /\ vm \in Created'
          /\ Holds(vm, {}, {})
      BY <1>2, <2>0, CreateHoldings DEF CliInv
    <2>2. /\ Becomes(p, cli'[p]) /\ cli'[p].pc = "port" /\ cli'[p].vm = vm
          /\ cli'[p].plan = cli[p].plan /\ cli'[p].memids = cli[p].memids
      BY <1>2, <2>0, GotoEffect DEF Place, CliInv, Vm
    <2>3. /\ qemu' \in [VmId -> Process] /\ qemu'[vm] = NoQemu
          /\ \A w \in VmId \ {vm} : qemu'[w] = qemu[w]
      BY <1>2, <2>0, QemuSet, QemuTypes DEF CliInv
    <2>4. HeldOf'[vm] = {} /\ IssuedOf'[vm] = {}
      BY <2>1 DEF Holds
    <2>5. left' \subseteq VmId /\ vm \notin left' /\ \A w \in VmId \ {vm} : w \in left' <=> w \in left
      BY <1>2, <2>0 DEF CliInv, CliTypes
    <2>6. crossed' = crossed \/ crossed' = crossed \cup {vm}
      BY <1>2, <2>0 DEF Crosses
    <2>7. ASSUME vm \notin crossed', VmInv(vm) PROVE \A r \in Cli : ~WorksOn(r, vm)
      <3>1. \A r \in Cli : WorksOn(r, vm) => cli[r].pc \notin Given
        BY <1>2, <2>0, <2>7 DEF Crosses, WorksOn, Vm
      <3>2. \A r \in Cli : WorksOn(r, vm) => cli[r].pc \notin Creating
        BY <2>1, <2>7 DEF VmInv, InStep
      <3>. QED
        BY <3>1, <3>2 DEF WorksOn, Works
    <2>9. Placed(cli'[p]) /\ Works(cli'[p]) /\ IdsOf(cli'[p]) = {} /\ WorksOn(p, vm)'
      BY <1>1, <2>2 DEF Works, WorksOn, Placed, IdsOf, Creating
    <2>10. ASSUME vm \notin crossed', VmInv(vm) PROVE Keeps(p, vm)
      <3>1. Sound(qemu'[vm], HeldOf'[vm], IssuedOf'[vm], vm \in Created')
        BY <2>3 DEF Sound, NoQemu
      <3>2. InStep(cli'[p], qemu'[vm], HeldOf'[vm], IssuedOf'[vm], vm \in Created')
        BY <2>1, <2>2, <2>3, <2>9 DEF InStep, NoQemu, Booting, Growing
      <3>3. AllAccounted(vm)'
        BY <2>2, <2>4, <2>9 DEF AllAccounted, Busy, Booting
      <3>. QED
        BY <2>7, <2>10, <3>1, <3>2, <3>3 DEF Keeps
    <2>. QED
      BY <1>1, <2>1, <2>2, <2>3, <2>5, <2>6, <2>9, <2>10, WorkStep
  <1>3. CASE /\ vm_mngr_instance_create(Vm(p), "cores", -1)
             /\ End(p)
             /\ UNCHANGED <<qemu, left, crossed>>
    <2>1. UNCHANGED mngrVars
      BY <1>3, CreateFails
    <2>2. Becomes(p, cli'[p]) /\ Placed(cli'[p]) /\ ~Works(cli'[p])
      BY <1>3, EndEffect DEF CliInv
    <2>. QED
      BY <1>1, <1>3, <2>1, <2>2, IdleStep
  <1>. QED
    BY <1>2, <1>3 DEF CreateVm

\* If no port is free, the VM stays behind.
LEMMA PortInv ==
    ASSUME CliInv, NEW p \in Cli, Port(p)
    PROVE  CliInv'
  <1>1. cli[p].pc = "port" /\ Works(cli[p])
    BY DEF Port, At, Works, Creating
  <1>2. PICK vm \in VmId : vm = Vm(p) /\ cli[p].vm = vm /\ WorksOn(p, vm) /\ Placed(cli[p])
    BY <1>1, WorkVm
  <1>3. /\ TableInv' /\ NoneStarted' /\ Holds(vm, HeldOf[vm], IssuedOf[vm])
        /\ HeldOf' = HeldOf /\ IssuedOf' = IssuedOf /\ Created' = Created
    BY <1>2, QuietStep DEF Port
  <1>4. qemu' = qemu /\ qemu' \in [VmId -> Process] /\ crossed' = crossed
    BY DEF Port, CliInv, CliTypes
  <1>5. CASE Goto(p, "alloc_boot") /\ UNCHANGED left
    <2>1. /\ Becomes(p, cli'[p]) /\ cli'[p].pc = "alloc_boot" /\ cli'[p].vm = vm
          /\ cli'[p].plan = cli[p].plan /\ cli'[p].memids = cli[p].memids
          /\ IdsOf(cli'[p]) = IdsOf(cli[p])
      BY <1>2, <1>5, GotoEffect DEF Place, CliInv
    <2>2. left' = left /\ left' \subseteq VmId
      BY <1>5 DEF CliInv, CliTypes
    <2>3. Placed(cli'[p]) /\ Works(cli'[p])
      BY <1>1, <1>2, <2>1 DEF Placed, Works, Creating
    <2>4. ASSUME vm \notin crossed', VmInv(vm) PROVE Keeps(p, vm)
      <3>1. InStep(cli[p], qemu[vm], HeldOf[vm], IssuedOf[vm], vm \in Created)
        BY <1>2, <2>4 DEF VmInv
      <3>2. InStep(cli'[p], qemu[vm], HeldOf[vm], IssuedOf[vm], vm \in Created)
        BY <1>1, <2>1, <3>1 DEF InStep, Booting, Growing, Creating
      <3>3. ASSUME NEW r \in Cli \ {p}, WorksOn(r, vm) PROVE Apart(cli'[p], cli[r])
        <4>1. Apart(cli[p], cli[r])
          BY <1>2, <2>4, <3>3 DEF VmInv
        <4>. QED
          BY <1>1, <2>1, <4>1 DEF Apart, Beside, Booting, Growing, Creating
      <3>4. Pending(cli'[p]) = Pending(cli[p])
        BY <1>1, <2>1 DEF Pending, Booting
      <3>5. Accounts(p, vm)
        BY <1>1, <1>3, <1>4, <2>1, <2>2, <3>4 DEF Accounts, Booting
      <3>. QED
        BY <1>2, <1>3, <1>4, <2>1, <2>4, <3>2, <3>3, <3>5, QuietKeeps
    <2>. QED
      BY <1>2, <1>3, <1>4, <2>1, <2>2, <2>3, <2>4, WorkStep
  <1>6. CASE End(p) /\ left' = left \cup {Vm(p)}
    <2>1. Becomes(p, cli'[p]) /\ Placed(cli'[p]) /\ ~Works(cli'[p])
      BY <1>6, EndEffect DEF CliInv
    <2>2. /\ left' \subseteq VmId /\ vm \in left'
          /\ \A w \in VmId \ {vm} : w \in left' <=> w \in left
      BY <1>2, <1>6 DEF CliInv, CliTypes
    <2>3. ASSUME vm \notin crossed', VmInv(vm) PROVE Keeps(p, vm)
      <3>1. Accounts(p, vm)
        BY <2>2 DEF Accounts
      <3>. QED
        BY <1>2, <1>3, <1>4, <2>1, <2>3, <3>1, QuietKeeps
    <2>. QED
      BY <1>2, <1>3, <1>4, <2>1, <2>2, <2>3, WorkStep
  <1>. QED
    BY <1>5, <1>6 DEF Port

\* create-vm fails, or is interrupted, and goes on to the finally block.
LEMMA ToCleanupInv ==
    ASSUME CliInv, NEW p \in Cli, cli[p].pc \in Creating \ {"cleanup"},
           Goto(p, "cleanup"), UNCHANGED <<mngrVars, qemu, left>>,
           crossed' = crossed \/ crossed' = crossed \cup {Vm(p)},
           Vm(p) \notin crossed' /\ VmInv(Vm(p)) => qemu[Vm(p)].pc # "running"
    PROVE  CliInv'
  <1>1. Works(cli[p])
    BY DEF Works
  <1>2. PICK vm \in VmId : vm = Vm(p) /\ cli[p].vm = vm /\ WorksOn(p, vm)
    BY <1>1, WorkVm
  <1>3. /\ TableInv' /\ NoneStarted' /\ Holds(vm, HeldOf[vm], IssuedOf[vm])
        /\ HeldOf' = HeldOf /\ IssuedOf' = IssuedOf /\ Created' = Created
    BY QuietStep
  <1>4. qemu' = qemu /\ qemu' \in [VmId -> Process] /\ left' = left /\ left' \subseteq VmId
    BY DEF CliInv, CliTypes
  <1>5. Becomes(p, cli'[p]) /\ cli'[p].pc = "cleanup" /\ cli'[p].vm = vm
    BY <1>2, GotoEffect DEF Place, CliInv
  <1>6. Placed(cli'[p])
    BY <1>5 DEF Placed
  <1>7. ASSUME vm \notin crossed', VmInv(vm) PROVE Keeps(p, vm)
    <2>1. InStep(cli[p], qemu[vm], HeldOf[vm], IssuedOf[vm], vm \in Created)
      BY <1>2, <1>7 DEF VmInv
    <2>2. qemu[vm].pc # "running"
      BY <1>2, <1>7
    <2>3. InStep(cli'[p], qemu[vm], HeldOf[vm], IssuedOf[vm], vm \in Created)
      BY <1>5, <2>1, <2>2 DEF InStep, Booting, Growing
    <2>4. ASSUME NEW r \in Cli \ {p}, WorksOn(r, vm) PROVE Apart(cli'[p], cli[r])
      <3>1. Apart(cli[p], cli[r])
        BY <1>2, <1>7, <2>4 DEF VmInv
      <3>. QED
        BY <1>5, <3>1 DEF Apart, Beside, Booting, Growing, Creating
    <2>5. Accounts(p, vm)
      BY <1>3, <1>4, <1>5 DEF Accounts
    <2>. QED
      BY <1>2, <1>3, <1>4, <1>5, <1>7, <2>3, <2>4, <2>5, QuietKeeps
  <1>. QED
    BY <1>2, <1>3, <1>4, <1>5, <1>6, <1>7, WorkStep

\* Memory for the VM to boot with.
LEMMA AllocBootInv ==
    ASSUME CliInv, NEW p \in Cli, AllocBoot(p)
    PROVE  CliInv'
  <1>1. cli[p].pc = "alloc_boot" /\ Works(cli[p])
    BY DEF AllocBoot, At, Works, Creating
  <1>2. PICK vm \in VmId : vm = Vm(p) /\ cli[p].vm = vm /\ WorksOn(p, vm) /\ Placed(cli[p])
    BY <1>1, WorkVm
  <1>3. /\ qemu' = qemu /\ qemu' \in [VmId -> Process] /\ crossed' = crossed
        /\ left' = left /\ left' \subseteq VmId
    BY DEF AllocBoot, CliInv, CliTypes
  <1>4. CASE /\ AllocMem(p, 0)
             /\ cli' = [cli EXCEPT ![p].memids = Append(@, NewMemid(Vm(p))),
                                   ![p].pc = IF LastAllocation(p) THEN "launch" ELSE @]
    <2>1. PICK m \in Id : m = NewMemid(Vm(p)) /\ m \notin IssuedOf[vm]
      BY <1>1, <1>2, <1>4, AllocMemEffect DEF Placed
    <2>2. /\ TableInv' /\ NoneStarted'
          /\ vm \in Created /\ vm \in Created'
          /\ Holds(vm, HeldOf[vm] \cup {m}, IssuedOf[vm] \cup {m})
      BY <1>1, <1>2, <1>4, <2>1, AllocMemEffect DEF Placed
    <2>3. PICK to \in {"alloc_boot", "launch"} :
             /\ to = IF LastAllocation(p) THEN "launch" ELSE cli[p].pc
             /\ cli' = [cli EXCEPT ![p].memids = Append(@, m), ![p].pc = to]
      BY <1>1, <1>4, <2>1 DEF CliInv, CliTypes
    <2>4. /\ Becomes(p, cli'[p]) /\ cli'[p].pc = to /\ cli'[p].vm = vm
          /\ cli'[p].plan = cli[p].plan
          /\ Len(cli'[p].memids) = Len(cli[p].memids) + 1
          /\ IdsOf(cli'[p]) = IdsOf(cli[p]) \cup {m}
      BY <1>2, <2>1, <2>3, IdAppended DEF CliInv, Place
    <2>5. Placed(cli'[p]) /\ Works(cli'[p])
      <3>1. Len(cli[p].memids) \in Nat /\ Len(cli[p].plan) \in Nat
        BY CommandParts DEF CliInv
      <3>2. to = "alloc_boot" => Len(cli[p].memids) + 1 # Len(cli[p].plan)
        BY <1>1, <2>3 DEF LastAllocation
      <3>. QED
        BY <1>1, <1>2, <2>4, <3>1, <3>2 DEF Placed, Works, Creating
    <2>6. HeldOf'[vm] = HeldOf[vm] \cup {m} /\ IssuedOf'[vm] = IssuedOf[vm] \cup {m}
      BY <2>2 DEF Holds
    <2>7. ASSUME vm \notin crossed', VmInv(vm) PROVE Keeps(p, vm)
      <3>1. InStep(cli[p], qemu[vm], HeldOf[vm], IssuedOf[vm], vm \in Created)
        BY <1>2, <2>7 DEF VmInv
      <3>2. Sound(qemu'[vm], HeldOf'[vm], IssuedOf'[vm], vm \in Created')
        BY <1>3, <2>2, <2>6, <2>7 DEF VmInv, Sound
      <3>3. InStep(cli'[p], qemu'[vm], HeldOf'[vm], IssuedOf'[vm], vm \in Created')
        BY <1>1, <1>3, <2>2, <2>4, <2>6, <3>1 DEF InStep, Booting, Growing
      <3>4. ASSUME NEW r \in Cli \ {p}, WorksOn(r, vm) PROVE Apart(cli'[p], cli[r])
        <4>1. Apart(cli[p], cli[r])
          BY <1>2, <2>7, <3>4 DEF VmInv
        <4>2. InStep(cli[r], qemu[vm], HeldOf[vm], IssuedOf[vm], vm \in Created)
          BY <2>7, <3>4 DEF VmInv
        <4>3. cli[r].pc \in Growing => m \notin IdsOf(cli[r])
          BY <2>1, <2>2, <4>2 DEF InStep
        <4>. QED
          BY <1>1, <2>4, <4>1, <4>3 DEF Apart, Beside, Booting, Growing, Creating
      <3>5. Pending(cli[p]) = IdsOf(cli[p]) /\ Pending(cli'[p]) = IdsOf(cli[p]) \cup {m}
        BY <1>1, <2>4 DEF Pending, Booting
      <3>6. Accounts(p, vm)
        BY <1>1, <1>3, <2>2, <2>4, <2>6, <3>5 DEF Accounts, Booting
      <3>7. AllAccounted(vm)'
        BY <1>2, <2>4, <2>7, <3>6, AccountsKept DEF VmInv
      <3>8. \A r \in Cli : WorksOn(r, vm) =>
               InStep(cli[r], qemu'[vm], HeldOf'[vm], IssuedOf'[vm], vm \in Created')
        BY <1>3, <2>2, <2>6, <2>7, OthersStay
      <3>. QED
        BY <3>2, <3>3, <3>4, <3>7, <3>8 DEF Keeps
    <2>. QED
      BY <1>2, <1>3, <2>2, <2>4, <2>5, <2>7, WorkStep
  <1>5. CASE AllocMem(p, -1) /\ Goto(p, "cleanup")
    <2>1. UNCHANGED mngrVars
      BY <1>5, AllocMemQuiet
    <2>2. VmInv(vm) => qemu[vm].pc # "running"
      BY <1>1, <1>2 DEF VmInv, InStep, Booting
    <2>. QED
      BY <1>1, <1>2, <1>3, <1>5, <2>1, <2>2, ToCleanupInv DEF Creating
  <1>. QED
    BY <1>4, <1>5 DEF AllocBoot

\* QEMU starts with the memory that was allocated.
LEMMA LaunchInv ==
    ASSUME CliInv, NEW p \in Cli, Launch(p)
    PROVE  CliInv'
  <1>1. cli[p].pc = "launch" /\ Works(cli[p])
    BY DEF Launch, At, Works, Creating
  <1>2. PICK vm \in VmId : vm = Vm(p) /\ cli[p].vm = vm /\ WorksOn(p, vm)
    BY <1>1, WorkVm
  <1>3. /\ TableInv' /\ NoneStarted' /\ Holds(vm, HeldOf[vm], IssuedOf[vm])
        /\ HeldOf' = HeldOf /\ IssuedOf' = IssuedOf /\ Created' = Created
    BY QuietStep DEF Launch
  <1>4. crossed' = crossed /\ left' = left /\ left' \subseteq VmId /\ UNCHANGED mngrVars
    BY DEF Launch, CliInv, CliTypes
  <1>5. CASE /\ qemu' = [qemu EXCEPT ![Vm(p)] = [NoQemu EXCEPT !.pc = "running",
                                                               !.ram = Memids(p)]]
             /\ Goto(p, "poll")
    <2> DEFINE q == [NoQemu EXCEPT !.pc = "running", !.ram = IdsOf(cli[p])]
    <2>1. q \in Process /\ Memids(p) = IdsOf(cli[p])
      BY CommandParts, QemuTypes DEF CliInv
    <2>2. /\ q.pc = "running" /\ q.ram = IdsOf(cli[p])
          /\ q.dimms = {} /\ q.given_up = {}
      BY DEF NoQemu
    <2>3. qemu' = [qemu EXCEPT ![vm] = q]
      BY <1>2, <1>5, <2>1
    <2> HIDE DEF q
    <2>4. /\ qemu' \in [VmId -> Process] /\ qemu'[vm] = q
          /\ \A w \in VmId \ {vm} : qemu'[w] = qemu[w]
      BY <2>1, <2>3, QemuSet DEF CliInv
    <2>5. Becomes(p, cli'[p]) /\ cli'[p].pc = "poll" /\ cli'[p].vm = vm
      BY <1>2, <1>5, GotoEffect DEF Place, CliInv
    <2>6. Placed(cli'[p])
      BY <2>5 DEF Placed
    <2>7. ASSUME vm \notin crossed', VmInv(vm) PROVE Keeps(p, vm)
      <3>1. InStep(cli[p], qemu[vm], HeldOf[vm], IssuedOf[vm], vm \in Created)
        BY <1>2, <2>7 DEF VmInv
      <3>2. /\ vm \in Created /\ qemu[vm].pc = "none" /\ IdsOf(cli[p]) \subseteq HeldOf[vm]
            /\ qemu[vm].ram = {} /\ qemu[vm].dimms = {}
        BY <1>1, <2>7, <3>1 DEF InStep, Booting, Creating, VmInv, Sound
      <3>3. Sound(qemu'[vm], HeldOf'[vm], IssuedOf'[vm], vm \in Created')
        BY <1>3, <2>2, <2>4, <3>2 DEF Sound
      <3>4. InStep(cli'[p], qemu'[vm], HeldOf'[vm], IssuedOf'[vm], vm \in Created')
        BY <1>3, <2>2, <2>4, <2>5, <3>2 DEF InStep, Booting, Growing
      <3>5. ASSUME NEW r \in Cli \ {p}, WorksOn(r, vm)
            PROVE  /\ InStep(cli[r], qemu'[vm], HeldOf'[vm], IssuedOf'[vm], vm \in Created')
                   /\ Apart(cli'[p], cli[r])
        <4>1. Apart(cli[p], cli[r])
          BY <1>2, <2>7, <3>5 DEF VmInv
        <4>2. InStep(cli[r], qemu[vm], HeldOf[vm], IssuedOf[vm], vm \in Created)
          BY <2>7, <3>5 DEF VmInv
        <4>3. /\ cli[r].pc \notin Creating \cup {"kill", "destroy", "free"}
              /\ cli[r].pc \in Growing => IdsOf(cli[p]) \cap IdsOf(cli[r]) = {}
          BY <1>1, <3>2, <4>1, <4>2 DEF Apart, Beside, InStep, Creating, Booting
        <4>4. InStep(cli[r], qemu'[vm], HeldOf'[vm], IssuedOf'[vm], vm \in Created')
          BY <1>3, <2>2, <2>4, <3>2, <4>2, <4>3 DEF InStep, Booting, Creating
        <4>5. Apart(cli'[p], cli[r])
          BY <2>5, <4>3 DEF Apart, Beside, Creating, Booting, Growing
        <4>. QED
          BY <4>4, <4>5
      <3>6. Pending(cli[p]) = IdsOf(cli[p])
        BY <1>1 DEF Pending, Booting
      <3>7. Accounts(p, vm)
        BY <1>1, <1>3, <1>4, <2>2, <2>4, <3>2, <3>6 DEF Accounts
      <3>8. AllAccounted(vm)'
        BY <1>2, <2>5, <2>7, <3>7, AccountsKept DEF VmInv
      <3>. QED
        BY <3>3, <3>4, <3>5, <3>8 DEF Keeps
    <2>. QED
      BY <1>2, <1>3, <1>4, <2>4, <2>5, <2>6, <2>7, WorkStep
  <1>6. CASE Goto(p, "cleanup") /\ UNCHANGED qemu
    <2>1. VmInv(vm) => qemu[vm].pc # "running"
      BY <1>1, <1>2 DEF VmInv, InStep, Booting
    <2>. QED
      BY <1>1, <1>2, <1>4, <1>6, <2>1, ToCleanupInv DEF Creating
  <1>. QED
    BY <1>5, <1>6 DEF Launch

\* A create-vm whose QEMU runs is over; the other one cleans up.
LEMMA PollInv ==
    ASSUME CliInv, NEW p \in Cli, Poll(p)
    PROVE  CliInv'
  <1>1. cli[p].pc = "poll" /\ Works(cli[p])
    BY DEF Poll, At, Works, Creating
  <1>2. PICK vm \in VmId : vm = Vm(p) /\ cli[p].vm = vm /\ WorksOn(p, vm)
    BY <1>1, WorkVm
  <1>3. /\ TableInv' /\ NoneStarted' /\ Holds(vm, HeldOf[vm], IssuedOf[vm])
        /\ HeldOf' = HeldOf /\ IssuedOf' = IssuedOf /\ Created' = Created
    BY QuietStep DEF Poll
  <1>4. /\ qemu' = qemu /\ qemu' \in [VmId -> Process] /\ crossed' = crossed
        /\ left' = left /\ left' \subseteq VmId
    BY DEF Poll, CliInv, CliTypes
  <1>5. CASE Runs(vm)
    <2>1. /\ Becomes(p, cli'[p]) /\ Placed(cli'[p]) /\ ~Works(cli'[p])
      BY <1>2, <1>5, EndEffect DEF CliInv, Poll
    <2>2. ASSUME vm \notin crossed', VmInv(vm) PROVE Keeps(p, vm)
      <3>1. Pending(cli[p]) = {}
        BY <1>1 DEF Pending, Booting
      <3>2. Accounts(p, vm)
        BY <1>1, <1>3, <1>4, <1>5, <3>1 DEF Accounts, Runs
      <3>. QED
        BY <1>2, <1>3, <1>4, <2>1, <2>2, <3>2, QuietKeeps
    <2>. QED
      BY <1>2, <1>3, <1>4, <2>1, <2>2, WorkStep
  <1>6. CASE ~Runs(vm)
    BY <1>1, <1>2, <1>4, <1>6, ToCleanupInv DEF Creating, Poll, Runs
  <1>. QED
    BY <1>5, <1>6

\* Ctrl-C.
LEMMA InterruptInv ==
    ASSUME CliInv, NEW p \in Cli, Interrupt(p)
    PROVE  CliInv'
  <1>1. Works(cli[p]) /\ cli[p].pc \in Creating \ {"cleanup"}
    BY DEF Interrupt, Works, Creating
  <1>2. PICK vm \in VmId : vm = Vm(p) /\ cli[p].vm = vm /\ WorksOn(p, vm)
    BY <1>1, WorkVm
  <1>3. CASE cli[p].pc = "poll"
    <2>1. vm \notin crossed' => qemu[vm].pc # "running"
      BY <1>2, <1>3 DEF Interrupt, At, Runs
    <2>. QED
      BY <1>1, <1>2, <2>1, ToCleanupInv DEF Interrupt
  <1>4. CASE cli[p].pc \in {"alloc_boot", "launch"}
    <2>1. VmInv(vm) => qemu[vm].pc # "running"
      BY <1>2, <1>4 DEF VmInv, InStep, Booting
    <2>. QED
      BY <1>1, <1>2, <2>1, ToCleanupInv DEF Interrupt
  <1>. QED
    BY <1>3, <1>4 DEF Interrupt

\* destroy-vm, at the end of the command of that name or of a create-vm that failed.
LEMMA DestroyedInv ==
    ASSUME CliInv, NEW p \in Cli, cli[p].pc \in {"cleanup", "destroy"},
           NEW ret, vm_mngr_instance_destroy(Vm(p), ret), End(p),
           UNCHANGED <<qemu, left, crossed>>
    PROVE  CliInv'
  <1>1. Works(cli[p])
    BY DEF Works, Creating, Given
  <1>2. PICK vm \in VmId : vm = Vm(p) /\ cli[p].vm = vm /\ WorksOn(p, vm)
    BY <1>1, WorkVm
  <1>3. TableInv' /\ NoneStarted' /\ vm \notin Created' /\ Holds(vm, {}, {})
    BY <1>2, DestroyHoldings DEF CliInv
  <1>4. /\ qemu' = qemu /\ qemu' \in [VmId -> Process] /\ crossed' = crossed
        /\ left' = left /\ left' \subseteq VmId
    BY DEF CliInv, CliTypes
  <1>5. Becomes(p, cli'[p]) /\ Placed(cli'[p]) /\ ~Works(cli'[p])
    BY EndEffect DEF CliInv
  <1>6. ASSUME vm \notin crossed', VmInv(vm) PROVE Keeps(p, vm)
    <2>1. InStep(cli[p], qemu[vm], HeldOf[vm], IssuedOf[vm], vm \in Created)
      BY <1>2, <1>6 DEF VmInv
    <2>2. qemu[vm].pc # "running" /\ qemu[vm].ram = {} /\ qemu[vm].dimms = {}
      BY <1>6, <2>1 DEF InStep, VmInv, Sound
    <2>3. Sound(qemu'[vm], HeldOf'[vm], IssuedOf'[vm], vm \in Created')
      BY <1>4, <2>2 DEF Sound
    <2>4. ASSUME NEW r \in Cli \ {p}, WorksOn(r, vm)
          PROVE  InStep(cli[r], qemu'[vm], HeldOf'[vm], IssuedOf'[vm], vm \in Created')
      <3>1. Apart(cli[p], cli[r])
        BY <1>2, <1>6, <2>4 DEF VmInv
      <3>2. cli[r].pc \notin Creating
        BY <3>1 DEF Apart, Beside, Creating
      <3>3. InStep(cli[r], qemu[vm], HeldOf[vm], IssuedOf[vm], vm \in Created)
        BY <1>6, <2>4 DEF VmInv
      <3>. QED
        BY <1>3, <1>4, <2>2, <3>2, <3>3 DEF InStep, Booting, Creating
    <2>5. AllAccounted(vm)'
      BY <1>3 DEF AllAccounted
    <2>. QED
      BY <1>5, <2>3, <2>4, <2>5 DEF Keeps
  <1>. QED
    BY <1>2, <1>3, <1>4, <1>5, <1>6, WorkStep

\* The finally block gives everything back.
LEMMA CleanupInv ==
    ASSUME CliInv, NEW p \in Cli, Cleanup(p)
    PROVE  CliInv'
  BY DestroyedInv DEF Cleanup, At
-----------------------------------------------------------------------------
(* The other commands *)

\* A command for a VM begins.  It has no memory yet, and a destroy-vm that finds
\* a create-vm under way crosses it.
LEMMA GivenStep ==
    ASSUME CliInv, NEW p \in Cli, cli[p].pc = "idle", NEW vm \in VmId, NEW c \in Command,
           cli' = [cli EXCEPT ![p] = c], c.vm = vm, c.pc \in {"kill", "alloc", "detach"},
           Placed(c), c.pc = "alloc" => IdsOf(c) = {},
           UNCHANGED <<mngrVars, qemu, left>>,
           crossed' = crossed \/ crossed' = crossed \cup {vm},
           c.pc = "kill" /\ vm \notin crossed' =>
               \A r \in Cli : WorksOn(r, vm) => cli[r].pc \notin Creating
    PROVE  CliInv'
  <1>1. ~Works(cli[p]) /\ Pending(cli[p]) = {}
    BY DEF Works, Pending, Creating, Given, Booting
  <1>2. Becomes(p, cli'[p]) /\ cli'[p] = c
    BY CommandSet DEF CliInv, Becomes
  <1>3. /\ TableInv' /\ NoneStarted' /\ Holds(vm, HeldOf[vm], IssuedOf[vm])
        /\ HeldOf' = HeldOf /\ IssuedOf' = IssuedOf /\ Created' = Created
    BY QuietStep
  <1>4. qemu' = qemu /\ qemu' \in [VmId -> Process] /\ left' = left /\ left' \subseteq VmId
    BY DEF CliInv, CliTypes
  <1>5. ASSUME vm \notin crossed', VmInv(vm) PROVE Keeps(p, vm)
    <2>1. InStep(cli'[p], qemu[vm], HeldOf[vm], IssuedOf[vm], vm \in Created)
      BY <1>2 DEF InStep, Creating, Booting, Growing
    <2>2. ASSUME NEW r \in Cli \ {p}, WorksOn(r, vm) PROVE Apart(cli'[p], cli[r])
      BY <1>2, <1>5, <2>2 DEF Apart, Beside, Creating, Booting, Growing
    <2>3. Accounts(p, vm)
      BY <1>1, <1>3, <1>4 DEF Accounts, Booting
    <2>. QED
      BY <1>1, <1>2, <1>3, <1>4, <1>5, <2>1, <2>2, <2>3, QuietKeeps
  <1>. QED
    BY <1>1, <1>2, <1>3, <1>4, <1>5, WorkStep

\* A command that has not begun.
LEMMA IdleCommand ==
    ASSUME CliInv, NEW p \in Cli, cli[p].pc = "idle"
    PROVE  cli[p] \in Command /\ cli[p] = NoCommand /\ cli[p].memids = <<>>
  BY DEF CliInv, CliTypes, CmdInv, Placed, NoCommand

\* destroy-vm begins.
LEMMA BeginDestroyInv ==
    ASSUME CliInv, NEW p \in Cli, NEW vm \in VmId, BeginDestroy(p, vm)
    PROVE  CliInv'
  <1>1. cli[p].pc = "idle" /\ cli[p] \in Command
    BY IdleCommand DEF BeginDestroy, At
  <1> DEFINE c == [cli[p] EXCEPT !.pc = "kill", !.vm = vm]
  <1>2. cli' = [cli EXCEPT ![p] = c]
    BY DEF BeginDestroy, CliInv, CliTypes
  <1>3. c \in Command /\ c.pc = "kill" /\ c.vm = vm
    BY <1>1, VmIdAssumption DEF Command, Place
  <1> HIDE DEF c
  <1>4. Placed(c)
    BY <1>3 DEF Placed
  <1>5. /\ crossed' = crossed \/ crossed' = crossed \cup {vm}
        /\ vm \notin crossed' => \A r \in Cli : WorksOn(r, vm) => cli[r].pc \notin Creating
    BY DEF BeginDestroy, Crosses, WorksOn, Vm
  <1>. QED
    BY <1>1, <1>2, <1>3, <1>4, <1>5, GivenStep DEF BeginDestroy

\* The kill ends the QEMU of the VM, and perhaps others.
LEMMA KillInv ==
    ASSUME CliInv, NEW p \in Cli, Kill(p)
    PROVE  CliInv'
  <1>1. cli[p].pc = "kill" /\ Works(cli[p])
    BY DEF Kill, At, Works, Given
  <1>2. PICK vm \in VmId : vm = Vm(p) /\ cli[p].vm = vm /\ WorksOn(p, vm)
    BY <1>1, WorkVm
  <1>3. /\ TableInv' /\ NoneStarted' /\ Holds(vm, HeldOf[vm], IssuedOf[vm])
        /\ HeldOf' = HeldOf /\ IssuedOf' = IssuedOf /\ Created' = Created
    BY QuietStep DEF Kill
  <1>4. left' = left /\ left' \subseteq VmId /\ crossed' = crossed
    BY DEF Kill, CliInv, CliTypes
  <1>5. \A w \in VmId : qemu'[w] = qemu[w] \/ (Runs(w) /\ qemu'[w] = Ended)
    BY DEF Kill
  <1>6. qemu' \in [VmId -> Process]
    BY QemuTypes DEF Kill, CliInv, CliTypes
  <1>7. qemu'[vm] = IF Runs(vm) THEN Ended ELSE qemu[vm]
    BY <1>2 DEF Kill, NameMatches
  <1>8. Becomes(p, cli'[p]) /\ cli'[p].pc = "destroy" /\ cli'[p].vm = vm
    BY <1>2, GotoEffect DEF Kill, Place, CliInv
  <1>9. Placed(cli'[p])
    BY <1>8 DEF Placed
  <1>10. Ended.pc = "ended" /\ Ended.ram = {} /\ Ended.dimms = {}
    BY DEF Ended, NoQemu
  <1>11. qemu'[vm].pc # "running"
    BY <1>7, <1>10 DEF Runs
  <1>12. ASSUME vm \notin crossed', VmInv(vm) PROVE Keeps(p, vm)
    <2>1. Sound(qemu'[vm], HeldOf'[vm], IssuedOf'[vm], vm \in Created')
      BY <1>3, <1>7, <1>10, <1>12 DEF VmInv, Sound
    <2>2. InStep(cli'[p], qemu'[vm], HeldOf'[vm], IssuedOf'[vm], vm \in Created')
      BY <1>8, <1>11 DEF InStep, Creating, Booting, Growing
    <2>3. ASSUME NEW r \in Cli \ {p}, WorksOn(r, vm)
          PROVE  /\ InStep(cli[r], qemu'[vm], HeldOf'[vm], IssuedOf'[vm], vm \in Created')
                 /\ Apart(cli'[p], cli[r])
      <3>1. InStep(cli[r], qemu[vm], HeldOf[vm], IssuedOf[vm], vm \in Created)
        BY <1>12, <2>3 DEF VmInv
      <3>2. Apart(cli[p], cli[r])
        BY <1>2, <1>12, <2>3 DEF VmInv
      <3>3. InStep(cli[r], qemu'[vm], HeldOf'[vm], IssuedOf'[vm], vm \in Created')
        BY <1>3, <1>7, <1>10, <3>1 DEF InStep, Runs
      <3>4. Apart(cli'[p], cli[r])
        BY <1>1, <1>8, <3>2 DEF Apart, Beside, Creating, Booting, Growing
      <3>. QED
        BY <3>3, <3>4
    <2>4. Pending(cli[p]) = {}
      BY <1>1 DEF Pending, Booting
    <2>5. Accounts(p, vm)
      BY <1>1, <1>3, <1>4, <1>7, <1>10, <2>4 DEF Accounts, Booting
    <2>6. AllAccounted(vm)'
      BY <1>2, <1>8, <1>12, <2>5, AccountsKept DEF VmInv
    <2>. QED
      BY <2>1, <2>2, <2>3, <2>6 DEF Keeps
  <1>. QED
    BY <1>2, <1>3, <1>4, <1>5, <1>6, <1>8, <1>9, <1>12, WorkStep

\* destroy-vm asks the manager when the QEMU has been killed.
LEMMA DestroyVmInv ==
    ASSUME CliInv, NEW p \in Cli, DestroyVm(p)
    PROVE  CliInv'
  BY DestroyedInv DEF DestroyVm, At

\* attach-mem begins with a plan.
LEMMA BeginAttachInv ==
    ASSUME CliInv, NEW p \in Cli, NEW vm \in VmId, BeginAttach(p, vm)
    PROVE  CliInv'
  <1>1. cli[p].pc = "idle" /\ cli[p] \in Command /\ cli[p].memids = <<>>
    BY IdleCommand DEF BeginAttach, At
  <1>2. PICK r \in AttachRequest, k \in ListLength :
           \E plan \in attach_plan(r, get_vm_mem_nodes(vm, ListedSlots(k))) :
              /\ plan # <<>>
              /\ cli' = [cli EXCEPT ![p].pc = "alloc", ![p].vm = vm, ![p].plan = plan]
    BY DEF BeginAttach
  <1>3. PICK plan \in attach_plan(r, get_vm_mem_nodes(vm, ListedSlots(k))) :
              /\ plan # <<>>
              /\ cli' = [cli EXCEPT ![p].pc = "alloc", ![p].vm = vm, ![p].plan = plan]
    BY <1>2
  <1>4. plan \in Plan
    <2>1. ListedSlots(k) \in SUBSET Slot
      BY DEF ListedSlots
    <2>2. VmTypeOK
      BY DEF CliInv, TableInv, ManagerInv, MngrInv
    <2>3. get_vm_mem_nodes(vm, ListedSlots(k)) \in SUBSET Node
      BY <2>1, <2>2, MemNodes
    <2>. QED
      BY <1>2, <2>2, <2>3, AttachPlan, RequestAssumption
  <1>5. Len(plan) > 0
    BY <1>3, <1>4 DEF Plan
  <1> DEFINE c == [cli[p] EXCEPT !.pc = "alloc", !.vm = vm, !.plan = plan]
  <1>6. cli' = [cli EXCEPT ![p] = c]
    BY <1>3 DEF CliInv, CliTypes
  <1>7. c \in Command /\ c.pc = "alloc" /\ c.vm = vm /\ c.plan = plan /\ c.memids = <<>>
    BY <1>1, <1>4, VmIdAssumption DEF Command, Place
  <1> HIDE DEF c
  <1>8. Placed(c)
    BY <1>5, <1>7 DEF Placed
  <1>9. IdsOf(c) = {}
    BY <1>7 DEF IdsOf
  <1>. QED
    BY <1>1, <1>6, <1>7, <1>8, <1>9, GivenStep DEF BeginAttach

\* A step of attach-mem that fails with nothing done, and goes on to the rollback.
LEMMA ToRollbackInv ==
    ASSUME CliInv, NEW p \in Cli, cli[p].pc \in {"alloc", "attach"},
           cli[p].memids # <<>>,
           Goto(p, "rollback"), UNCHANGED <<mngrVars, qemu, left, crossed>>
    PROVE  CliInv'
  <1>1. Works(cli[p])
    BY DEF Works, Given
  <1>2. PICK vm \in VmId : vm = Vm(p) /\ cli[p].vm = vm /\ WorksOn(p, vm)
    BY <1>1, WorkVm
  <1>3. /\ TableInv' /\ NoneStarted' /\ Holds(vm, HeldOf[vm], IssuedOf[vm])
        /\ HeldOf' = HeldOf /\ IssuedOf' = IssuedOf /\ Created' = Created
    BY QuietStep
  <1>4. qemu' = qemu /\ qemu' \in [VmId -> Process] /\ left' = left /\ left' \subseteq VmId
    BY DEF CliInv, CliTypes
  <1>5. /\ Becomes(p, cli'[p]) /\ cli'[p].pc = "rollback" /\ cli'[p].vm = vm
        /\ cli'[p].memids = cli[p].memids
        /\ IdsOf(cli'[p]) = IdsOf(cli[p]) /\ LastId(cli'[p]) = LastId(cli[p])
    BY <1>2, GotoEffect DEF Place, CliInv
  <1>6. Len(cli[p].memids) > 0
    BY CommandParts DEF CliInv
  <1>7. Placed(cli'[p])
    BY <1>5, <1>6 DEF Placed
  <1>8. ASSUME vm \notin crossed', VmInv(vm) PROVE Keeps(p, vm)
    <2>1. InStep(cli[p], qemu[vm], HeldOf[vm], IssuedOf[vm], vm \in Created)
      BY <1>2, <1>8 DEF VmInv
    <2>2. InStep(cli'[p], qemu[vm], HeldOf[vm], IssuedOf[vm], vm \in Created)
      BY <1>5, <2>1 DEF InStep, Booting, Growing, Creating
    <2>3. ASSUME NEW r \in Cli \ {p}, WorksOn(r, vm) PROVE Apart(cli'[p], cli[r])
      <3>1. Apart(cli[p], cli[r])
        BY <1>2, <1>8, <2>3 DEF VmInv
      <3>. QED
        BY <1>5, <3>1 DEF Apart, Beside, Booting, Growing, Creating
    <2>4. Pending(cli[p]) \subseteq IdsOf(cli[p]) /\ Pending(cli'[p]) = IdsOf(cli[p])
      BY <1>5, <1>6, CommandParts DEF CliInv, Pending, Booting
    <2>5. Accounts(p, vm)
      BY <1>3, <1>4, <1>5, <2>4 DEF Accounts, Booting
    <2>. QED
      BY <1>2, <1>3, <1>4, <1>5, <1>8, <2>2, <2>3, <2>5, QuietKeeps
  <1>. QED
    BY <1>2, <1>3, <1>4, <1>5, <1>7, <1>8, WorkStep

\* A command ends, with everything as it was, and nothing of its own pending.
LEMMA EndQuietInv ==
    ASSUME CliInv, NEW p \in Cli, cli[p].pc \in {"alloc", "detach", "kill", "destroy"},
           End(p), UNCHANGED <<mngrVars, qemu, left, crossed>>
    PROVE  CliInv'
  <1>1. Works(cli[p])
    BY DEF Works, Given
  <1>2. PICK vm \in VmId : vm = Vm(p) /\ cli[p].vm = vm /\ WorksOn(p, vm)
    BY <1>1, WorkVm
  <1>3. /\ TableInv' /\ NoneStarted' /\ Holds(vm, HeldOf[vm], IssuedOf[vm])
        /\ HeldOf' = HeldOf /\ IssuedOf' = IssuedOf /\ Created' = Created
    BY QuietStep
  <1>4. qemu' = qemu /\ qemu' \in [VmId -> Process] /\ left' = left /\ left' \subseteq VmId
    BY DEF CliInv, CliTypes
  <1>5. Becomes(p, cli'[p]) /\ Placed(cli'[p]) /\ ~Works(cli'[p])
    BY EndEffect DEF CliInv
  <1>6. Pending(cli[p]) = {}
    BY DEF Pending, Booting
  <1>7. Accounts(p, vm)
    BY <1>3, <1>4, <1>6 DEF Accounts, Booting
  <1>8. VmInv(vm) => Keeps(p, vm)
    BY <1>2, <1>3, <1>4, <1>5, <1>7, QuietKeeps
  <1>. QED
    BY <1>2, <1>3, <1>4, <1>5, <1>8, WorkStep

\* What a command has allocated and not attached is pending.
LEMMA AllocInv ==
    ASSUME CliInv, NEW p \in Cli, Alloc(p)
    PROVE  CliInv'
  <1>1. cli[p].pc = "alloc" /\ Works(cli[p])
    BY DEF Alloc, At, Works, Given
  <1>2. PICK vm \in VmId : vm = Vm(p) /\ cli[p].vm = vm /\ WorksOn(p, vm) /\ Placed(cli[p])
    BY <1>1, WorkVm
  <1>3. /\ qemu' = qemu /\ qemu' \in [VmId -> Process] /\ crossed' = crossed
        /\ left' = left /\ left' \subseteq VmId
    BY DEF Alloc, CliInv, CliTypes
  <1>4. CASE /\ AllocMem(p, 0)
             /\ cli' = [cli EXCEPT ![p].memids = Append(@, NewMemid(Vm(p))),
                                   ![p].pc = "attach"]
    <2>1. PICK m \in Id : m = NewMemid(Vm(p)) /\ m \notin IssuedOf[vm]
      BY <1>1, <1>2, <1>4, AllocMemEffect DEF Placed
    <2>2. /\ TableInv' /\ NoneStarted'
          /\ vm \in Created /\ vm \in Created'
          /\ Holds(vm, HeldOf[vm] \cup {m}, IssuedOf[vm] \cup {m})
      BY <1>1, <1>2, <1>4, <2>1, AllocMemEffect DEF Placed
    <2>3. /\ Becomes(p, cli'[p]) /\ cli'[p].pc = "attach" /\ cli'[p].vm = vm
          /\ Len(cli'[p].memids) = Len(cli[p].memids) + 1
          /\ IdsOf(cli'[p]) = IdsOf(cli[p]) \cup {m} /\ LastId(cli'[p]) = m
      BY <1>2, <1>4, <2>1, IdAppended DEF CliInv, Place
    <2>4. Placed(cli'[p]) /\ Works(cli'[p])
      <3>1. Len(cli[p].memids) \in Nat
        BY CommandParts DEF CliInv
      <3>. QED
        BY <2>3, <3>1 DEF Placed, Works, Given
    <2>5. HeldOf'[vm] = HeldOf[vm] \cup {m} /\ IssuedOf'[vm] = IssuedOf[vm] \cup {m}
      BY <2>2 DEF Holds
    <2>6. HeldOf[vm] \subseteq IssuedOf[vm] /\ m \notin HeldOf[vm]
      BY <2>1, HoldingsIssued DEF CliInv
    <2>7. ASSUME vm \notin crossed', VmInv(vm) PROVE Keeps(p, vm)
      <3>1. InStep(cli[p], qemu[vm], HeldOf[vm], IssuedOf[vm], vm \in Created)
        BY <1>2, <2>7 DEF VmInv
      <3>2. m \notin qemu[vm].ram /\ m \notin qemu[vm].dimms
        BY <2>1, <2>6, <2>7 DEF VmInv, Sound
      <3>3. Sound(qemu'[vm], HeldOf'[vm], IssuedOf'[vm], vm \in Created')
        BY <1>3, <2>2, <2>5, <2>7 DEF VmInv, Sound
      <3>4. InStep(cli'[p], qemu'[vm], HeldOf'[vm], IssuedOf'[vm], vm \in Created')
        BY <1>1, <1>3, <2>2, <2>3, <2>5, <3>1, <3>2 DEF InStep, Booting, Growing, Creating
      <3>5. ASSUME NEW r \in Cli \ {p}, WorksOn(r, vm) PROVE Apart(cli'[p], cli[r])
        <4>1. Apart(cli[p], cli[r])
          BY <1>2, <2>7, <3>5 DEF VmInv
        <4>2. InStep(cli[r], qemu[vm], HeldOf[vm], IssuedOf[vm], vm \in Created)
          BY <2>7, <3>5 DEF VmInv
        <4>3. cli[r].pc \in Booting => m \notin IdsOf(cli[r])
          BY <2>6, <4>2 DEF InStep
        <4>4. cli[r].pc = "attach" => LastId(cli[r]) \in IdsOf(cli[r])
          BY CommandParts DEF CliInv, CmdInv, Placed
        <4>5. cli[r].pc \in {"attach", "free"} => LastId(cli[r]) # m
          BY <2>1, <2>2, <4>2, <4>4 DEF InStep, Growing
        <4>. QED
          BY <1>1, <2>3, <4>1, <4>3, <4>5 DEF Apart, Beside, Booting, Growing, Creating
      <3>6. Pending(cli[p]) = {} /\ Pending(cli'[p]) = {m}
        BY <1>1, <2>3 DEF Pending, Booting
      <3>7. Accounts(p, vm)
        BY <1>1, <1>3, <2>2, <2>3, <2>5, <3>6 DEF Accounts, Booting
      <3>8. AllAccounted(vm)'
        BY <1>2, <2>3, <2>7, <3>7, AccountsKept DEF VmInv
      <3>9. \A r \in Cli : WorksOn(r, vm) =>
               InStep(cli[r], qemu'[vm], HeldOf'[vm], IssuedOf'[vm], vm \in Created')
        BY <1>3, <2>2, <2>5, <2>7, OthersStay
      <3>. QED
        BY <3>3, <3>4, <3>5, <3>8, <3>9 DEF Keeps
    <2>. QED
      BY <1>2, <1>3, <2>2, <2>3, <2>4, <2>7, WorkStep
  <1>5. CASE AllocMem(p, -1) /\ Raise(p)
    <2>1. UNCHANGED <<mngrVars, qemu, left, crossed>>
      BY <1>3, <1>5, AllocMemQuiet
    <2>2. CASE cli[p].memids = <<>>
      BY <1>1, <1>5, <2>1, <2>2, EndQuietInv DEF Raise
    <2>3. CASE cli[p].memids # <<>>
      BY <1>1, <1>5, <2>1, <2>3, ToRollbackInv DEF Raise
    <2>. QED
      BY <2>2, <2>3
  <1>. QED
    BY <1>4, <1>5 DEF Alloc

\* A DIMM more or less in a QEMU.
LEMMA DimmsSet ==
    ASSUME CliTypes, NEW vm \in VmId, NEW S \in SUBSET Id,
           qemu' = [qemu EXCEPT ![vm].dimms = S]
    PROVE  /\ qemu' \in [VmId -> Process]
           /\ \A w \in VmId \ {vm} : qemu'[w] = qemu[w]
           /\ qemu'[vm].pc = qemu[vm].pc /\ qemu'[vm].ram = qemu[vm].ram
           /\ qemu'[vm].given_up = qemu[vm].given_up
           /\ qemu'[vm].dimms = S
  <1> DEFINE q == [qemu[vm] EXCEPT !.dimms = S]
  <1>1. qemu[vm] \in Process
    BY DEF CliTypes
  <1>2. q \in Process
    BY <1>1, QemuTypes
  <1>3. /\ q.pc = qemu[vm].pc /\ q.ram = qemu[vm].ram
        /\ q.given_up = qemu[vm].given_up /\ q.dimms = S
    BY <1>1 DEF Process
  <1>4. qemu' = [qemu EXCEPT ![vm] = q]
    BY DEF CliTypes
  <1> HIDE DEF q
  <1>5. /\ qemu' \in [VmId -> Process] /\ qemu'[vm] = q
        /\ \A w \in VmId \ {vm} : qemu'[w] = qemu[w]
    BY <1>2, <1>4, QemuSet
  <1>. QED
    BY <1>3, <1>5

\* The DIMM that is plugged is held, is no boot memory, and is nobody else's.
LEMMA PluggedInv ==
    ASSUME CliInv, NEW p \in Cli, cli[p].pc = "attach",
           Runs(Vm(p)), Memid(p) \in Held(Vm(p)),
           qemu' = [qemu EXCEPT ![Vm(p)].dimms = @ \cup {Memid(p)}],
           \/ Goto(p, "alloc") /\ Len(cli[p].memids) < Len(cli[p].plan)
           \/ Goto(p, "rollback")
           \/ End(p),
           UNCHANGED <<mngrVars, left, crossed>>
    PROVE  CliInv'
  <1>1. Works(cli[p])
    BY DEF Works, Given
  <1>2. PICK vm \in VmId : /\ vm = Vm(p) /\ cli[p].vm = vm /\ WorksOn(p, vm)
                           /\ Placed(cli[p]) /\ qemu[vm] \in Process
    BY <1>1, WorkVm
  <1>3. /\ TableInv' /\ NoneStarted' /\ Holds(vm, HeldOf[vm], IssuedOf[vm])
        /\ HeldOf' = HeldOf /\ IssuedOf' = IssuedOf /\ Created' = Created
    BY QuietStep
  <1>4. left' = left /\ left' \subseteq VmId /\ crossed' = crossed
    BY DEF CliInv, CliTypes
  <1>5. PICK m \in Id : m = Memid(p) /\ m = LastId(cli[p]) /\ m \in IdsOf(cli[p])
    BY <1>2, CommandParts DEF CliInv, Placed
  <1>6. m \in HeldOf[vm] /\ m \in IssuedOf[vm] /\ qemu[vm].pc = "running"
    <2>1. HeldOf[vm] = Held(vm)
      BY DEF HeldOf
    <2>. QED
      BY <1>2, <1>5, <2>1, HoldingsIssued DEF CliInv, Runs
  <1>7. /\ qemu' \in [VmId -> Process]
        /\ \A w \in VmId \ {vm} : qemu'[w] = qemu[w]
        /\ qemu'[vm].pc = qemu[vm].pc /\ qemu'[vm].ram = qemu[vm].ram
        /\ qemu'[vm].given_up = qemu[vm].given_up
        /\ qemu'[vm].dimms = qemu[vm].dimms \cup {m}
    <2>1. PICK S \in SUBSET Id : S = qemu[vm].dimms \cup {m}
      BY <1>2 DEF Process
    <2>2. qemu' = [qemu EXCEPT ![vm].dimms = S]
      BY <1>2, <1>5, <2>1 DEF CliInv, CliTypes
    <2>3. CliTypes
      BY DEF CliInv
    <2>. QED
      BY ONLY vm \in VmId, S \in SUBSET Id, <2>1, <2>2, <2>3, DimmsSet
  <1>8. /\ Becomes(p, cli'[p]) /\ Placed(cli'[p])
        /\ \/ ~Works(cli'[p])
           \/ /\ cli'[p].pc \in {"alloc", "rollback"} /\ cli'[p].vm = vm
              /\ IdsOf(cli'[p]) = IdsOf(cli[p])
    <2>1. CASE Goto(p, "alloc") /\ Len(cli[p].memids) < Len(cli[p].plan)
      <3>1. /\ Becomes(p, cli'[p]) /\ cli'[p].pc = "alloc" /\ cli'[p].vm = vm
            /\ cli'[p].plan = cli[p].plan /\ cli'[p].memids = cli[p].memids
            /\ IdsOf(cli'[p]) = IdsOf(cli[p])
        BY <1>2, <2>1, GotoEffect DEF Place, CliInv
      <3>. QED
        BY <2>1, <3>1 DEF Placed
    <2>2. CASE Goto(p, "rollback")
      <3>1. /\ Becomes(p, cli'[p]) /\ cli'[p].pc = "rollback" /\ cli'[p].vm = vm
            /\ cli'[p].memids = cli[p].memids /\ IdsOf(cli'[p]) = IdsOf(cli[p])
        BY <1>2, <2>2, GotoEffect DEF Place, CliInv
      <3>. QED
        BY <1>2, <3>1 DEF Placed
    <2>3. CASE End(p)
      BY <2>3, EndEffect DEF CliInv
    <2>. QED
      BY <2>1, <2>2, <2>3
  <1>9. ASSUME vm \notin crossed', VmInv(vm) PROVE Keeps(p, vm)
    <2>1. InStep(cli[p], qemu[vm], HeldOf[vm], IssuedOf[vm], vm \in Created)
      BY <1>2, <1>9 DEF VmInv
    <2>2. m \notin qemu[vm].ram /\ IdsOf(cli[p]) \cap qemu[vm].ram = {}
      BY <1>5, <2>1 DEF InStep, Growing
    <2>3. Sound(qemu'[vm], HeldOf'[vm], IssuedOf'[vm], vm \in Created')
      BY <1>3, <1>6, <1>7, <1>9, <2>2 DEF VmInv, Sound
    <2>4. Works(cli'[p]) =>
             InStep(cli'[p], qemu'[vm], HeldOf'[vm], IssuedOf'[vm], vm \in Created')
      BY <1>3, <1>7, <1>8, <2>1 DEF InStep, Booting, Growing, Creating
    <2>5. ASSUME NEW r \in Cli \ {p}, WorksOn(r, vm)
          PROVE  /\ InStep(cli[r], qemu'[vm], HeldOf'[vm], IssuedOf'[vm], vm \in Created')
                 /\ Works(cli'[p]) => Apart(cli'[p], cli[r])
      <3>1. Apart(cli[p], cli[r])
        BY <1>2, <1>9, <2>5 DEF VmInv
      <3>2. InStep(cli[r], qemu[vm], HeldOf[vm], IssuedOf[vm], vm \in Created)
        BY <1>9, <2>5 DEF VmInv
      <3>3. cli[r].pc \in {"attach", "free"} => LastId(cli[r]) # m
        BY <1>5, <3>1 DEF Apart, Beside
      <3>4. InStep(cli[r], qemu'[vm], HeldOf'[vm], IssuedOf'[vm], vm \in Created')
        BY <1>3, <1>6, <1>7, <3>2, <3>3 DEF InStep
      <3>5. Works(cli'[p]) => Apart(cli'[p], cli[r])
        BY <1>8, <3>1 DEF Apart, Beside, Booting, Growing, Creating
      <3>. QED
        BY <3>4, <3>5
    <2>6. Pending(cli[p]) = {m}
      BY <1>5 DEF Pending
    <2>7. Accounts(p, vm)
      BY <1>3, <1>4, <1>6, <1>7, <2>6 DEF Accounts
    <2>8. AllAccounted(vm)'
      BY <1>2, <1>8, <1>9, <2>7, AccountsKept DEF VmInv
    <2>. QED
      BY <2>3, <2>4, <2>5, <2>8 DEF Keeps
  <1>. QED
    BY <1>2, <1>3, <1>4, <1>7, <1>8, <1>9, WorkStep

\* An attach-mem that failed may have plugged the DIMM, or not.
LEMMA AttachMemInv ==
    ASSUME CliInv, NEW p \in Cli, AttachMem(p)
    PROVE  CliInv'
  <1>1. cli[p].pc = "attach" /\ UNCHANGED <<mngrVars, left, crossed>>
    BY DEF AttachMem, At
  <1> DEFINE Plugs == /\ Runs(Vm(p)) /\ Memid(p) \in Held(Vm(p))
                      /\ qemu' = [qemu EXCEPT ![Vm(p)].dimms = @ \cup {Memid(p)}]
  <1>2. CASE Plugs /\ IF Len(cli[p].memids) < Len(cli[p].plan) THEN Goto(p, "alloc") ELSE End(p)
    BY <1>1, <1>2, PluggedInv
  <1>3. CASE Plugs /\ Goto(p, "rollback")
    BY <1>1, <1>3, PluggedInv
  <1>4. CASE UNCHANGED qemu /\ Goto(p, "rollback")
    <2>1. cli[p].memids # <<>>
      BY <1>1 DEF CliInv, CmdInv, Placed
    <2>. QED
      BY <1>1, <1>4, <2>1, ToRollbackInv
  <1>. QED
    BY <1>2, <1>3, <1>4 DEF AttachMem

\* The rollback frees what this attach-mem has allocated: no boot memory.
LEMMA RollbackInv ==
    ASSUME CliInv, NEW p \in Cli, Rollback(p)
    PROVE  CliInv'
  <1>1. cli[p].pc = "rollback" /\ Works(cli[p])
    BY DEF Rollback, At, Works, Given
  <1>2. PICK vm \in VmId : /\ vm = Vm(p) /\ cli[p].vm = vm /\ WorksOn(p, vm)
                           /\ Placed(cli[p]) /\ qemu[vm] \in Process
    BY <1>1, WorkVm
  <1>3. left' = left /\ left' \subseteq VmId /\ crossed' = crossed
    BY DEF Rollback, CliInv, CliTypes
  <1>4. cli[p].memids \in Seq(Id) /\ Len(cli[p].memids) \in Nat /\ Len(cli[p].memids) > 0
    BY <1>1, <1>2, CommandParts DEF CliInv, Placed
  <1>5. PICK m \in Id : m = Head(cli[p].memids) /\ m \in IdsOf(cli[p])
    <2>1. /\ Head(cli[p].memids) = cli[p].memids[1] /\ 1 \in DOMAIN cli[p].memids
          /\ Head(cli[p].memids) \in Id
      BY <1>4
    <2>. QED
      BY <2>1 DEF IdsOf
  <1>6. /\ TableInv' /\ NoneStarted' /\ (vm \in Created' <=> vm \in Created)
        /\ Holds(vm, HeldOf[vm] \ {m}, IssuedOf[vm])
    BY <1>2, <1>5, FreeHoldings DEF Rollback, CliInv
  <1>7. HeldOf'[vm] = HeldOf[vm] \ {m} /\ IssuedOf'[vm] = IssuedOf[vm]
    BY <1>6 DEF Holds
  <1>8. /\ qemu' \in [VmId -> Process]
        /\ \A w \in VmId \ {vm} : qemu'[w] = qemu[w]
        /\ qemu'[vm].pc = qemu[vm].pc /\ qemu'[vm].ram = qemu[vm].ram
        /\ qemu'[vm].given_up = qemu[vm].given_up \cup ({m} \cap qemu[vm].dimms)
        /\ qemu'[vm].dimms = qemu[vm].dimms
    <2> DEFINE G == qemu[vm].given_up \cup ({m} \cap qemu[vm].dimms)
               q == [qemu[vm] EXCEPT !.given_up = G]
    <2>1. qemu' = [qemu EXCEPT ![vm] = q]
      BY <1>2, <1>5 DEF Rollback, CliInv, CliTypes
    <2>2. G \in SUBSET Id
      BY <1>2 DEF Process
    <2> HIDE DEF G
    <2>3. q \in Process
      BY <1>2, <2>2, QemuTypes
    <2>4. /\ q.pc = qemu[vm].pc /\ q.ram = qemu[vm].ram
          /\ q.given_up = G /\ q.dimms = qemu[vm].dimms
      BY <1>2 DEF Process
    <2> HIDE DEF q
    <2>5. /\ qemu' \in [VmId -> Process] /\ qemu'[vm] = q
          /\ \A w \in VmId \ {vm} : qemu'[w] = qemu[w]
      BY <2>1, <2>3, QemuSet DEF CliInv
    <2>. QED
      BY <2>4, <2>5 DEF G
  <1>9. /\ Becomes(p, cli'[p]) /\ Placed(cli'[p])
        /\ IdsOf(cli[p]) \subseteq Pending(cli'[p]) \cup {m}
        /\ cli'[p].pc # "cleanup"
        /\ \/ ~Works(cli'[p])
           \/ /\ cli'[p].pc = "rollback" /\ cli'[p].vm = vm
              /\ IdsOf(cli'[p]) \subseteq IdsOf(cli[p])
    <2>1. CASE Len(cli[p].memids) = 1 /\ End(p)
      <3>1. IdsOf(cli[p]) = {m}
        BY <1>4, <1>5, <2>1 DEF IdsOf
      <3>. QED
        BY <2>1, <3>1, EndEffect DEF CliInv
    <2>2. CASE Len(cli[p].memids) # 1 /\ cli' = [cli EXCEPT ![p].memids = Tail(@)]
      <3>1. /\ Becomes(p, cli'[p])
            /\ cli'[p].pc = "rollback" /\ cli'[p].vm = vm
            /\ Len(cli'[p].memids) > 0
            /\ IdsOf(cli'[p]) \subseteq IdsOf(cli[p])
            /\ IdsOf(cli[p]) \subseteq IdsOf(cli'[p]) \cup {m}
        BY <1>1, <1>2, <1>4, <1>5, <2>2, IdDropped DEF CliInv
      <3>2. Placed(cli'[p])
        BY <3>1 DEF Placed
      <3>3. Pending(cli'[p]) = IdsOf(cli'[p])
        BY <3>1 DEF Pending, Booting
      <3>. QED
        BY <3>1, <3>2, <3>3
    <2>. QED
      BY <2>1, <2>2 DEF Rollback
  <1>10. ASSUME vm \notin crossed', VmInv(vm) PROVE Keeps(p, vm)
    <2>1. InStep(cli[p], qemu[vm], HeldOf[vm], IssuedOf[vm], vm \in Created)
      BY <1>2, <1>10 DEF VmInv
    <2>2. IdsOf(cli[p]) \cap qemu[vm].ram = {}
      BY <1>1, <2>1 DEF InStep, Growing
    <2>3. Sound(qemu'[vm], HeldOf'[vm], IssuedOf'[vm], vm \in Created')
      BY <1>5, <1>6, <1>7, <1>8, <1>10, <2>2 DEF VmInv, Sound
    <2>4. Works(cli'[p]) =>
             InStep(cli'[p], qemu'[vm], HeldOf'[vm], IssuedOf'[vm], vm \in Created')
      BY <1>1, <1>6, <1>7, <1>8, <1>9, <2>1 DEF InStep, Booting, Growing, Creating
    <2>5. ASSUME NEW r \in Cli \ {p}, WorksOn(r, vm)
          PROVE  /\ InStep(cli[r], qemu'[vm], HeldOf'[vm], IssuedOf'[vm], vm \in Created')
                 /\ Works(cli'[p]) => Apart(cli'[p], cli[r])
      <3>1. Apart(cli[p], cli[r])
        BY <1>2, <1>10, <2>5 DEF VmInv
      <3>2. InStep(cli[r], qemu[vm], HeldOf[vm], IssuedOf[vm], vm \in Created)
        BY <1>10, <2>5 DEF VmInv
      <3>3. cli[r].pc \in Booting => m \notin IdsOf(cli[r])
        BY <1>1, <1>5, <3>1 DEF Apart, Beside, Growing
      <3>4. InStep(cli[r], qemu'[vm], HeldOf'[vm], IssuedOf'[vm], vm \in Created')
        BY <1>6, <1>7, <1>8, <3>2, <3>3 DEF InStep
      <3>5. Works(cli'[p]) => Apart(cli'[p], cli[r])
        BY <1>1, <1>9, <3>1 DEF Apart, Beside, Booting, Growing, Creating
      <3>. QED
        BY <3>4, <3>5
    <2>6. Pending(cli[p]) = IdsOf(cli[p])
      BY <1>1 DEF Pending, Booting
    <2>7. Accounts(p, vm)
      BY <1>1, <1>3, <1>6, <1>7, <1>8, <1>9, <2>6 DEF Accounts, Booting
    <2>8. AllAccounted(vm)'
      BY <1>2, <1>9, <1>10, <2>7, AccountsKept DEF VmInv
    <2>. QED
      BY <2>3, <2>4, <2>5, <2>8 DEF Keeps
  <1>. QED
    BY <1>2, <1>3, <1>6, <1>8, <1>9, <1>10, WorkStep

\* detach-mem begins, for any memory id.
LEMMA BeginDetachInv ==
    ASSUME CliInv, NEW p \in Cli, NEW vm \in VmId, NEW m \in Id, BeginDetach(p, vm, m)
    PROVE  CliInv'
  <1>1. cli[p].pc = "idle" /\ cli[p] \in Command
    BY IdleCommand DEF BeginDetach, At
  <1> DEFINE c == [cli[p] EXCEPT !.pc = "detach", !.vm = vm, !.memids = <<m>>]
  <1>2. cli' = [cli EXCEPT ![p] = c]
    BY DEF BeginDetach, CliInv, CliTypes
  <1>3. <<m>> \in Seq(Id) /\ Len(<<m>>) = 1
    OBVIOUS
  <1>4. c \in Command /\ c.pc = "detach" /\ c.vm = vm /\ c.memids = <<m>>
    BY <1>1, <1>3, VmIdAssumption DEF Command, Place
  <1> HIDE DEF c
  <1>5. Placed(c)
    BY <1>3, <1>4 DEF Placed
  <1>. QED
    BY <1>1, <1>2, <1>4, <1>5, GivenStep DEF BeginDetach

\* A DIMM that was unplugged is in QEMU no more, and can be freed.
LEMMA DetachMemInv ==
    ASSUME CliInv, NEW p \in Cli, DetachMem(p)
    PROVE  CliInv'
  <1>1. cli[p].pc = "detach" /\ Works(cli[p]) /\ UNCHANGED <<mngrVars, crossed>>
    BY DEF DetachMem, At, Works, Given
  <1>2. PICK vm \in VmId : /\ vm = Vm(p) /\ cli[p].vm = vm /\ WorksOn(p, vm)
                           /\ Placed(cli[p]) /\ qemu[vm] \in Process
    BY <1>1, WorkVm
  <1>3. /\ TableInv' /\ NoneStarted' /\ Holds(vm, HeldOf[vm], IssuedOf[vm])
        /\ HeldOf' = HeldOf /\ IssuedOf' = IssuedOf /\ Created' = Created
    BY <1>1, QuietStep
  <1>4. CASE UNCHANGED <<qemu, left>> /\ End(p)
    BY <1>1, <1>4, EndQuietInv
  <1>5. CASE /\ Runs(Vm(p)) /\ Memid(p) \in Held(Vm(p)) \cap qemu[Vm(p)].dimms
             /\ qemu' = [qemu EXCEPT ![Vm(p)].dimms = @ \ {Memid(p)}]
             /\ \/ Goto(p, "free") /\ UNCHANGED left
                \/ End(p) /\ left' = left \cup {Vm(p)}
    <2>1. PICK m \in Id : m = Memid(p) /\ m = LastId(cli[p])
      BY <1>1, <1>2, CommandParts DEF CliInv, Placed
    <2>2. /\ qemu' \in [VmId -> Process]
          /\ \A w \in VmId \ {vm} : qemu'[w] = qemu[w]
          /\ qemu'[vm].pc = qemu[vm].pc /\ qemu'[vm].ram = qemu[vm].ram
          /\ qemu'[vm].given_up = qemu[vm].given_up
          /\ qemu'[vm].dimms = qemu[vm].dimms \ {m}
      <3>1. PICK S \in SUBSET Id : S = qemu[vm].dimms \ {m}
        BY <1>2 DEF Process
      <3>2. qemu' = [qemu EXCEPT ![vm].dimms = S]
        BY <1>2, <1>5, <2>1, <3>1 DEF CliInv, CliTypes
      <3>. QED
        BY <3>1, <3>2, DimmsSet DEF CliInv
    <2>3. qemu[vm].pc = "running" /\ m \in qemu[vm].dimms
      BY <1>2, <1>5, <2>1 DEF Runs
    <2>4. /\ left' \subseteq VmId /\ \A w \in VmId \ {vm} : w \in left' <=> w \in left
          /\ vm \notin left' => vm \notin left
      BY <1>2, <1>5 DEF CliInv, CliTypes
    <2>5. /\ Becomes(p, cli'[p]) /\ Placed(cli'[p])
          /\ \/ ~Works(cli'[p]) /\ vm \in left'
             \/ /\ cli'[p].pc = "free" /\ cli'[p].vm = vm /\ LastId(cli'[p]) = m
      <3>1. CASE Goto(p, "free")
        <4>1. /\ Becomes(p, cli'[p]) /\ cli'[p].pc = "free" /\ cli'[p].vm = vm
              /\ cli'[p].memids = cli[p].memids /\ LastId(cli'[p]) = m
          BY <1>2, <2>1, <3>1, GotoEffect DEF Place, CliInv
        <4>. QED
          BY <1>1, <1>2, <4>1 DEF Placed
      <3>2. CASE End(p) /\ left' = left \cup {Vm(p)}
        BY <1>2, <3>2, EndEffect DEF CliInv
      <3>. QED
        BY <1>5, <3>1, <3>2
    <2>6. ASSUME vm \notin crossed', VmInv(vm) PROVE Keeps(p, vm)
      <3>1. /\ m \notin qemu[vm].ram /\ m \in IssuedOf[vm]
        BY <2>3, <2>6 DEF VmInv, Sound
      <3>2. Sound(qemu'[vm], HeldOf'[vm], IssuedOf'[vm], vm \in Created')
        BY <1>3, <2>2, <2>6 DEF VmInv, Sound
      <3>3. Works(cli'[p]) =>
               InStep(cli'[p], qemu'[vm], HeldOf'[vm], IssuedOf'[vm], vm \in Created')
        BY <1>3, <2>2, <2>3, <2>5, <3>1 DEF InStep, Booting, Growing, Creating
      <3>4. ASSUME NEW r \in Cli \ {p}, WorksOn(r, vm), Works(cli'[p])
            PROVE  Apart(cli'[p], cli[r])
        <4>1. InStep(cli[r], qemu[vm], HeldOf[vm], IssuedOf[vm], vm \in Created)
          BY <2>6, <3>4 DEF VmInv
        <4>2. cli[r].pc = "attach" => LastId(cli[r]) # m
          BY <2>3, <4>1 DEF InStep
        <4>. QED
          BY <2>5, <3>4, <4>2 DEF Apart, Beside, Booting, Growing, Creating
      <3>5. \A r \in Cli : WorksOn(r, vm) =>
               InStep(cli[r], qemu'[vm], HeldOf'[vm], IssuedOf'[vm], vm \in Created')
        BY <1>3, <2>2, <2>6, OthersStay
      <3>6. Pending(cli[p]) = {} /\ (cli'[p].pc = "free" => Pending(cli'[p]) = {m})
        BY <1>1, <2>5 DEF Pending, Booting, Works, Given
      <3>7. Accounts(p, vm)
        BY <1>1, <1>3, <2>2, <2>3, <2>4, <2>5, <3>6 DEF Accounts
      <3>8. AllAccounted(vm)'
        BY <1>2, <2>5, <2>6, <3>7, AccountsKept DEF VmInv
      <3>. QED
        BY <3>2, <3>3, <3>4, <3>5, <3>8 DEF Keeps
    <2>. QED
      BY <1>1, <1>2, <1>3, <2>2, <2>4, <2>5, <2>6, WorkStep
  <1>. QED
    BY <1>4, <1>5 DEF DetachMem

\* The memory that is freed was unplugged.
LEMMA FreeMemCliInv ==
    ASSUME CliInv, NEW p \in Cli, FreeMem(p)
    PROVE  CliInv'
  <1>1. cli[p].pc = "free" /\ Works(cli[p])
    BY DEF FreeMem, At, Works, Given
  <1>2. PICK vm \in VmId : vm = Vm(p) /\ cli[p].vm = vm /\ WorksOn(p, vm)
    BY <1>1, WorkVm
  <1>3. /\ qemu' = qemu /\ qemu' \in [VmId -> Process] /\ crossed' = crossed
        /\ left' = left /\ left' \subseteq VmId
    BY DEF FreeMem, CliInv, CliTypes
  <1>4. PICK m : m = Memid(p) /\ m = LastId(cli[p])
    BY CommandParts DEF CliInv
  <1>5. /\ TableInv' /\ NoneStarted' /\ (vm \in Created' <=> vm \in Created)
        /\ Holds(vm, HeldOf[vm] \ {m}, IssuedOf[vm])
    BY <1>2, <1>4, FreeHoldings DEF FreeMem, CliInv
  <1>6. HeldOf'[vm] = HeldOf[vm] \ {m} /\ IssuedOf'[vm] = IssuedOf[vm]
    BY <1>5 DEF Holds
  <1>7. Becomes(p, cli'[p]) /\ Placed(cli'[p]) /\ ~Works(cli'[p])
    BY EndEffect DEF CliInv, FreeMem
  <1>8. ASSUME vm \notin crossed', VmInv(vm) PROVE Keeps(p, vm)
    <2>1. InStep(cli[p], qemu[vm], HeldOf[vm], IssuedOf[vm], vm \in Created)
      BY <1>2, <1>8 DEF VmInv
    <2>2. qemu[vm].pc # "none" /\ m \notin qemu[vm].ram \cup qemu[vm].dimms
      BY <1>1, <1>4, <2>1 DEF InStep
    <2>3. Sound(qemu'[vm], HeldOf'[vm], IssuedOf'[vm], vm \in Created')
      BY <1>3, <1>5, <1>6, <1>8, <2>2 DEF VmInv, Sound
    <2>4. ASSUME NEW r \in Cli \ {p}, WorksOn(r, vm)
          PROVE  InStep(cli[r], qemu'[vm], HeldOf'[vm], IssuedOf'[vm], vm \in Created')
      <3>1. InStep(cli[r], qemu[vm], HeldOf[vm], IssuedOf[vm], vm \in Created)
        BY <1>8, <2>4 DEF VmInv
      <3>. QED
        BY <1>3, <1>5, <1>6, <2>2, <3>1 DEF InStep
    <2>5. Pending(cli[p]) = {m}
      BY <1>1, <1>4 DEF Pending
    <2>6. Accounts(p, vm)
      BY <1>1, <1>3, <1>5, <1>6, <2>2, <2>5 DEF Accounts
    <2>7. AllAccounted(vm)'
      BY <1>2, <1>7, <1>8, <2>6, AccountsKept DEF VmInv
    <2>. QED
      BY <1>7, <2>3, <2>4, <2>7 DEF Keeps
  <1>. QED
    BY <1>2, <1>3, <1>5, <1>7, <1>8, WorkStep
-----------------------------------------------------------------------------
(* What can happen besides *)

\* A command that is killed leaves its VM behind, unless it had nothing to see
\* through.
LEMMA KilledInv ==
    ASSUME CliInv, NEW p \in Cli, Killed(p)
    PROVE  CliInv'
  <1>1. UNCHANGED <<mngrVars, qemu, crossed>> /\ End(p)
    BY DEF Killed
  <1>2. CASE cli[p].pc \in {"select", "create"}
    <2>1. UNCHANGED left /\ ~Works(cli[p])
      BY <1>2 DEF Killed, Works, Creating, Given
    <2>2. Becomes(p, cli'[p]) /\ Placed(cli'[p]) /\ ~Works(cli'[p])
      BY <1>1, EndEffect DEF CliInv
    <2>. QED
      BY <1>1, <2>1, <2>2, IdleStep
  <1>3. CASE cli[p].pc \in {"kill", "destroy", "detach"}
    BY <1>1, <1>3, EndQuietInv DEF Killed
  <1>4. CASE cli[p].pc \notin {"select", "create", "kill", "destroy", "detach"}
    <2>1. Works(cli[p])
      BY <1>4, CommandParts DEF CliInv, Killed, Works, Creating, Given, Command, Place
    <2>2. PICK vm \in VmId : vm = Vm(p) /\ cli[p].vm = vm /\ WorksOn(p, vm)
      BY <2>1, WorkVm
    <2>3. /\ TableInv' /\ NoneStarted' /\ Holds(vm, HeldOf[vm], IssuedOf[vm])
          /\ HeldOf' = HeldOf /\ IssuedOf' = IssuedOf /\ Created' = Created
      BY <1>1, QuietStep
    <2>4. qemu' = qemu /\ qemu' \in [VmId -> Process] /\ crossed' = crossed
      BY <1>1 DEF CliInv, CliTypes
    <2>5. Becomes(p, cli'[p]) /\ Placed(cli'[p]) /\ ~Works(cli'[p])
      BY <1>1, EndEffect DEF CliInv
    <2>6. /\ left' \subseteq VmId /\ vm \in left'
          /\ \A w \in VmId \ {vm} : w \in left' <=> w \in left
      BY <1>4, <2>2 DEF Killed, CliInv, CliTypes
    <2>7. Accounts(p, vm)
      BY <2>6 DEF Accounts
    <2>8. VmInv(vm) => Keeps(p, vm)
      BY <2>2, <2>3, <2>4, <2>5, <2>7, QuietKeeps
    <2>. QED
      BY <2>2, <2>3, <2>4, <2>5, <2>6, <2>8, WorkStep
  <1>. QED
    BY <1>2, <1>3, <1>4

\* No command and no table changes, but QEMUs may end.
LEMMA CommandsStay ==
    ASSUME CliInv, UNCHANGED <<mngrVars, cli, left, crossed>>, qemu' \in [VmId -> Process],
           \A w \in VmId : qemu'[w] = qemu[w] \/ (Runs(w) /\ qemu'[w] = Ended)
    PROVE  CliInv'
  <1>1. /\ TableInv' /\ NoneStarted'
        /\ HeldOf' = HeldOf /\ IssuedOf' = IssuedOf /\ Created' = Created
    BY SameHoldings, NothingChangesInv DEF CliInv
  <1>2. ASSUME NEW w \in VmId \ crossed PROVE VmInv(w)'
    <2>1. VmInv(w)
      BY DEF CliInv, CmdInv
    <2>2. \A r \in Cli : WorksOn(r, w)' <=> WorksOn(r, w)
      BY DEF WorksOn
    <2>. QED
      BY <1>1, <2>1, <2>2, VmInvKept DEF Runs
  <1>3. CmdInv'
    BY <1>2 DEF CliInv, CmdInv
  <1>. QED
    BY <1>1, <1>3 DEF CliInv, CliTypes

\* A QEMU that ends uses no memory any more.
LEMMA QemuEndsInv ==
    ASSUME CliInv, NEW vm \in VmId, QemuEnds(vm)
    PROVE  CliInv'
  <1>1. /\ qemu' \in [VmId -> Process] /\ qemu'[vm] = Ended
        /\ \A w \in VmId \ {vm} : qemu'[w] = qemu[w]
    BY QemuSet, QemuTypes DEF QemuEnds, CliInv
  <1>. QED
    BY <1>1, CommandsStay DEF QemuEnds

-----------------------------------------------------------------------------
(* The theorems *)

\* At first there are no VMs and no commands.
LEMMA CliInitInv == CliInit => CliInv
  <1>. SUFFICES ASSUME CliInit PROVE CliInv
    OBVIOUS
  <1>1. TableInv
    BY VmInitInv DEF CliInit
  <1>2. NoneStarted /\ \A s \in Slot : ~VMs[s].initialized
    BY DEF CliInit, VmInit, NoneStarted
  <1>3. \A vm : Instances(vm) = {}
    BY <1>2 DEF Instances
  <1>4. Created = {}
    BY <1>3 DEF Created
  <1>5. /\ \A p \in Cli : cli[p] = NoCommand
        /\ \A vm \in VmId : qemu[vm] = NoQemu
    BY DEF CliInit
  <1>6. CliTypes
    BY NoCommandType, QemuTypes DEF CliInit, CliTypes
  <1>7. \A p \in Cli : Placed(cli[p]) /\ ~Works(cli[p])
    BY <1>5, NoCommandType
  <1>8. ASSUME NEW vm \in VmId PROVE VmInv(vm)
    <2>1. Sound(qemu[vm], HeldOf[vm], IssuedOf[vm], vm \in Created)
      BY <1>5 DEF Sound, NoQemu
    <2>2. AllAccounted(vm)
      BY <1>4 DEF AllAccounted
    <2>. QED
      BY <1>7, <2>1, <2>2 DEF VmInv, WorksOn
  <1>9. CmdInv
    BY <1>7, <1>8 DEF CmdInv
  <1>. QED
    BY <1>1, <1>2, <1>6, <1>9 DEF CliInv

\* Every step keeps the invariant.
LEMMA CliNextInv ==
    ASSUME CliInv, [CliNext]_allVars
    PROVE  CliInv'
  <1>1. ASSUME NEW p \in Cli, Begin(p) PROVE CliInv'
    <2>1. CASE BeginCreate(p)
      BY <2>1, BeginCreateInv
    <2>2. CASE \E vm \in VmId : BeginDestroy(p, vm)
      BY <2>2, BeginDestroyInv
    <2>3. CASE \E vm \in VmId : BeginAttach(p, vm)
      BY <2>3, BeginAttachInv
    <2>4. CASE \E vm \in VmId : \E m \in 0 .. (MaxMemdev - 1) : BeginDetach(p, vm, m)
      BY <2>4, BeginDetachInv DEF Id
    <2>. QED
      BY <1>1, <2>1, <2>2, <2>3, <2>4 DEF Begin
  <1>2. ASSUME NEW p \in Cli, Continue(p) PROVE CliInv'
    <2>1. CASE \/ SelectVmid(p) \/ CreateVm(p) \/ Port(p) \/ AllocBoot(p)
               \/ Launch(p) \/ Poll(p) \/ Interrupt(p) \/ Cleanup(p)
      BY <2>1, SelectVmidInv, CreateVmInv, PortInv, AllocBootInv, LaunchInv, PollInv,
         InterruptInv, CleanupInv
    <2>2. CASE Kill(p) \/ DestroyVm(p)
      BY <2>2, KillInv, DestroyVmInv
    <2>3. CASE Alloc(p) \/ AttachMem(p) \/ Rollback(p)
      BY <2>3, AllocInv, AttachMemInv, RollbackInv
    <2>4. CASE DetachMem(p) \/ FreeMem(p)
      BY <2>4, DetachMemInv, FreeMemCliInv
    <2>. QED
      BY <1>2, <2>1, <2>2, <2>3, <2>4 DEF Continue
  <1>3. CASE UNCHANGED allVars
    <2>1. UNCHANGED <<mngrVars, cli, qemu, left, crossed>>
      BY <1>3 DEF allVars, cliVars
    <2>. QED
      BY <2>1, CommandsStay DEF CliInv, CliTypes
  <1>. QED
    BY <1>1, <1>2, <1>3, KilledInv, QemuEndsInv DEF CliNext

\* The invariant holds throughout.
LEMMA CliInvariant == CliSpec => []CliInv
  <1>1. CliInit => CliInv
    BY CliInitInv
  <1>2. CliInv /\ [CliNext]_allVars => CliInv'
    BY CliNextInv
  <1>. QED
    BY <1>1, <1>2, PTL DEF CliSpec

\* Commands stay where ramryder_cli can be, with ids and plans the manager can
\* serve, and QEMU has memory ids the manager can have given.
THEOREM CliTypesAlways == CliSpec => []CliTypeOK
  <1>1. CliInv => CliTypeOK
    BY DEF CliInv, CliTypes, CliTypeOK, Command, Process, Place, Plan, Id,
           TableInv, ManagerInv, MngrInv
  <1>. QED
    BY <1>1, CliInvariant, PTL

\* No order of create-vm, destroy-vm, attach-mem and detach-mem, with any number
\* of operators, VMs and nodes and any number of commands for the same VM at the
\* same time, gives memory back to the pool that a running QEMU still uses, but
\* for DIMMs given up by the rollback of an attach-mem, and for VM ids with a
\* create-vm that was crossed, or interrupted with its QEMU running.
THEOREM QemuMemoryAlwaysHeld == CliSpec => []QemuMemoryIsHeld
  <1>1. CliInv => QemuMemoryIsHeld
    <2>. SUFFICES ASSUME CliInv, NEW vm \in VmId \ crossed, Runs(vm)
                  PROVE  (qemu[vm].ram \cup qemu[vm].dimms) \ qemu[vm].given_up
                             \subseteq Held(vm)
      BY DEF QemuMemoryIsHeld
    <2>1. VmInv(vm) /\ HeldOf[vm] = Held(vm)
      BY DEF CliInv, CmdInv, HeldOf
    <2>. QED
      BY <2>1 DEF VmInv, Sound
  <1>. QED
    BY <1>1, CliInvariant, PTL

\* When every command is over, every VM has had a QEMU and its memory is in it,
\* unless a command was killed, found no port, or failed half way in detach-mem,
\* or the create-vm was crossed or interrupted with its QEMU running: each error
\* path of the script cleans up what it must, and nothing else.
THEOREM NothingEverLeaked == CliSpec => []NothingLeaked
  <1>1. CliInv => NothingLeaked
    <2>. SUFFICES ASSUME CliInv, \A p \in Cli : At(p, "idle"),
                         NEW vm \in VmId \ (left \cup crossed), Instances(vm) # {}
                  PROVE  /\ qemu[vm].pc # "none"
                         /\ Runs(vm) => Held(vm) \subseteq qemu[vm].ram \cup qemu[vm].dimms
      BY DEF NothingLeaked
    <2>1. \A p \in Cli : ~WorksOn(p, vm)
      BY DEF At, WorksOn, Works, Creating, Given
    <2>2. vm \in Created
      BY DEF Created
    <2>3. AllAccounted(vm) /\ HeldOf[vm] = Held(vm)
      BY DEF CliInv, CmdInv, VmInv, HeldOf
    <2>. QED
      BY <2>1, <2>2, <2>3 DEF AllAccounted, Busy, Waits, Runs
  <1>. QED
    BY <1>1, CliInvariant, PTL

\* Whatever get-vms leaves out, the manager's create-vm gives an id to one of
\* the commands that chose it, and the others leave the VM alone.
THEOREM OneCreatorAlways == CliSpec => []OneCreatorPerVm
  <1>1. CliInv => OneCreatorPerVm
    <2>. SUFFICES ASSUME CliInv, NEW p \in Cli, NEW q \in Cli, p # q,
                         cli[p].pc \in Creating, cli[q].pc \in Creating,
                         Vm(p) \notin crossed, Vm(p) = Vm(q)
                  PROVE  FALSE
      BY DEF OneCreatorPerVm
    <2>1. PICK vm \in VmId \ crossed : WorksOn(p, vm) /\ WorksOn(q, vm)
      BY WorkVm DEF Works, Vm, WorksOn
    <2>2. Apart(cli[p], cli[q])
      BY <2>1 DEF CliInv, CmdInv, VmInv
    <2>. QED
      BY <2>2 DEF Apart, Beside
  <1>. QED
    BY <1>1, CliInvariant, PTL

\* The choice of channels misses no plan and makes no wrong one: create-vm, and
\* attach-mem with new channels, on any finite pool with anything free on its nodes.
THEOREM PlanAlwaysFound == CliSpec => []PlanFoundIfAny
  <1>1. ASSUME NEW free \in [PlanNode -> PlanMb], NEW r \in CreateRequest, ValidCreate(r),
               NEW existing \in SUBSET PlanNode,
               NEW found \in {choose_allocations_for_tier(PlanNode \ existing, free,
                                                         split_memory(r.memory, r.channels)),
                              choose_allocations_for_tier_attach(PlanNode, free, r.memory,
                                                                 r.channels, existing)}
        PROVE  /\ found # {} <=> Placeable(PlanNode \ existing, free,
                                          split_memory(r.memory, r.channels))
               /\ \A plan \in found : IsPlanFor(plan, PlanNode \ existing, free,
                                                split_memory(r.memory, r.channels))
    <2> DEFINE sizes == split_memory(r.memory, r.channels)
               fresh == PlanNode \ existing
               create == choose_allocations_for_tier(fresh, free, sizes)
               attach == choose_allocations_for_tier_attach(PlanNode, free, r.memory,
                                                            r.channels, existing)
    <2>1. r.memory \in Nat /\ r.channels \in Nat \ {0} /\ r.memory >= r.channels
      BY <1>1, RequestAssumption DEF ValidCreate, Sizes
    <2>2. sizes \in Seq(Nat \ {0})
      BY <2>1, SplitMemory
    <2>3. /\ PlanNode \in SUBSET Int /\ IsFiniteSet(PlanNode)
          /\ \A n \in PlanNode : free[n] \in Int
      <3>1. PlanNode \in SUBSET Int /\ IsFiniteSet(PlanNode) /\ PlanMb \in SUBSET Int
        BY PlanAssumption
      <3>2. \A n \in PlanNode : free[n] \in PlanMb
        OBVIOUS
      <3>3. \A n \in PlanNode : free[n] \in Int
        BY <3>1, <3>2, Zenon
      <3>. QED
        BY <3>1, <3>3
    <2>4. fresh \in SUBSET Int /\ IsFiniteSet(fresh) /\ \A n \in fresh : free[n] \in Int
      BY <2>3, FS_Difference
    <2>5. ChoiceIsRight(create, fresh, free, sizes)
      BY <2>2, <2>4, TierPlans
    <2>6. ChoiceIsRight(attach, fresh, free, sizes)
      <3> DEFINE memory_mb == r.memory
                 channels == r.channels
      <3>1. memory_mb \in Nat /\ channels \in Nat \ {0} /\ memory_mb >= channels
        BY <2>1
      <3> HIDE DEF memory_mb, channels
      <3>2. ChoiceIsRight(choose_allocations_for_tier_attach(PlanNode, free, memory_mb, channels,
                                                             existing),
                          PlanNode \ existing, free, split_memory(memory_mb, channels))
        BY <2>3, <3>1, AttachNewChannels
      <3>. QED
        BY <3>2 DEF memory_mb, channels
    <2>7. ChoiceIsRight(found, fresh, free, sizes)
      BY <1>1, <2>5, <2>6
    <2>. QED
      BY <2>7, Zenon DEF ChoiceIsRight
  <1>2. PlanFoundIfAny
    BY <1>1, Zenon DEF PlanFoundIfAny
  <1>. QED
    BY <1>2, PTL
=============================================================================
