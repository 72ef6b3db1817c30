--------------------------- MODULE VmManagerProofs ---------------------------
(***************************************************************************)
(* What the operations of the VM manager keep, whoever calls them: for any *)
(* devices, any VM ids, any table size and any arguments.  ResourceManager *)
(* and RamryderCli call them in different orders, and both rest on this.   *)
(*                                                                         *)
(* TableInv has three parts.                                               *)
(* ManagerInv: the VM table, the agents, the perf events and the segment   *)
(* counters are in step.  Its conjuncts lean on each other: the counters   *)
(* are natural numbers because they are cardinalities; the agent table     *)
(* follows the running VMs because no id is in the table twice; and the    *)
(* pool's calls need the types of the devices on the VMs' lists.           *)
(* Accounted: the pool's map and the VMs' lists of devices describe the    *)
(* same memory.  MemoryAccounted is not inductive: a device on a list has  *)
(* to lie inside its DAX device and begin and end at segments, or the pool *)
(* would take back only a part of it (DevicesFit).  With that,             *)
(* release_segments never stops half way, so that no device stays on a     *)
(* list with holes in it.                                                  *)
(* DevicesNumbered: the index of a device is its name, unique and below    *)
(* the counter the next one is taken from.                                 *)
(***************************************************************************)
EXTENDS VmManager, MemoryPoolProofs

MngrInv ==
    /\ VmTypeOK
    /\ UsedSegmentsExact
    /\ VmTableConsistent
    /\ AgentsMatchRunning

\* With the two assertions that guard the manager's own bookkeeping.
ManagerInv == MngrInv /\ InternalAssertionsHold

\* What allocate_segments made of a request.
DeviceFits(d) ==
    /\ d.node_id \in Node
    /\ d.offset_mb \in Nat /\ is_aligned(d.offset_mb)
    /\ d.size_mb \in Nat /\ is_aligned(d.size_mb)
    /\ DevWindow(d) \subseteq Index(d.node_id)

DevicesFit == \A s \in Live : \A d \in VMs[s].attached_devs : DeviceFits(d)

Accounted == MemoryAccounted /\ DevicesFit

\* memdev_counter names the devices of a live VM: no two have the same index,
\* and the next index is new.  No device is empty.
DevicesNumbered ==
    \A s \in Live :
        /\ VMs[s].vm_id \in VmId
        /\ VMs[s].memdev_counter <= MaxMemdev
        /\ \A d \in VMs[s].attached_devs :
              d.memdev_idx < VMs[s].memdev_counter /\ NumSegments(d.size_mb) > 0
        /\ \A d, e \in VMs[s].attached_devs : d.memdev_idx = e.memdev_idx => d = e

TableInv == ManagerInv /\ Accounted /\ DevicesNumbered

\* A call that changes no table: it was refused, or ended in an assertion.
NothingChanges == UNCHANGED mngrVars \/ \E reason : BUG_ON(reason)

-----------------------------------------------------------------------------
(* The VM table, slot by slot *)

\* Slots of the table can be counted.
LEMMA SlotsFinite ==
    ASSUME NEW S \in SUBSET Slot
    PROVE  IsFiniteSet(S) /\ Cardinality(S) \in Nat
  <1>1. IsFiniteSet(Slot)
    BY MaxNumVmAssumption, FS_Interval DEF Slot
  <1> QED
    BY <1>1, FS_Subset, FS_CardinalityType

\* The ids on a list of VMs are finitely many.
LEMMA IdsFinite ==
    ASSUME NEW S \in SUBSET Slot
    PROVE  IsFiniteSet({VMs[s].vm_id : s \in S})
  <1> DEFINE f == [s \in S |-> VMs[s].vm_id]
  <1>1. IsFiniteSet(S)
    BY SlotsFinite
  <1>2. {VMs[s].vm_id : s \in S} = {f[s] : s \in S}
    OBVIOUS
  <1>3. f \in Surjection(S, {f[s] : s \in S})
    BY DEF Surjection
  <1> HIDE DEF f
  <1>. QED
    BY <1>1, <1>2, <1>3, FS_Surjection

\* The least of some natural numbers: they are well ordered.
LEMMA LeastNat ==
    ASSUME NEW T \in SUBSET Nat, T # {}
    PROVE  \E x \in T : \A y \in T : x <= y
  <1> DEFINE R == OpToRel(<, Nat)
  <1>1. IsWellFoundedOn(R, Nat)
    BY NatLessThanWellFounded
  <1>2. \A x, y \in Nat : <<y, x>> \in R <=> y < x
    BY Zenon DEF OpToRel
  <1> HIDE DEF R
  <1>3. \E x \in T : \A y \in T : ~(<<y, x>> \in R)
    BY <1>1, WFMin
  <1>4. PICK x \in T : \A y \in T : ~(<<y, x>> \in R)
    BY <1>3
  <1>5. ASSUME NEW y \in T PROVE x <= y
    <2>1. x \in Nat /\ y \in Nat
      OBVIOUS
    <2>2. ~(<<y, x>> \in R)
      BY <1>4
    <2>3. ~(y < x)
      BY Zenon, <1>2, <2>1, <2>2
    <2>. QED
      BY <2>1, <2>3
  <1>. QED
    BY <1>5

\* The slots of the running VMs, as AgentsMatchRunning counts them.
Running == {t \in Live : VMs[t].running}

\* The lookup of an id finds the one slot that holds it.
LEMMA InstanceIsLive ==
    ASSUME VmTypeOK, NEW vm, NEW s \in Slot, vm_mngr_get_instance(vm, s)
    PROVE  s \in Live /\ VMs[s].vm_id = vm
  BY DEF vm_mngr_get_instance, Instances, Live

\* An operation that leaves ids and the initialized flags alone, and lets only
\* live VMs run.
LEMMA SameIds ==
    ASSUME VmTableConsistent,
           \A t \in Slot : /\ VMs'[t].vm_id = VMs[t].vm_id
                           /\ (VMs'[t].initialized <=> VMs[t].initialized)
                           /\ (VMs'[t].running => VMs[t].initialized),
           UNCHANGED count
    PROVE  Live' = Live /\ VmTableConsistent'
  <1>1. Live' = Live
    BY DEF Live
  <1>2. count' = Cardinality(Live')
    BY <1>1 DEF VmTableConsistent
  <1>3. \A t, u \in Live' : VMs'[t].vm_id = VMs'[u].vm_id => t = u
    BY <1>1 DEF VmTableConsistent, Live
  <1>4. \A t \in Slot : VMs'[t].running => t \in Live'
    BY <1>1 DEF Live
  <1> QED
    BY <1>1, <1>2, <1>3, <1>4 DEF VmTableConsistent

\* An operation that leaves every slot's id and flags alone, and the agents,
\* keeps the table consistent: memory operations do not disturb it.
LEMMA SameTable ==
    ASSUME VmTableConsistent, AgentsMatchRunning,
           \A t \in Slot : /\ VMs'[t].vm_id = VMs[t].vm_id
                           /\ (VMs'[t].initialized <=> VMs[t].initialized)
                           /\ (VMs'[t].running <=> VMs[t].running)
                           /\ (VMs'[t].perf_open <=> VMs[t].perf_open),
           UNCHANGED <<count, agentVars>>
    PROVE  VmTableConsistent' /\ AgentsMatchRunning'
  <1>1. \A t \in Slot : VMs'[t].running => VMs[t].initialized
    BY DEF VmTableConsistent, Live
  <1>2. Live' = Live /\ VmTableConsistent'
    BY <1>1, SameIds DEF agentVars
  <1>3. {VMs'[s].vm_id : s \in {t \in Live' : VMs'[t].running}}
           = {VMs[s].vm_id : s \in {t \in Live : VMs[t].running}}
    BY <1>2 DEF Live
  <1>4. AgentsMatchRunning'
    BY <1>3 DEF AgentsMatchRunning, agentVars
  <1> QED
    BY <1>2, <1>4

\* Filling a free slot with a new id.
LEMMA CreateTable ==
    ASSUME MngrInv, NEW vm \in VmId, NEW core_set \in CoreSet, NEW s \in Slot,
           ~VMs[s].initialized, ~CreateRefused(vm), CreateIn(s, vm, core_set)
    PROVE  MngrInv'
  <1>1. /\ \A t \in Slot \ {s} : VMs'[t] = VMs[t]
        /\ VMs'[s].vm_id = vm
        /\ VMs'[s].initialized
        /\ VMs'[s].running = VMs[s].running
        /\ VMs'[s].perf_open = VMs[s].perf_open
    BY DEF CreateIn, MngrInv, VmTypeOK, VmInstance
  <1>2. VMs' \in [Slot -> VmInstance]
    BY DEF CreateIn, MngrInv, VmTypeOK, VmInstance
  <1>3. ~VMs[s].running
    BY DEF MngrInv, VmTableConsistent, Live
  <1>4. Live' = Live \cup {s} /\ s \notin Live
    BY <1>1 DEF Live
  <1>5. Cardinality(Live') = Cardinality(Live) + 1
    BY <1>4, SlotsFinite, FS_AddElement DEF Live
  <1>6. count' = count + 1 /\ UNCHANGED <<poolVars, agentVars, abort>>
    BY DEF CreateIn
  <1>7. \A t \in Live : VMs[t].vm_id # vm
    BY DEF CreateRefused, Instances, Live
  <1>8. VmTableConsistent'
    BY <1>1, <1>3, <1>4, <1>5, <1>6, <1>7 DEF MngrInv, VmTableConsistent, Live
  <1>9. AgentsMatchRunning'
    <2>1. {VMs'[t].vm_id : t \in {u \in Live' : VMs'[u].running}}
             = {VMs[t].vm_id : t \in {u \in Live : VMs[u].running}}
      BY <1>1, <1>3, <1>4 DEF Live
    <2> QED
      BY <1>1, <1>3, <1>6, <2>1 DEF MngrInv, AgentsMatchRunning, agentVars
  <1>10. VmTypeOK' /\ UsedSegmentsExact'
    BY <1>2, <1>6 DEF MngrInv, VmTypeOK, agentVars, poolVars, PoolTypeOK,
                      UsedSegmentsExact, Allocated
  <1> QED
    BY <1>8, <1>9, <1>10 DEF MngrInv

\* What start, stop and destroy write into a slot is a VM again.
LEMMA SlotTypes ==
    ASSUME VmTypeOK, NEW s \in Slot, NEW r \in VmInstance,
           VMs' = [VMs EXCEPT ![s] = r]
    PROVE  VMs' \in [Slot -> VmInstance]
  BY DEF VmTypeOK

\* Flags of a slot set or cleared.
LEMMA FlagTypes ==
    ASSUME NEW r \in VmInstance, NEW b \in BOOLEAN
    PROVE  /\ [r EXCEPT !.running = b, !.perf_open = b] \in VmInstance
           /\ [r EXCEPT !.core_set = "", !.initialized = b] \in VmInstance
  BY DEF VmInstance, CoreSet

\* Giving up the slot of a VM that is not running.
LEMMA DestroyTable ==
    ASSUME MngrInv, NEW vm \in Nat, NEW s \in Live, ~VMs[s].running,
           DestroyIn(s, vm)
    PROVE  MngrInv'
  <1>1. /\ \A t \in Slot \ {s} : VMs'[t] = VMs[t]
        /\ VMs'[s].vm_id = VMs[s].vm_id
        /\ ~VMs'[s].initialized
        /\ VMs'[s].running = VMs[s].running
        /\ VMs'[s].perf_open = VMs[s].perf_open
    BY DEF DestroyIn, MngrInv, VmTypeOK, VmInstance, Live
  <1>2. VMs' \in [Slot -> VmInstance]
    <2>1. VMs[s] \in VmInstance /\ s \in Slot
      BY DEF MngrInv, VmTypeOK, Live
    <2>2. VMs' = [VMs EXCEPT ![s] = [VMs[s] EXCEPT !.core_set = "",
                                                   !.initialized = FALSE]]
      BY DEF DestroyIn
    <2> QED
      BY <2>1, <2>2, FlagTypes, SlotTypes DEF MngrInv
  <1>3. Live' = Live \ {s}
    BY <1>1 DEF Live
  <1>4. /\ Cardinality(Live') = Cardinality(Live) - 1
        /\ Cardinality(Live') \in Nat
    BY <1>3, SlotsFinite, FS_RemoveElement DEF Live
  <1>5. count' = count - 1 /\ UNCHANGED <<agentVars, abort>>
    BY DEF DestroyIn
  <1>6. VmTableConsistent'
    BY <1>1, <1>3, <1>4, <1>5 DEF MngrInv, VmTableConsistent, Live
  <1>7. AgentsMatchRunning'
    <2>1. {VMs'[t].vm_id : t \in {u \in Live' : VMs'[u].running}}
             = {VMs[t].vm_id : t \in {u \in Live : VMs[u].running}}
      BY <1>1, <1>3 DEF Live
    <2> QED
      BY <1>1, <1>5, <2>1 DEF MngrInv, AgentsMatchRunning, agentVars, Live
  <1>8. PoolInv'
    BY ReleaseVmInv DEF DestroyIn, MngrInv, VmTypeOK
  <1>9. count' \in Nat
    BY <1>4, <1>5 DEF MngrInv, VmTableConsistent
  <1>10. VmTypeOK' /\ UsedSegmentsExact'
    BY <1>2, <1>5, <1>8, <1>9 DEF MngrInv, VmTypeOK, agentVars, PoolInv
  <1> QED
    BY <1>6, <1>7, <1>10 DEF MngrInv

\* The id of a slot that is not running is not in the agent table, that of a
\* running slot is: ids are unique.
LEMMA AgentOfSlot ==
    ASSUME MngrInv, NEW s \in Live, VMs[s].vm_id \in Slot
    PROVE  agents[VMs[s].vm_id] <=> VMs[s].running
  BY DEF MngrInv, VmTableConsistent, AgentsMatchRunning, VmTypeOK, Live

\* A VM's flag and its perf events go on, and its agent is connected.
LEMMA StartTable ==
    ASSUME MngrInv, NEW s \in Live, ~VMs[s].running, VMs[s].vm_id \in Slot,
           NEW connected \in BOOLEAN, NEW ret,
           guest_agent_init(VMs[s].vm_id, connected, ret),
           VMs' = AfterStart(s, ret),
           UNCHANGED <<poolVars, count, abort>>
    PROVE  MngrInv'
  <1> DEFINE vm == VMs[s].vm_id
  <1>1. ~agents[vm]
    BY AgentOfSlot
  <1>2. CASE ret = -1 /\ UNCHANGED agentVars
    BY <1>2 DEF AfterStart, MngrInv, VmTypeOK, VmTableConsistent,
                AgentsMatchRunning, UsedSegmentsExact, poolVars, agentVars,
                PoolTypeOK, Allocated, Live
  <1>3. CASE /\ ret = 0
             /\ agents' = [agents EXCEPT ![vm] = TRUE]
             /\ agent_count' = agent_count + 1
    <2>1. VMs' = [VMs EXCEPT ![s].running = TRUE, ![s].perf_open = TRUE]
      BY <1>3 DEF AfterStart
    <2>2. /\ \A t \in Slot \ {s} : VMs'[t] = VMs[t]
          /\ VMs'[s].vm_id = vm
          /\ VMs'[s].initialized
          /\ VMs'[s].running
          /\ VMs'[s].perf_open
      BY <2>1 DEF MngrInv, VmTypeOK, VmInstance, Live
    <2>3. VMs' \in [Slot -> VmInstance]
      <3>1. VMs[s] \in VmInstance /\ s \in Slot
        BY DEF MngrInv, VmTypeOK, Live
      <3>2. VMs' = [VMs EXCEPT ![s] = [VMs[s] EXCEPT !.running = TRUE,
                                                     !.perf_open = TRUE]]
        BY <2>1
      <3> QED
        BY <3>1, <3>2, FlagTypes, SlotTypes DEF MngrInv
    <2>4. \A t \in Slot : /\ VMs'[t].vm_id = VMs[t].vm_id
                          /\ (VMs'[t].initialized <=> VMs[t].initialized)
                          /\ (VMs'[t].running => VMs[t].initialized)
      BY <2>2 DEF MngrInv, VmTableConsistent, Live
    <2>5. Live' = Live /\ VmTableConsistent'
      BY <2>4, SameIds DEF MngrInv
    <2>6. {a \in Slot : agents'[a]} = {a \in Slot : agents[a]} \cup {vm}
      BY <1>3 DEF MngrInv, VmTypeOK
    <2>7. {VMs'[t].vm_id : t \in {u \in Live' : VMs'[u].running}}
             = {VMs[t].vm_id : t \in {u \in Live : VMs[u].running}} \cup {vm}
      BY <2>2, <2>5 DEF Live
    <2>8. Cardinality({a \in Slot : agents'[a]})
             = Cardinality({a \in Slot : agents[a]}) + 1
      <3>1. vm \notin {a \in Slot : agents[a]}
        BY <1>1
      <3>2. IsFiniteSet({a \in Slot : agents[a]})
        BY SlotsFinite
      <3> QED
        BY <2>6, <3>1, <3>2, FS_AddElement
    <2>9. AgentsMatchRunning'
      <3>1. \A t \in Slot : VMs'[t].running <=> VMs'[t].perf_open
        BY <2>2 DEF MngrInv, AgentsMatchRunning
      <3> QED
        BY <1>3, <2>6, <2>7, <2>8, <3>1 DEF MngrInv, AgentsMatchRunning
    <2>10. VmTypeOK' /\ UsedSegmentsExact'
      BY <1>3, <2>3 DEF MngrInv, VmTypeOK, poolVars, PoolTypeOK,
                        UsedSegmentsExact, Allocated
    <2> QED
      BY <2>5, <2>9, <2>10 DEF MngrInv
  <1> QED
    BY <1>1, <1>2, <1>3 DEF guest_agent_init

\* The reverse.
LEMMA StopTable ==
    ASSUME MngrInv, NEW s \in Live, VMs[s].running,
           guest_agent_cleanup(VMs[s].vm_id),
           VMs' = [VMs EXCEPT ![s].running = FALSE, ![s].perf_open = FALSE],
           UNCHANGED <<poolVars, count, abort>>
    PROVE  MngrInv'
  <1> DEFINE vm == VMs[s].vm_id
  <1>1. vm \in Slot /\ agents[vm]
    BY DEF MngrInv, AgentsMatchRunning, Live
  <1>2. /\ agents' = [agents EXCEPT ![vm] = FALSE]
        /\ agent_count' = agent_count - 1
    BY <1>1 DEF guest_agent_cleanup
  <1>3. /\ \A t \in Slot \ {s} : VMs'[t] = VMs[t]
        /\ VMs'[s].vm_id = vm
        /\ VMs'[s].initialized
        /\ ~VMs'[s].running
        /\ ~VMs'[s].perf_open
    BY DEF MngrInv, VmTypeOK, VmInstance, Live
  <1>4. VMs' \in [Slot -> VmInstance]
    <2>1. VMs[s] \in VmInstance /\ s \in Slot
      BY DEF MngrInv, VmTypeOK, Live
    <2>2. VMs' = [VMs EXCEPT ![s] = [VMs[s] EXCEPT !.running = FALSE,
                                                   !.perf_open = FALSE]]
      OBVIOUS
    <2> QED
      BY <2>1, <2>2, FlagTypes, SlotTypes DEF MngrInv
  <1>5. \A t \in Slot : /\ VMs'[t].vm_id = VMs[t].vm_id
                        /\ (VMs'[t].initialized <=> VMs[t].initialized)
                        /\ (VMs'[t].running => VMs[t].initialized)
    BY <1>3 DEF MngrInv, VmTableConsistent, Live
  <1>6. Live' = Live /\ VmTableConsistent'
    BY <1>5, SameIds DEF MngrInv
  <1>7. {a \in Slot : agents'[a]} = {a \in Slot : agents[a]} \ {vm}
    BY <1>2 DEF MngrInv, VmTypeOK
  <1>8. {VMs'[t].vm_id : t \in {u \in Live' : VMs'[u].running}}
           = {VMs[t].vm_id : t \in {u \in Live : VMs[u].running}} \ {vm}
    <2>1. \A t \in Live : VMs[t].vm_id = vm => t = s
      BY DEF MngrInv, VmTableConsistent
    <2>2. \A t \in Live : VMs'[t].running <=> VMs[t].running /\ t # s
      BY <1>3 DEF Live
    <2>3. \A t \in Live : VMs'[t].vm_id = VMs[t].vm_id
      BY <1>5 DEF Live
    <2>4. VMs[s].vm_id = vm
      OBVIOUS
    <2> HIDE DEF vm
    <2>5. {u \in Live' : VMs'[u].running} = {u \in Live : VMs[u].running} \ {s}
      BY <1>6, <2>2
    <2>6. {VMs[t].vm_id : t \in {u \in Live : VMs[u].running} \ {s}}
             = {VMs[t].vm_id : t \in {u \in Live : VMs[u].running}} \ {vm}
      BY <2>1, <2>4
    <2>7. {VMs'[t].vm_id : t \in {u \in Live : VMs[u].running} \ {s}}
             = {VMs[t].vm_id : t \in {u \in Live : VMs[u].running} \ {s}}
      BY <2>3
    <2> QED
      BY <2>5, <2>6, <2>7
  <1>9. /\ Cardinality({a \in Slot : agents'[a]})
              = Cardinality({a \in Slot : agents[a]}) - 1
        /\ Cardinality({a \in Slot : agents'[a]}) \in Nat
    <2>1. vm \in {a \in Slot : agents[a]}
      BY <1>1
    <2>2. IsFiniteSet({a \in Slot : agents[a]})
      BY SlotsFinite
    <2>3. Cardinality({a \in Slot : agents[a]} \ {vm})
             = Cardinality({a \in Slot : agents[a]}) - 1
      BY <2>1, <2>2, FS_RemoveElement
    <2>4. Cardinality({a \in Slot : agents'[a]}) \in Nat
      BY SlotsFinite
    <2> QED
      BY <1>7, <2>3, <2>4
  <1>10. AgentsMatchRunning'
    <2>1. \A t \in Slot : VMs'[t].running <=> VMs'[t].perf_open
      BY <1>3 DEF MngrInv, AgentsMatchRunning
    <2> QED
      BY <1>2, <1>7, <1>8, <1>9, <2>1 DEF MngrInv, AgentsMatchRunning
  <1>11. agent_count' \in Nat
    BY <1>2, <1>9 DEF MngrInv, AgentsMatchRunning
  <1>12. VmTypeOK' /\ UsedSegmentsExact'
    BY <1>2, <1>4, <1>11 DEF MngrInv, VmTypeOK, poolVars, PoolTypeOK,
                             UsedSegmentsExact, Allocated
  <1> QED
    BY <1>6, <1>10, <1>12 DEF MngrInv

-----------------------------------------------------------------------------
(* The operations of the VM manager *)

\* An assertion that fails leaves the tables as they are.
LEMMA Died ==
    ASSUME MngrInv, NEW reason \in AbortReason \ {"slot_in_use", "zero_segments"},
           BUG_ON(reason)
    PROVE  ManagerInv'
  BY DEF BUG_ON, ManagerInv, MngrInv, InternalAssertionsHold, VmTypeOK,
         VmTableConsistent, AgentsMatchRunning, UsedSegmentsExact, PoolTypeOK,
         Allocated, Live, poolVars, tableVars, agentVars

\* So does a call that is refused.
LEMMA NothingDone ==
    ASSUME ManagerInv, UNCHANGED mngrVars
    PROVE  ManagerInv'
  BY DEF mngrVars, ManagerInv, MngrInv, InternalAssertionsHold, VmTypeOK,
         VmTableConsistent, AgentsMatchRunning, UsedSegmentsExact, PoolTypeOK,
         Allocated, Live, poolVars, tableVars, agentVars

\* A call that does not die does not trip the two assertions.
LEMMA AbortKept ==
    ASSUME ManagerInv, MngrInv', UNCHANGED abort
    PROVE  ManagerInv'
  BY DEF ManagerInv, InternalAssertionsHold

\* When the count admits a VM, the scan for a free entry finds one: a full
\* table has MAX_NUM_VM initialized slots, and count is their number.
LEMMA FreeEntryIsFree ==
    ASSUME MngrInv, NEW vm, ~CreateRefused(vm), NEW s \in Slot, FreeEntry(s)
    PROVE  ~VMs[s].initialized
  <1> SUFFICES ASSUME VMs[s].initialized PROVE FALSE
    OBVIOUS
  <1>1. s = MAX_NUM_VM - 1
    BY DEF FreeEntry
  <1>2. \A t \in Slot : t = s \/ t \in 0 .. (s - 1)
    BY <1>1, MaxNumVmAssumption DEF Slot
  <1>3. Live = Slot
    BY <1>2 DEF FreeEntry, Live
  <1>4. Cardinality(Slot) = MAX_NUM_VM
    <2>1. 0 \in Int /\ MAX_NUM_VM - 1 \in Int
      BY MaxNumVmAssumption
    <2>2. Cardinality(0 .. (MAX_NUM_VM - 1))
             = IF 0 > MAX_NUM_VM - 1 THEN 0 ELSE (MAX_NUM_VM - 1) - 0 + 1
      BY <2>1, FS_Interval
    <2> QED
      BY <2>2, MaxNumVmAssumption DEF Slot
  <1>5. count = MAX_NUM_VM
    BY <1>3, <1>4 DEF MngrInv, VmTableConsistent
  <1> QED
    BY <1>5, MaxNumVmAssumption DEF CreateRefused

\* vm_mngr_instance_create keeps the tables in step.
LEMMA CreateInv ==
    ASSUME ManagerInv, NEW vm \in VmId, NEW core_set \in CoreSet, NEW ret,
           vm_mngr_instance_create(vm, core_set, ret)
    PROVE  ManagerInv'
  <1>1. CASE Return(ret, -1)
    BY <1>1, NothingDone DEF Return
  <1>2. CASE ~CreateRefused(vm) /\ ~Return(ret, -1)
    <2>1. PICK s \in Slot :
             /\ FreeEntry(s)
             /\ IF VMs[s].initialized THEN BUG_ON("slot_in_use")
                ELSE IF core_set = "" THEN BUG_ON("empty_core_set")
                ELSE CreateIn(s, vm, core_set)
      BY <1>2 DEF vm_mngr_instance_create
    <2>2. ~VMs[s].initialized
      BY <1>2, <2>1, FreeEntryIsFree DEF ManagerInv
    <2>3. CASE BUG_ON("empty_core_set")
      BY <2>3, Died DEF AbortReason, ManagerInv
    <2>4. CASE CreateIn(s, vm, core_set)
      <3>1. MngrInv'
        BY <1>2, <2>2, <2>4, CreateTable DEF ManagerInv
      <3> QED
        BY <2>4, <3>1, AbortKept DEF CreateIn
    <2> QED
      BY <2>1, <2>2, <2>3, <2>4
  <1> QED
    BY <1>1, <1>2 DEF vm_mngr_instance_create

\* vm_mngr_instance_start keeps them in step, the failed ones too.
LEMMA StartInv ==
    ASSUME ManagerInv, NEW vm, NEW perf_ok \in BOOLEAN,
           NEW connected \in BOOLEAN, NEW ret,
           vm_mngr_instance_start(vm, perf_ok, connected, ret)
    PROVE  ManagerInv'
  <1>1. CASE UNCHANGED mngrVars
    BY <1>1, NothingDone
  <1>2. CASE \E reason \in {"no_cores", "bad_core", "perf_event", "agent_index"} :
                BUG_ON(reason)
    BY <1>2, Died DEF AbortReason, ManagerInv
  <1>3. CASE \E s \in Slot :
                /\ vm_mngr_get_instance(vm, s)
                /\ ~VMs[s].running
                /\ vm \in Slot
                /\ guest_agent_init(vm, connected, ret)
                /\ VMs' = AfterStart(s, ret)
                /\ UNCHANGED <<poolVars, count, abort>>
    <2>1. PICK s \in Slot :
                /\ vm_mngr_get_instance(vm, s)
                /\ ~VMs[s].running
                /\ vm \in Slot
                /\ guest_agent_init(vm, connected, ret)
                /\ VMs' = AfterStart(s, ret)
                /\ UNCHANGED <<poolVars, count, abort>>
      BY <1>3
    <2>2. s \in Live /\ VMs[s].vm_id = vm
      BY <2>1, InstanceIsLive DEF ManagerInv, MngrInv
    <2>3. MngrInv'
      BY <2>1, <2>2, StartTable DEF ManagerInv
    <2> QED
      BY <2>1, <2>3, AbortKept
  <1>4. \A s \in Slot : vm_perf_counter_setup(s, perf_ok)
                          \in {"none", "no_cores", "bad_core", "perf_event"}
    BY DEF vm_perf_counter_setup
  <1> QED
    BY <1>1, <1>2, <1>3, <1>4 DEF vm_mngr_instance_start, Return

\* vm_mngr_instance_stop keeps them in step.
LEMMA StopInv ==
    ASSUME ManagerInv, NEW vm, NEW perf_ok \in BOOLEAN, NEW ret,
           vm_mngr_instance_stop(vm, perf_ok, ret)
    PROVE  ManagerInv'
  <1>1. CASE UNCHANGED mngrVars
    BY <1>1, NothingDone
  <1>2. CASE BUG_ON("perf_event")
    BY <1>2, Died DEF AbortReason, ManagerInv
  <1>3. CASE ~UNCHANGED mngrVars /\ ~BUG_ON("perf_event")
    <2>1. PICK s \in Slot :
             /\ vm_mngr_get_instance(vm, s)
             /\ VMs[s].running
             /\ guest_agent_cleanup(vm)
             /\ VMs' = [VMs EXCEPT ![s].running = FALSE, ![s].perf_open = FALSE]
             /\ UNCHANGED <<poolVars, count, abort>>
      BY <1>3 DEF vm_mngr_instance_stop, Return
    <2>2. s \in Live /\ VMs[s].vm_id = vm
      BY <2>1, InstanceIsLive DEF ManagerInv, MngrInv
    <2>3. MngrInv'
      BY <2>1, <2>2, StopTable DEF ManagerInv
    <2> QED
      BY <2>1, <2>3, AbortKept
  <1> QED
    BY <1>1, <1>2, <1>3

\* vm_mngr_instance_destroy keeps them in step.
LEMMA DestroyInv ==
    ASSUME ManagerInv, NEW vm \in Nat, NEW ret, vm_mngr_instance_destroy(vm, ret)
    PROVE  ManagerInv'
  <1>1. CASE UNCHANGED mngrVars
    BY <1>1, NothingDone
  <1>2. CASE ~UNCHANGED mngrVars
    <2>1. PICK s \in Slot :
             /\ vm_mngr_get_instance(vm, s)
             /\ ~VMs[s].running
             /\ DestroyIn(s, vm)
      BY <1>2 DEF vm_mngr_instance_destroy, Return
    <2>2. s \in Live
      BY <2>1, InstanceIsLive DEF ManagerInv, MngrInv
    <2>3. MngrInv'
      BY <2>1, <2>2, DestroyTable DEF ManagerInv
    <2> QED
      BY <2>1, <2>3, AbortKept DEF DestroyIn
  <1> QED
    BY <1>1, <1>2

\* A slot with another list of devices.
LEMMA DevsTypes ==
    ASSUME NEW r \in VmInstance, NEW c \in Nat, NEW D \in SUBSET MemDev
    PROVE  [r EXCEPT !.memdev_counter = c, !.attached_devs = D] \in VmInstance
  BY DEF VmInstance

\* Memory operations write a slot's device list and nothing else of it.
LEMMA DevsTable ==
    ASSUME ManagerInv, NEW s \in Slot, NEW c \in Nat, NEW D \in SUBSET MemDev,
           VMs' = [VMs EXCEPT ![s].memdev_counter = c, ![s].attached_devs = D],
           PoolInv', UNCHANGED <<count, agentVars, abort>>
    PROVE  ManagerInv'
  <1>1. VMs[s] \in VmInstance
    BY DEF ManagerInv, MngrInv, VmTypeOK
  <1>2. VMs' = [VMs EXCEPT ![s] = [VMs[s] EXCEPT !.memdev_counter = c,
                                                 !.attached_devs = D]]
    OBVIOUS
  <1>3. VMs' \in [Slot -> VmInstance]
    BY <1>1, <1>2, DevsTypes, SlotTypes DEF ManagerInv, MngrInv
  <1>4. \A t \in Slot \ {s} : VMs'[t] = VMs[t]
    BY DEF ManagerInv, MngrInv, VmTypeOK
  <1>5. /\ VMs'[s].vm_id = VMs[s].vm_id
        /\ VMs'[s].initialized = VMs[s].initialized
        /\ VMs'[s].running = VMs[s].running
        /\ VMs'[s].perf_open = VMs[s].perf_open
    BY <1>1 DEF ManagerInv, MngrInv, VmTypeOK, VmInstance
  <1>6. VmTableConsistent' /\ AgentsMatchRunning'
    BY <1>4, <1>5, SameTable DEF ManagerInv, MngrInv
  <1>7. VmTypeOK' /\ UsedSegmentsExact'
    BY <1>3 DEF ManagerInv, MngrInv, VmTypeOK, PoolInv, agentVars
  <1> QED
    BY <1>6, <1>7, AbortKept DEF MngrInv

\* vm_mngr_instance_alloc_mem keeps them in step.
LEMMA AllocMemInv ==
    ASSUME ManagerInv, NEW nid, NEW vm \in VmId, NEW size_mb \in Int, size_mb > 0,
           NEW malloc_ok \in BOOLEAN, NEW ret,
           vm_mngr_instance_alloc_mem(nid, vm, size_mb, malloc_ok, ret)
    PROVE  ManagerInv'
  <1>1. CASE UNCHANGED mngrVars
    BY <1>1, NothingDone
  <1>2. CASE ~UNCHANGED mngrVars
    <2>1. ~AllocateAsserts(nid, size_mb)
      BY DEF AllocateAsserts
    <2>2. PICK s \in Slot : \E start \in Index(nid) :
                AllocIn(s, nid, vm, size_mb, start)
      BY <1>2, <2>1 DEF vm_mngr_instance_alloc_mem, Return
    <2>3. PICK start \in Index(nid) : AllocIn(s, nid, vm, size_mb, start)
      BY <2>2
    <2>4. /\ memory_pool_allocate_segments(nid, vm, size_mb, start)
          /\ UNCHANGED <<count, agentVars, abort>>
      BY <2>3 DEF AllocIn
    <2>5. PoolInv'
      BY <2>4, AllocateInv DEF ManagerInv, MngrInv, VmTypeOK
    <2>6. nid \in Node /\ NumSegments(size_mb) \in Nat
      BY <2>4, NumSegmentsNat DEF memory_pool_allocate_segments
    <2>7. start \in Nat
      BY <2>6, TotalNat DEF Index
    <2> DEFINE c == VMs[s].memdev_counter + 1
               d == NewMemDev(s, nid, start, NumSegments(size_mb))
               D == VMs[s].attached_devs \cup {d}
    <2>8. /\ VMs[s].memdev_counter \in Nat
          /\ VMs[s].attached_devs \in SUBSET MemDev
      BY DEF ManagerInv, MngrInv, VmTypeOK, VmInstance
    <2>9. d \in MemDev
      BY <2>6, <2>7, <2>8, SegmentsOfMb DEF NewMemDev, MemoryRequest, MemDev
    <2>10. c \in Nat /\ D \in SUBSET MemDev
      BY <2>8, <2>9
    <2>11. VMs' = [VMs EXCEPT ![s].memdev_counter = c, ![s].attached_devs = D]
      BY <2>3 DEF AllocIn
    <2> HIDE DEF c, D
    <2> QED
      BY <2>4, <2>5, <2>10, <2>11, DevsTable
  <1> QED
    BY <1>1, <1>2

\* vm_mngr_instance_free_mem keeps them in step.
LEMMA FreeMemInv ==
    ASSUME ManagerInv, NEW vm \in Nat, NEW memid, NEW ret,
           vm_mngr_instance_free_mem(vm, memid, ret)
    PROVE  ManagerInv'
  <1>1. CASE UNCHANGED mngrVars
    BY <1>1, NothingDone
  <1>2. CASE ~UNCHANGED mngrVars
    <2>1. PICK s \in Slot : \E d \in VMs[s].attached_devs : FreeIn(s, d, vm, ret)
      BY <1>2 DEF vm_mngr_instance_free_mem, Return
    <2>2. PICK d \in VMs[s].attached_devs : FreeIn(s, d, vm, ret)
      BY <2>1
    <2>3. /\ VMs[s] \in VmInstance
          /\ VMs[s].memdev_counter \in Nat
          /\ VMs[s].attached_devs \in SUBSET MemDev
      BY DEF ManagerInv, MngrInv, VmTypeOK, VmInstance
    <2>4. d.offset_mb \in Int /\ d.size_mb \in Int
      BY <2>3 DEF MemDev
    <2>5. PoolInv'
      BY <2>2, <2>4, ReleaseInv DEF FreeIn, ManagerInv, MngrInv, VmTypeOK
    <2>6. UNCHANGED <<count, agentVars, abort>>
      BY <2>2 DEF FreeIn
    <2> DEFINE c == VMs[s].memdev_counter
               D == IF ret < 0 THEN VMs[s].attached_devs
                               ELSE VMs[s].attached_devs \ {d}
    <2>7. VMs' = [VMs EXCEPT ![s].memdev_counter = c, ![s].attached_devs = D]
      BY <2>2, <2>3 DEF FreeIn, AfterFree, ManagerInv, MngrInv, VmTypeOK, VmInstance
    <2>8. c \in Nat /\ D \in SUBSET MemDev
      BY <2>3
    <2> HIDE DEF c, D
    <2> QED
      BY <2>5, <2>6, <2>7, <2>8, DevsTable
  <1> QED
    BY <1>1, <1>2

-----------------------------------------------------------------------------
(* Consequences of Accounted *)

\* The slots of a VM are the initialized ones with its id.
LEMMA InstancesAreLive ==
    \A vm : \A s : s \in Instances(vm) <=> s \in Live /\ VMs[s].vm_id = vm
  BY DEF Instances, Live

\* No two slots hold the same VM.
LEMMA OneInstance ==
    ASSUME VmTableConsistent, NEW s \in Live
    PROVE  Instances(VMs[s].vm_id) = {s}
  BY InstancesAreLive DEF VmTableConsistent

\* A device's segments belong to its VM.
LEMMA CoveredIsHeld ==
    ASSUME Accounted, NEW vm \in VmId, NEW s \in Instances(vm),
           NEW d \in VMs[s].attached_devs
    PROVE  DevWindow(d) \subseteq HeldBy(vm, d.node_id)
  <1>1. DeviceFits(d)
    BY InstancesAreLive DEF Accounted, DevicesFit
  <1> SUFFICES ASSUME NEW k \in DevWindow(d)
               PROVE  k \in HeldBy(vm, d.node_id)
    OBVIOUS
  <1>2. k \in Index(d.node_id) /\ d.node_id \in Node
    BY <1>1 DEF DeviceFits
  <1>3. segments[d.node_id][k] = vm
    BY <1>2 DEF Accounted, MemoryAccounted
  <1> QED
    BY <1>2, <1>3 DEF HeldBy

-----------------------------------------------------------------------------
(* Operations that leave memory alone *)

\* A call that touches neither segments nor lists of devices.
LEMMA MemoryUntouched ==
    ASSUME Accounted, UNCHANGED segments,
           \A t \in Slot : /\ VMs'[t].vm_id = VMs[t].vm_id
                           /\ (VMs'[t].initialized <=> VMs[t].initialized)
                           /\ VMs'[t].attached_devs = VMs[t].attached_devs
    PROVE  Accounted'
  <1>1. Live' = Live
    BY DEF Live
  <1>2. \A vm : Instances(vm)' = Instances(vm)
    BY DEF Instances
  <1>3. \A vm : \A s \in Instances(vm) : VMs'[s].attached_devs = VMs[s].attached_devs
    BY DEF Instances
  <1>4. \A s \in Live : VMs'[s].attached_devs = VMs[s].attached_devs
    BY DEF Live
  <1>5. ASSUME NEW n \in Node, NEW vm \in VmId, NEW k \in Index(n)
        PROVE  segments'[n][k] = vm <=>
                 \E s \in Instances(vm)' : \E d \in VMs'[s].attached_devs :
                    d.node_id = n /\ k \in DevWindow(d)
    BY <1>2, <1>3 DEF Accounted, MemoryAccounted
  <1>6. \A s \in Live' : \A d, e \in VMs'[s].attached_devs :
           d # e /\ d.node_id = e.node_id => DevWindow(d) \cap DevWindow(e) = {}
    BY <1>1, <1>4 DEF Accounted, MemoryAccounted
  <1>7. DevicesFit'
    BY <1>1, <1>4 DEF Accounted, DevicesFit, DeviceFits
  <1> QED
    BY <1>5, <1>6, <1>7 DEF Accounted, MemoryAccounted

-----------------------------------------------------------------------------
(* Operations that change the VM table *)

\* The new VM has no device, and its id had no slot: no segment was its own.
LEMMA CreateAccounted ==
    ASSUME Accounted, VmTypeOK, NEW vm \in VmId, NEW core_set, NEW s \in Slot,
           ~VMs[s].initialized, ~CreateRefused(vm), CreateIn(s, vm, core_set)
    PROVE  Accounted'
  <1>1. /\ \A t \in Slot \ {s} : VMs'[t] = VMs[t]
        /\ VMs'[s].vm_id = vm
        /\ VMs'[s].initialized
        /\ VMs'[s].attached_devs = {}
    BY DEF CreateIn, VmTypeOK, VmInstance
  <1>2. UNCHANGED segments
    BY DEF CreateIn, poolVars
  <1>3. s \notin Live /\ \A t \in Live : t \in Slot \ {s}
    BY DEF Live
  <1>4. Live' = Live \cup {s}
    BY <1>1 DEF Live
  <1>5. \A v, t : t \in Instances(v)' <=>
                    t \in Instances(v) \/ (t = s /\ v = vm)
    BY <1>1 DEF Instances
  <1>6. \A v : \A t \in Instances(v) : VMs'[t] = VMs[t]
    BY <1>1, <1>3, InstancesAreLive
  <1>7. ASSUME NEW n \in Node, NEW v \in VmId, NEW k \in Index(n)
        PROVE  segments'[n][k] = v <=>
                 \E t \in Instances(v)' : \E d \in VMs'[t].attached_devs :
                    d.node_id = n /\ k \in DevWindow(d)
    <2>1. segments'[n][k] = v <=>
            \E t \in Instances(v) : \E d \in VMs[t].attached_devs :
               d.node_id = n /\ k \in DevWindow(d)
      BY <1>2 DEF Accounted, MemoryAccounted
    <2> QED
      BY <2>1, <1>1, <1>5, <1>6
  <1>8. \A t \in Live' : \A d, e \in VMs'[t].attached_devs :
           d # e /\ d.node_id = e.node_id => DevWindow(d) \cap DevWindow(e) = {}
    BY <1>1, <1>3, <1>4 DEF Accounted, MemoryAccounted
  <1>9. DevicesFit'
    BY <1>1, <1>3, <1>4 DEF Accounted, DevicesFit, DeviceFits
  <1> QED
    BY <1>7, <1>8, <1>9 DEF Accounted, MemoryAccounted

\* memory_pool_release_vm_memory frees all the segments of the slot's VM, and
\* the slot was the only one that held devices of that VM.
LEMMA DestroyAccounted ==
    ASSUME Accounted, VmTypeOK, VmTableConsistent,
           NEW vm \in Nat, NEW s \in Live, VMs[s].vm_id = vm, DestroyIn(s, vm)
    PROVE  Accounted'
  <1>1. /\ \A t \in Slot \ {s} : VMs'[t] = VMs[t]
        /\ ~VMs'[s].initialized
    BY DEF DestroyIn, VmTypeOK, VmInstance, Live
  <1>2. \A n \in Node : \A k \in Index(n) :
           segments'[n][k] = IF segments[n][k] = vm THEN NoVm ELSE segments[n][k]
    BY DEF DestroyIn, memory_pool_release_vm_memory, Reassigned, HeldBy
  <1>3. Live' = Live \ {s}
    BY <1>1 DEF Live
  <1>4. \A t \in Live' : t \in Live /\ VMs'[t] = VMs[t]
    BY <1>1, <1>3 DEF Live
  <1>5. \A v, t : t \in Instances(v)' <=> t \in Live' /\ VMs'[t].vm_id = v
    BY DEF Instances, Live
  <1>6. Instances(vm)' = {}
    BY <1>3, <1>4, <1>5 DEF VmTableConsistent
  <1>7. \A v, t : v # vm => (t \in Instances(v)' <=> t \in Instances(v))
    BY <1>3, <1>4, <1>5, InstancesAreLive
  <1>8. ASSUME NEW n \in Node, NEW v \in VmId, NEW k \in Index(n)
        PROVE  segments'[n][k] = v <=>
                 \E t \in Instances(v)' : \E d \in VMs'[t].attached_devs :
                    d.node_id = n /\ k \in DevWindow(d)
    <2>1. v # NoVm
      BY VmIdAssumption DEF NoVm
    <2>2. CASE v = vm
      BY <2>1, <2>2, <1>2, <1>6
    <2>3. CASE v # vm
      <3>1. segments'[n][k] = v <=> segments[n][k] = v
        BY <2>1, <2>3, <1>2
      <3>2. segments[n][k] = v <=>
              \E t \in Instances(v) : \E d \in VMs[t].attached_devs :
                 d.node_id = n /\ k \in DevWindow(d)
        BY DEF Accounted, MemoryAccounted
      <3>3. \A t \in Instances(v)' : VMs'[t] = VMs[t]
        BY <1>4, <1>5
      <3> QED
        BY <2>3, <3>1, <3>2, <3>3, <1>7
    <2> QED
      BY <2>2, <2>3
  <1>9. \A t \in Live' : \A d, e \in VMs'[t].attached_devs :
           d # e /\ d.node_id = e.node_id => DevWindow(d) \cap DevWindow(e) = {}
    BY <1>4 DEF Accounted, MemoryAccounted
  <1>10. DevicesFit'
    BY <1>4 DEF Accounted, DevicesFit, DeviceFits
  <1> QED
    BY <1>8, <1>9, <1>10 DEF Accounted, MemoryAccounted

-----------------------------------------------------------------------------
(* Operations that change a VM's devices *)

\* A slot gets another list of devices; ids and flags stay.
LEMMA OtherDevices ==
    ASSUME VmTypeOK, NEW s \in Live, NEW c, NEW D,
           VMs' = [VMs EXCEPT ![s].memdev_counter = c, ![s].attached_devs = D]
    PROVE  /\ VMs'[s].attached_devs = D
           /\ \A t \in Slot \ {s} : VMs'[t] = VMs[t]
           /\ Live' = Live
           /\ \A v : Instances(v)' = Instances(v)
  <1>1. /\ VMs'[s].attached_devs = D
        /\ VMs'[s].vm_id = VMs[s].vm_id
        /\ (VMs'[s].initialized <=> VMs[s].initialized)
        /\ \A t \in Slot \ {s} : VMs'[t] = VMs[t]
    BY DEF VmTypeOK, VmInstance, Live
  <1> QED
    BY <1>1 DEF Live, Instances

\* allocate_segments takes free segments, which no device covers, and
\* the request is written down as the very segments it took.
LEMMA AllocAccounted ==
    ASSUME Accounted, VmTypeOK, VmTableConsistent,
           NEW nid, NEW vm \in VmId, NEW size_mb \in Int, NEW start \in Index(nid),
           NEW s \in Live, VMs[s].vm_id = vm,
           AllocIn(s, nid, vm, size_mb, start)
    PROVE  Accounted'
  <1> DEFINE num == NumSegments(size_mb)
             W == Window(start, num)
             d == NewMemDev(s, nid, start, num)
             D == VMs[s].attached_devs \cup {d}
             c == VMs[s].memdev_counter + 1
  <1>1. /\ nid \in Node /\ is_aligned(size_mb)
        /\ allocate_segments(nid, num, vm, start)
    BY DEF AllocIn, memory_pool_allocate_segments
  <1>2. num \in Nat
    BY <1>1, NumSegmentsNat
  <1>3. start \in 0 .. (Total(nid) - num) /\ W \cap Allocated(nid) = {}
    BY <1>1 DEF allocate_segments, find_free_segments, FirstFreeWindow, FreeWindow
  <1>4. W \in SUBSET Index(nid) /\ start \in Nat
    BY <1>1, <1>2, <1>3, TotalNat DEF Window, Index
  <1>5. /\ d.node_id = nid
        /\ d.offset_mb = start * SegmentSizeMb
        /\ d.size_mb = num * SegmentSizeMb
    BY DEF NewMemDev, MemoryRequest
  <1>6. DevWindow(d) = W
    BY <1>2, <1>4, <1>5, SegmentsOfMb DEF DevWindow
  <1>7. DeviceFits(d)
    BY <1>1, <1>2, <1>4, <1>5, <1>6, SegmentsOfMb DEF DeviceFits
  <1>8. VMs' = [VMs EXCEPT ![s].memdev_counter = c, ![s].attached_devs = D]
    BY DEF AllocIn
  <1>9. /\ \A n \in Node \ {nid} : segments'[n] = segments[n]
        /\ \A k \in Index(nid) :
              segments'[nid][k] = IF k \in W THEN vm ELSE segments[nid][k]
    BY <1>1 DEF allocate_segments, Reassigned, VmTypeOK, PoolTypeOK
  <1>10. \A k \in W : segments[nid][k] = NoVm
    BY <1>3, <1>4 DEF Allocated
  <1> HIDE DEF num, W, d, D, c
  <1>11. /\ VMs'[s].attached_devs = D
         /\ \A t \in Slot \ {s} : VMs'[t] = VMs[t]
         /\ Live' = Live
         /\ \A v : Instances(v)' = Instances(v)
    BY <1>8, OtherDevices
  <1>12. \A v : s \in Instances(v) <=> v = vm
    BY InstancesAreLive
  <1>13. \A t \in Live : \A e \in VMs'[t].attached_devs :
            e \in VMs[t].attached_devs \/ (t = s /\ e = d)
    BY <1>11 DEF D, Live
  <1>14. \A t \in Live : VMs[t].attached_devs \subseteq VMs'[t].attached_devs
    BY <1>11 DEF D, Live
  <1>15. d \in VMs'[s].attached_devs
    BY <1>11 DEF D
  <1>16. ASSUME NEW n \in Node, NEW v \in VmId, NEW k \in Index(n)
         PROVE  segments'[n][k] = v <=>
                  \E t \in Instances(v)' : \E e \in VMs'[t].attached_devs :
                     e.node_id = n /\ k \in DevWindow(e)
    <2>1. v # NoVm
      BY VmIdAssumption DEF NoVm
    <2>2. segments[n][k] = v <=>
            \E t \in Instances(v) : \E e \in VMs[t].attached_devs :
               e.node_id = n /\ k \in DevWindow(e)
      BY DEF Accounted, MemoryAccounted
    <2>3. CASE n = nid /\ k \in W
      <3>1. segments'[n][k] = vm
        BY <2>3, <1>9
      <3>2. \A t \in Instances(v) : \A e \in VMs[t].attached_devs :
               ~(e.node_id = n /\ k \in DevWindow(e))
        BY <2>1, <2>2, <2>3, <1>10
      <3>3. CASE v = vm
        <4>1. s \in Instances(v)'
          BY <3>3, <1>11, <1>12
        <4> QED
          BY <3>1, <3>3, <4>1, <1>5, <1>6, <1>15, <2>3
      <3>4. CASE v # vm
        <4>1. \A t \in Instances(v) : t # s /\ t \in Live
          BY <3>4, <1>12, InstancesAreLive
        <4> QED
          BY <3>1, <3>2, <3>4, <4>1, <1>11, <1>13
      <3> QED
        BY <3>3, <3>4
    <2>4. CASE ~(n = nid /\ k \in W)
      <3>1. segments'[n][k] = segments[n][k]
        BY <2>4, <1>9
      <3>2. ~(d.node_id = n /\ k \in DevWindow(d))
        BY <2>4, <1>5, <1>6
      <3>3. \A t \in Instances(v) : t \in Live
        BY InstancesAreLive
      <3> QED
        BY <2>2, <3>1, <3>2, <3>3, <1>11, <1>13, <1>14
    <2> QED
      BY <2>3, <2>4
  <1>17. ASSUME NEW t \in Live, NEW e \in VMs'[t].attached_devs,
                NEW f \in VMs'[t].attached_devs, e # f, e.node_id = f.node_id
         PROVE  DevWindow(e) \cap DevWindow(f) = {}
    <2>1. \A g \in VMs[s].attached_devs :
             g.node_id = nid => DevWindow(g) \cap W = {}
      <3> SUFFICES ASSUME NEW g \in VMs[s].attached_devs, g.node_id = nid
                   PROVE  DevWindow(g) \cap W = {}
        OBVIOUS
      <3>1. DevWindow(g) \subseteq HeldBy(vm, nid)
        BY <1>12, CoveredIsHeld
      <3>2. vm # NoVm
        BY VmIdAssumption DEF NoVm
      <3> QED
        BY <3>1, <3>2, <1>10 DEF HeldBy
    <2>2. CASE e \in VMs[t].attached_devs /\ f \in VMs[t].attached_devs
      BY <1>17, <2>2 DEF Accounted, MemoryAccounted
    <2>3. CASE t = s /\ e = d /\ f \in VMs[s].attached_devs
      BY <1>17, <2>1, <2>3, <1>5, <1>6
    <2>4. CASE t = s /\ f = d /\ e \in VMs[s].attached_devs
      BY <1>17, <2>1, <2>4, <1>5, <1>6
    <2> QED
      BY <1>13, <1>17, <2>2, <2>3, <2>4
  <1>18. \A t \in Live : \A e \in VMs'[t].attached_devs : DeviceFits(e)
    BY <1>7, <1>13 DEF Accounted, DevicesFit
  <1>19. MemoryAccounted'
    BY <1>11, <1>16, <1>17 DEF MemoryAccounted
  <1>20. DevicesFit'
    BY <1>11, <1>18 DEF DevicesFit, DeviceFits
  <1> QED
    BY <1>19, <1>20 DEF Accounted

\* release_segments meets no segment of another VM, so it never gives up: the
\* whole device comes back and leaves the list.
LEMMA FreeReleasesAll ==
    ASSUME Accounted, VmTypeOK, NEW vm \in VmId, NEW s \in Live, VMs[s].vm_id = vm,
           NEW d \in VMs[s].attached_devs, NEW ret, FreeIn(s, d, vm, ret)
    PROVE  /\ ret = 0
           /\ segments' = [segments EXCEPT ![d.node_id] =
                                Reassigned(d.node_id, DevWindow(d), NoVm)]
  <1> DEFINE n == d.node_id
             start == NumSegments(d.offset_mb)
             num == NumSegments(d.size_mb)
  <1>1. DeviceFits(d)
    BY DEF Accounted, DevicesFit
  <1>2. start \in Nat /\ num \in Nat
    BY <1>1, NumSegmentsNat DEF DeviceFits
  <1>3. PICK released \in 0 .. num :
           /\ release_segments(n, vm, start, num, released)
           /\ ret = IF released = num THEN 0 ELSE -1
    BY <1>1 DEF FreeIn, memory_pool_release_segments, DeviceFits
  <1>4. DevWindow(d) \subseteq HeldBy(vm, n)
    BY InstancesAreLive, CoveredIsHeld
  <1>5. released < num => start + released \in DevWindow(d)
    BY <1>2 DEF DevWindow, Window
  <1>6. released = num
    BY <1>2, <1>3, <1>4, <1>5 DEF release_segments
  <1> QED
    BY <1>3, <1>6 DEF release_segments, DevWindow

\* A device that is freed leaves the map and the list together.
LEMMA FreeAccounted ==
    ASSUME Accounted, VmTypeOK, VmTableConsistent, NEW vm \in VmId,
           NEW s \in Live, VMs[s].vm_id = vm,
           NEW d \in VMs[s].attached_devs, NEW ret, FreeIn(s, d, vm, ret)
    PROVE  Accounted'
  <1> DEFINE D == VMs[s].attached_devs \ {d}
             c == VMs[s].memdev_counter
  <1>1. /\ d.node_id \in Node
        /\ DevWindow(d) \subseteq Index(d.node_id)
    BY DEF Accounted, DevicesFit, DeviceFits
  <1>2. /\ ret = 0
        /\ segments' = [segments EXCEPT ![d.node_id] =
                             Reassigned(d.node_id, DevWindow(d), NoVm)]
    BY FreeReleasesAll
  <1>3. VMs' = [VMs EXCEPT ![s].memdev_counter = c, ![s].attached_devs = D]
    <2>1. VMs[s] \in VmInstance
      BY DEF VmTypeOK, Live
    <2>2. ~(ret < 0)
      BY <1>2
    <2>3. VMs' = [VMs EXCEPT ![s] = [VMs[s] EXCEPT !.attached_devs = D]]
      BY <2>2 DEF FreeIn, AfterFree
    <2>4. [VMs[s] EXCEPT !.attached_devs = D]
             = [VMs[s] EXCEPT !.memdev_counter = c, !.attached_devs = D]
      BY <2>1 DEF VmInstance
    <2> QED
      BY <2>3, <2>4
  <1>4. /\ \A n \in Node \ {d.node_id} : segments'[n] = segments[n]
        /\ \A k \in Index(d.node_id) :
              segments'[d.node_id][k] =
                 IF k \in DevWindow(d) THEN NoVm ELSE segments[d.node_id][k]
    BY <1>1, <1>2 DEF Reassigned, VmTypeOK, PoolTypeOK
  <1>5. DevWindow(d) \subseteq HeldBy(vm, d.node_id)
    BY InstancesAreLive, CoveredIsHeld
  <1> HIDE DEF D, c
  <1>6. /\ VMs'[s].attached_devs = D
        /\ \A t \in Slot \ {s} : VMs'[t] = VMs[t]
        /\ Live' = Live
        /\ \A v : Instances(v)' = Instances(v)
    BY <1>3, OtherDevices
  <1>7. \A v : s \in Instances(v) <=> v = vm
    BY InstancesAreLive
  <1>8. \A t \in Live : \A e : e \in VMs'[t].attached_devs <=>
           e \in VMs[t].attached_devs /\ ~(t = s /\ e = d)
    BY <1>6 DEF D, Live
  <1>9. ASSUME NEW n \in Node, NEW v \in VmId, NEW k \in Index(n)
        PROVE  segments'[n][k] = v <=>
                 \E t \in Instances(v)' : \E e \in VMs'[t].attached_devs :
                    e.node_id = n /\ k \in DevWindow(e)
    <2>1. v # NoVm
      BY VmIdAssumption DEF NoVm
    <2>2. segments[n][k] = v <=>
            \E t \in Instances(v) : \E e \in VMs[t].attached_devs :
               e.node_id = n /\ k \in DevWindow(e)
      BY DEF Accounted, MemoryAccounted
    <2>3. \A t \in Instances(v) : t \in Live
      BY InstancesAreLive
    <2>4. CASE n = d.node_id /\ k \in DevWindow(d)
      <3>1. segments'[n][k] # v
        BY <2>1, <2>4, <1>4
      <3>2. segments[n][k] = vm
        BY <2>4, <1>5 DEF HeldBy
      <3> SUFFICES ASSUME NEW t \in Instances(v), NEW e \in VMs'[t].attached_devs,
                          e.node_id = n, k \in DevWindow(e)
                   PROVE  FALSE
        BY <3>1, <1>6
      <3>3. e \in VMs[t].attached_devs /\ ~(t = s /\ e = d)
        BY <2>3, <1>8
      <3>4. v = vm
        BY <2>2, <3>2, <3>3
      <3>5. CASE t = s
        BY <3>3, <3>5, <2>4 DEF Accounted, MemoryAccounted
      <3>6. CASE t # s
        BY <3>4, <3>6, OneInstance
      <3> QED
        BY <3>5, <3>6
    <2>5. CASE ~(n = d.node_id /\ k \in DevWindow(d))
      <3>1. segments'[n][k] = segments[n][k]
        BY <2>5, <1>4
      <3> QED
        BY <2>2, <2>3, <2>5, <3>1, <1>6, <1>8
    <2> QED
      BY <2>4, <2>5
  <1>10. \A t \in Live' : \A e, f \in VMs'[t].attached_devs :
            e # f /\ e.node_id = f.node_id => DevWindow(e) \cap DevWindow(f) = {}
    BY <1>6, <1>8 DEF Accounted, MemoryAccounted
  <1>11. DevicesFit'
    BY <1>6, <1>8 DEF Accounted, DevicesFit, DeviceFits
  <1> QED
    BY <1>9, <1>10, <1>11 DEF Accounted, MemoryAccounted

-----------------------------------------------------------------------------
(* The operations of the VM manager *)

\* The map and the lists stay as they are.
LEMMA SameMemory ==
    ASSUME Accounted, UNCHANGED <<segments, VMs>>
    PROVE  Accounted'
  BY MemoryUntouched

\* A call that is refused, or dies, moves no memory.
LEMMA NothingDoneAccounted ==
    ASSUME Accounted, UNCHANGED mngrVars \/ \E reason : BUG_ON(reason)
    PROVE  Accounted'
  BY SameMemory DEF mngrVars, poolVars, tableVars, BUG_ON

\* create-vm finds no segment with the id of the new VM.
LEMMA CreateKeepsAccounts ==
    ASSUME ManagerInv, Accounted, NEW vm \in VmId, NEW core_set, NEW ret,
           vm_mngr_instance_create(vm, core_set, ret)
    PROVE  Accounted'
  <1>1. CASE UNCHANGED mngrVars \/ \E reason : BUG_ON(reason)
    BY <1>1, NothingDoneAccounted
  <1>2. CASE ~(UNCHANGED mngrVars \/ \E reason : BUG_ON(reason))
    <2>1. PICK s \in Slot : /\ ~CreateRefused(vm)
                            /\ ~VMs[s].initialized
                            /\ CreateIn(s, vm, core_set)
      BY <1>2 DEF vm_mngr_instance_create, Return
    <2> QED
      BY <2>1, CreateAccounted DEF ManagerInv, MngrInv
  <1> QED
    BY <1>1, <1>2

\* Start and stop set the two flags of a slot.
LEMMA FlagsKeepAccounts ==
    ASSUME VmTypeOK, Accounted, NEW s \in Slot, NEW b \in BOOLEAN,
           VMs' = [VMs EXCEPT ![s].running = b, ![s].perf_open = b],
           UNCHANGED poolVars
    PROVE  Accounted'
  <1>1. VMs[s] \in VmInstance
    BY DEF VmTypeOK
  <1>2. \A t \in Slot : /\ VMs'[t].vm_id = VMs[t].vm_id
                        /\ (VMs'[t].initialized <=> VMs[t].initialized)
                        /\ VMs'[t].attached_devs = VMs[t].attached_devs
    BY <1>1 DEF VmTypeOK, VmInstance
  <1> QED
    BY <1>2, MemoryUntouched DEF poolVars

\* start-vm moves no memory.
LEMMA StartKeepsAccounts ==
    ASSUME ManagerInv, Accounted, NEW vm, NEW perf_ok \in BOOLEAN,
           NEW connected \in BOOLEAN, NEW ret,
           vm_mngr_instance_start(vm, perf_ok, connected, ret)
    PROVE  Accounted'
  <1>1. CASE UNCHANGED mngrVars \/ \E reason : BUG_ON(reason)
    BY <1>1, NothingDoneAccounted
  <1>2. CASE ~(UNCHANGED mngrVars \/ \E reason : BUG_ON(reason))
    <2>1. PICK s \in Slot : VMs' = AfterStart(s, ret) /\ UNCHANGED poolVars
      BY <1>2 DEF vm_mngr_instance_start, Return
    <2>2. CASE ret < 0
      BY <2>1, <2>2, SameMemory DEF AfterStart, poolVars
    <2>3. CASE ~(ret < 0)
      BY <2>1, <2>3, FlagsKeepAccounts DEF AfterStart, ManagerInv, MngrInv
    <2> QED
      BY <2>2, <2>3
  <1> QED
    BY <1>1, <1>2

\* stop-vm moves no memory.
LEMMA StopKeepsAccounts ==
    ASSUME ManagerInv, Accounted, NEW vm, NEW perf_ok \in BOOLEAN, NEW ret,
           vm_mngr_instance_stop(vm, perf_ok, ret)
    PROVE  Accounted'
  <1>1. CASE UNCHANGED mngrVars \/ \E reason : BUG_ON(reason)
    BY <1>1, NothingDoneAccounted
  <1>2. CASE ~(UNCHANGED mngrVars \/ \E reason : BUG_ON(reason))
    <2>1. PICK s \in Slot :
             /\ VMs' = [VMs EXCEPT ![s].running = FALSE, ![s].perf_open = FALSE]
             /\ UNCHANGED poolVars
      BY <1>2 DEF vm_mngr_instance_stop, Return
    <2> QED
      BY <2>1, FlagsKeepAccounts DEF ManagerInv, MngrInv
  <1> QED
    BY <1>1, <1>2

\* destroy-vm frees the segments of every device it drops.
LEMMA DestroyKeepsAccounts ==
    ASSUME ManagerInv, Accounted, NEW vm \in Nat, NEW ret,
           vm_mngr_instance_destroy(vm, ret)
    PROVE  Accounted'
  <1>1. CASE UNCHANGED mngrVars
    BY <1>1, NothingDoneAccounted
  <1>2. CASE ~UNCHANGED mngrVars
    <2>1. PICK s \in Slot : vm_mngr_get_instance(vm, s) /\ DestroyIn(s, vm)
      BY <1>2 DEF vm_mngr_instance_destroy, Return
    <2>2. s \in Live /\ VMs[s].vm_id = vm
      BY <2>1, InstanceIsLive DEF ManagerInv, MngrInv
    <2> QED
      BY <2>1, <2>2, DestroyAccounted DEF ManagerInv, MngrInv
  <1> QED
    BY <1>1, <1>2

\* alloc-mem writes down the segments it took.
LEMMA AllocMemKeepsAccounts ==
    ASSUME ManagerInv, Accounted, NEW nid, NEW vm \in VmId, NEW size_mb \in Int,
           NEW malloc_ok \in BOOLEAN, NEW ret,
           vm_mngr_instance_alloc_mem(nid, vm, size_mb, malloc_ok, ret)
    PROVE  Accounted'
  <1>1. CASE UNCHANGED mngrVars \/ \E reason : BUG_ON(reason)
    BY <1>1, NothingDoneAccounted
  <1>2. CASE ~(UNCHANGED mngrVars \/ \E reason : BUG_ON(reason))
    <2>1. PICK s \in Slot :
             /\ vm_mngr_get_instance(vm, s)
             /\ \E start \in Index(nid) : AllocIn(s, nid, vm, size_mb, start)
      BY <1>2 DEF vm_mngr_instance_alloc_mem, Return
    <2>2. s \in Live /\ VMs[s].vm_id = vm
      BY <2>1, InstanceIsLive DEF ManagerInv, MngrInv
    <2> QED
      BY <2>1, <2>2, AllocAccounted DEF ManagerInv, MngrInv
  <1> QED
    BY <1>1, <1>2

\* free-mem frees the segments of the device it drops.
LEMMA FreeMemKeepsAccounts ==
    ASSUME ManagerInv, Accounted, NEW vm \in VmId, NEW memid, NEW ret,
           vm_mngr_instance_free_mem(vm, memid, ret)
    PROVE  Accounted'
  <1>1. CASE UNCHANGED mngrVars
    BY <1>1, NothingDoneAccounted
  <1>2. CASE ~UNCHANGED mngrVars
    <2>1. PICK s \in Slot :
             /\ vm_mngr_get_instance(vm, s)
             /\ \E d \in VMs[s].attached_devs : FreeIn(s, d, vm, ret)
      BY <1>2 DEF vm_mngr_instance_free_mem, Return
    <2>2. s \in Live /\ VMs[s].vm_id = vm
      BY <2>1, InstanceIsLive DEF ManagerInv, MngrInv
    <2> QED
      BY <2>1, <2>2, FreeAccounted DEF ManagerInv, MngrInv
  <1> QED
    BY <1>1, <1>2

-----------------------------------------------------------------------------
(* The operations, by what they do to the tables *)

\* A call changes nothing, or does its work in one slot.
LEMMA CreateEffect ==
    ASSUME ManagerInv, NEW vm, NEW core_set, NEW ret,
           vm_mngr_instance_create(vm, core_set, ret)
    PROVE  \/ NothingChanges
           \/ \E s \in Slot : /\ ~VMs[s].initialized
                              /\ ~CreateRefused(vm)
                              /\ CreateIn(s, vm, core_set)
  BY DEF vm_mngr_instance_create, Return, NothingChanges

\* destroy-vm works in the slot of a VM that is not running.
LEMMA DestroyEffect ==
    ASSUME ManagerInv, NEW vm, NEW ret, vm_mngr_instance_destroy(vm, ret)
    PROVE  \/ NothingChanges
           \/ \E s \in Live : /\ VMs[s].vm_id = vm
                              /\ ~VMs[s].running
                              /\ DestroyIn(s, vm)
  BY InstanceIsLive
  DEF vm_mngr_instance_destroy, Return, NothingChanges, ManagerInv, MngrInv

\* alloc-mem works in the slot of the VM.
LEMMA AllocEffect ==
    ASSUME ManagerInv, NEW nid, NEW vm, NEW size_mb, NEW malloc_ok, NEW ret,
           vm_mngr_instance_alloc_mem(nid, vm, size_mb, malloc_ok, ret)
    PROVE  \/ NothingChanges
           \/ \E s \in Live :
                 /\ VMs[s].vm_id = vm
                 /\ \E start \in Index(nid) : AllocIn(s, nid, vm, size_mb, start)
  BY InstanceIsLive
  DEF vm_mngr_instance_alloc_mem, Return, NothingChanges, ManagerInv, MngrInv

\* free-mem takes one device of the VM.
LEMMA FreeEffect ==
    ASSUME ManagerInv, NEW vm, NEW memid, NEW ret,
           vm_mngr_instance_free_mem(vm, memid, ret)
    PROVE  \/ NothingChanges
           \/ \E s \in Live :
                 /\ VMs[s].vm_id = vm
                 /\ \E d \in VMs[s].attached_devs :
                       d.memdev_idx = memid /\ FreeIn(s, d, vm, ret)
  BY InstanceIsLive
  DEF vm_mngr_instance_free_mem, Return, NothingChanges, ManagerInv, MngrInv

\* Start and stop set flags of a slot and touch neither devices nor segments.
LEMMA StartEffect ==
    ASSUME ManagerInv, NEW vm, NEW perf_ok, NEW connected, NEW ret,
           vm_mngr_instance_start(vm, perf_ok, connected, ret)
    PROVE  /\ UNCHANGED segments
           /\ \A t \in Slot : /\ VMs'[t].vm_id = VMs[t].vm_id
                              /\ (VMs'[t].initialized <=> VMs[t].initialized)
                              /\ VMs'[t].memdev_counter = VMs[t].memdev_counter
                              /\ VMs'[t].attached_devs = VMs[t].attached_devs
  <1>1. CASE NothingChanges
    BY <1>1 DEF NothingChanges, BUG_ON, mngrVars, tableVars, poolVars
  <1>2. CASE ~NothingChanges
    <2>1. PICK s \in Slot : VMs' = AfterStart(s, ret) /\ UNCHANGED poolVars
      BY <1>2 DEF vm_mngr_instance_start, Return, NothingChanges
    <2>2. VMs \in [Slot -> VmInstance] /\ VMs[s] \in VmInstance
      BY DEF ManagerInv, MngrInv, VmTypeOK
    <2> QED
      BY <2>1, <2>2 DEF AfterStart, VmInstance, poolVars
  <1> QED
    BY <1>1, <1>2

\* The same for stop-vm.
LEMMA StopEffect ==
    ASSUME ManagerInv, NEW vm, NEW perf_ok, NEW ret,
           vm_mngr_instance_stop(vm, perf_ok, ret)
    PROVE  /\ UNCHANGED segments
           /\ \A t \in Slot : /\ VMs'[t].vm_id = VMs[t].vm_id
                              /\ (VMs'[t].initialized <=> VMs[t].initialized)
                              /\ VMs'[t].memdev_counter = VMs[t].memdev_counter
                              /\ VMs'[t].attached_devs = VMs[t].attached_devs
  <1>1. CASE NothingChanges
    BY <1>1 DEF NothingChanges, BUG_ON, mngrVars, tableVars, poolVars
  <1>2. CASE ~NothingChanges
    <2>1. PICK s \in Slot :
             /\ VMs' = [VMs EXCEPT ![s].running = FALSE, ![s].perf_open = FALSE]
             /\ UNCHANGED poolVars
      BY <1>2 DEF vm_mngr_instance_stop, Return, NothingChanges
    <2>2. VMs \in [Slot -> VmInstance] /\ VMs[s] \in VmInstance
      BY DEF ManagerInv, MngrInv, VmTypeOK
    <2> QED
      BY <2>1, <2>2 DEF VmInstance, poolVars
  <1> QED
    BY <1>1, <1>2

-----------------------------------------------------------------------------
(* The numbers of devices *)

\* A call that leaves ids, counters and lists alone.
LEMMA SameNumbers ==
    ASSUME DevicesNumbered,
           \A t \in Slot : /\ VMs'[t].vm_id = VMs[t].vm_id
                           /\ (VMs'[t].initialized <=> VMs[t].initialized)
                           /\ VMs'[t].memdev_counter = VMs[t].memdev_counter
                           /\ VMs'[t].attached_devs = VMs[t].attached_devs
    PROVE  DevicesNumbered'
  BY DEF DevicesNumbered, Live

\* A new VM counts its devices from zero.
LEMMA CreateNumbered ==
    ASSUME VmTypeOK, DevicesNumbered, NEW vm \in VmId, NEW core_set, NEW s \in Slot,
           CreateIn(s, vm, core_set)
    PROVE  DevicesNumbered'
  <1>1. /\ \A t \in Slot \ {s} : VMs'[t] = VMs[t]
        /\ VMs'[s].vm_id = vm
        /\ VMs'[s].memdev_counter = 0
        /\ VMs'[s].attached_devs = {}
    <2>1. VMs \in [Slot -> VmInstance] /\ VMs[s] \in VmInstance
      BY DEF VmTypeOK
    <2> QED
      BY <2>1 DEF CreateIn, VmInstance
  <1> QED
    BY <1>1, MaxMemdevAssumption DEF DevicesNumbered, Live

\* A VM that is gone has no devices to number.
LEMMA DestroyNumbered ==
    ASSUME VmTypeOK, DevicesNumbered, NEW vm, NEW s \in Live, DestroyIn(s, vm)
    PROVE  DevicesNumbered'
  <1>1. /\ \A t \in Slot \ {s} : VMs'[t] = VMs[t]
        /\ ~VMs'[s].initialized
    BY DEF DestroyIn, VmTypeOK, VmInstance, Live
  <1> QED
    BY <1>1 DEF DevicesNumbered, Live

\* A slot's devices and its counter after alloc-mem.
LEMMA AllocSlot ==
    ASSUME VmTypeOK, NEW nid, NEW vm, NEW size_mb, NEW start, NEW s \in Live,
           AllocIn(s, nid, vm, size_mb, start)
    PROVE  /\ VMs[s].memdev_counter \in Nat
           /\ VMs[s].memdev_counter < MaxMemdev
           /\ VMs'[s].memdev_counter = VMs[s].memdev_counter + 1
           /\ VMs'[s].attached_devs = VMs[s].attached_devs
                 \cup {NewMemDev(s, nid, start, NumSegments(size_mb))}
           /\ VMs'[s].vm_id = VMs[s].vm_id
           /\ \A t \in Slot \ {s} : VMs'[t] = VMs[t]
           /\ Live' = Live
           /\ \A v : Instances(v)' = Instances(v)
  <1> DEFINE c == VMs[s].memdev_counter + 1
             D == VMs[s].attached_devs
                    \cup {NewMemDev(s, nid, start, NumSegments(size_mb))}
  <1>1. VMs \in [Slot -> VmInstance] /\ VMs[s] \in VmInstance /\ s \in Slot
    BY DEF VmTypeOK, Live
  <1>2. VMs' = [VMs EXCEPT ![s].memdev_counter = c, ![s].attached_devs = D]
    BY DEF AllocIn
  <1>3. VMs[s].memdev_counter \in Nat /\ VMs[s].memdev_counter < MaxMemdev
    BY <1>1 DEF AllocIn, VmInstance
  <1> HIDE DEF c, D
  <1>4. /\ VMs'[s].attached_devs = D
        /\ \A t \in Slot \ {s} : VMs'[t] = VMs[t]
        /\ Live' = Live
        /\ \A v : Instances(v)' = Instances(v)
    BY <1>2, OtherDevices
  <1>5. VMs'[s].memdev_counter = c /\ VMs'[s].vm_id = VMs[s].vm_id
    BY <1>1, <1>2 DEF VmInstance
  <1> QED
    BY <1>3, <1>4, <1>5 DEF c, D

\* And after a free-mem, which takes the whole device off the list.
LEMMA FreeSlot ==
    ASSUME Accounted, VmTypeOK, NEW vm \in VmId, NEW s \in Live, VMs[s].vm_id = vm,
           NEW d \in VMs[s].attached_devs, NEW ret, FreeIn(s, d, vm, ret)
    PROVE  /\ ret = 0
           /\ VMs'[s].memdev_counter = VMs[s].memdev_counter
           /\ VMs'[s].attached_devs = VMs[s].attached_devs \ {d}
           /\ VMs'[s].vm_id = VMs[s].vm_id
           /\ \A t \in Slot \ {s} : VMs'[t] = VMs[t]
           /\ Live' = Live
           /\ \A v : Instances(v)' = Instances(v)
  <1> DEFINE D == VMs[s].attached_devs \ {d}
  <1>1. VMs \in [Slot -> VmInstance] /\ VMs[s] \in VmInstance /\ s \in Slot
    BY DEF VmTypeOK, Live
  <1>2. ret = 0
    BY FreeReleasesAll
  <1>3. VMs' = [VMs EXCEPT ![s].attached_devs = D]
    BY <1>2 DEF FreeIn, AfterFree
  <1> HIDE DEF D
  <1>4. /\ VMs'[s].attached_devs = D
        /\ VMs'[s].memdev_counter = VMs[s].memdev_counter
        /\ VMs'[s].vm_id = VMs[s].vm_id
        /\ (VMs'[s].initialized <=> VMs[s].initialized)
        /\ \A t \in Slot \ {s} : VMs'[t] = VMs[t]
    BY <1>1, <1>3 DEF VmInstance
  <1> QED
    BY <1>1, <1>2, <1>4 DEF D, Live, Instances

\* A new device gets the number of the counter, which goes up.
LEMMA AllocNumbered ==
    ASSUME VmTypeOK, DevicesNumbered, NEW nid, NEW vm, NEW size_mb \in Int,
           NEW start, NEW s \in Live, AllocIn(s, nid, vm, size_mb, start)
    PROVE  DevicesNumbered'
  <1> DEFINE num == NumSegments(size_mb)
             d == NewMemDev(s, nid, start, num)
             c == VMs[s].memdev_counter
  <1>1. /\ c \in Nat /\ c < MaxMemdev
        /\ VMs'[s].memdev_counter = c + 1
        /\ VMs'[s].attached_devs = VMs[s].attached_devs \cup {d}
        /\ VMs'[s].vm_id = VMs[s].vm_id
        /\ \A t \in Slot \ {s} : VMs'[t] = VMs[t]
        /\ Live' = Live
    BY AllocSlot
  <1>2. is_aligned(size_mb) /\ num > 0
    BY DEF AllocIn, memory_pool_allocate_segments
  <1>3. num \in Nat
    BY <1>2, NumSegmentsNat
  <1>4. d.memdev_idx = c /\ d.size_mb = num * SegmentSizeMb
    BY DEF NewMemDev, MemoryRequest
  <1>5. NumSegments(d.size_mb) > 0
    BY <1>2, <1>3, <1>4, SegmentsOfMb
  <1>6. \A e \in VMs[s].attached_devs : e.memdev_idx \in Nat
    BY DEF VmTypeOK, VmInstance, MemDev, Live
  <1> HIDE DEF num, d, c
  <1>7. /\ VMs[s].vm_id \in VmId
        /\ \A e \in VMs[s].attached_devs :
              e.memdev_idx < c /\ NumSegments(e.size_mb) > 0
        /\ \A e, f \in VMs[s].attached_devs : e.memdev_idx = f.memdev_idx => e = f
    BY DEF DevicesNumbered, c
  <1>8. /\ VMs'[s].vm_id \in VmId
        /\ VMs'[s].memdev_counter <= MaxMemdev
        /\ \A e \in VMs'[s].attached_devs :
              e.memdev_idx < VMs'[s].memdev_counter /\ NumSegments(e.size_mb) > 0
        /\ \A e, f \in VMs'[s].attached_devs : e.memdev_idx = f.memdev_idx => e = f
    BY <1>1, <1>4, <1>5, <1>6, <1>7, MaxMemdevAssumption
  <1>9. \A t \in Live \ {s} : VMs'[t] = VMs[t]
    BY <1>1 DEF Live
  <1> QED
    BY <1>1, <1>8, <1>9 DEF DevicesNumbered

\* A number that was given is not given again.
LEMMA FreeNumbered ==
    ASSUME Accounted, VmTypeOK, DevicesNumbered, NEW vm \in VmId,
           NEW s \in Live, VMs[s].vm_id = vm,
           NEW d \in VMs[s].attached_devs, NEW ret, FreeIn(s, d, vm, ret)
    PROVE  DevicesNumbered'
  <1>1. /\ VMs'[s].memdev_counter = VMs[s].memdev_counter
        /\ VMs'[s].attached_devs = VMs[s].attached_devs \ {d}
        /\ VMs'[s].vm_id = VMs[s].vm_id
        /\ \A t \in Slot \ {s} : VMs'[t] = VMs[t]
        /\ Live' = Live
    BY FreeSlot
  <1>2. \A t \in Live \ {s} : VMs'[t] = VMs[t]
    BY <1>1 DEF Live
  <1> QED
    BY <1>1, <1>2 DEF DevicesNumbered

-----------------------------------------------------------------------------
(* The whole invariant *)

\* A call that changes nothing keeps the invariant.
LEMMA NothingChangesInv ==
    ASSUME TableInv, UNCHANGED mngrVars
    PROVE  TableInv'
  <1>1. ManagerInv' /\ Accounted'
    BY NothingDone, NothingDoneAccounted DEF TableInv
  <1>2. DevicesNumbered'
    BY DEF TableInv, DevicesNumbered, Live, mngrVars, tableVars
  <1> QED
    BY <1>1, <1>2 DEF TableInv

\* A call that is refused, or dies, gives no numbers.
LEMMA NumbersKept ==
    ASSUME DevicesNumbered, NothingChanges
    PROVE  DevicesNumbered'
  BY DEF DevicesNumbered, Live, NothingChanges, BUG_ON, mngrVars, tableVars

\* vm_mngr_instance_create keeps the whole invariant.
LEMMA CreateTableInv ==
    ASSUME TableInv, NEW vm \in VmId, NEW core_set \in CoreSet, NEW ret,
           vm_mngr_instance_create(vm, core_set, ret)
    PROVE  TableInv'
  <1>1. ManagerInv' /\ Accounted'
    BY CreateInv, CreateKeepsAccounts DEF TableInv
  <1>2. DevicesNumbered'
    BY CreateEffect, NumbersKept, CreateNumbered DEF TableInv, ManagerInv, MngrInv
  <1> QED
    BY <1>1, <1>2 DEF TableInv

\* vm_mngr_instance_start keeps the whole invariant.
LEMMA StartTableInv ==
    ASSUME TableInv, NEW vm, NEW perf_ok \in BOOLEAN, NEW connected \in BOOLEAN,
           NEW ret, vm_mngr_instance_start(vm, perf_ok, connected, ret)
    PROVE  TableInv'
  <1>1. ManagerInv' /\ Accounted'
    BY StartInv, StartKeepsAccounts DEF TableInv
  <1>2. DevicesNumbered'
    BY StartEffect, SameNumbers DEF TableInv
  <1> QED
    BY <1>1, <1>2 DEF TableInv

\* vm_mngr_instance_stop keeps the whole invariant.
LEMMA StopTableInv ==
    ASSUME TableInv, NEW vm, NEW perf_ok \in BOOLEAN, NEW ret,
           vm_mngr_instance_stop(vm, perf_ok, ret)
    PROVE  TableInv'
  <1>1. ManagerInv' /\ Accounted'
    BY StopInv, StopKeepsAccounts DEF TableInv
  <1>2. DevicesNumbered'
    BY StopEffect, SameNumbers DEF TableInv
  <1> QED
    BY <1>1, <1>2 DEF TableInv

\* vm_mngr_instance_destroy keeps the whole invariant.
LEMMA DestroyTableInv ==
    ASSUME TableInv, NEW vm \in Nat, NEW ret, vm_mngr_instance_destroy(vm, ret)
    PROVE  TableInv'
  <1>1. ManagerInv' /\ Accounted'
    BY DestroyInv, DestroyKeepsAccounts DEF TableInv
  <1>2. DevicesNumbered'
    BY DestroyEffect, NumbersKept, DestroyNumbered DEF TableInv, ManagerInv, MngrInv
  <1> QED
    BY <1>1, <1>2 DEF TableInv

\* vm_mngr_instance_alloc_mem keeps the whole invariant.
LEMMA AllocTableInv ==
    ASSUME TableInv, NEW nid, NEW vm \in VmId, NEW size_mb \in Int, size_mb > 0,
           NEW malloc_ok \in BOOLEAN, NEW ret,
           vm_mngr_instance_alloc_mem(nid, vm, size_mb, malloc_ok, ret)
    PROVE  TableInv'
  <1>1. ManagerInv' /\ Accounted'
    BY AllocMemInv, AllocMemKeepsAccounts DEF TableInv
  <1>2. DevicesNumbered'
    <2>1. CASE NothingChanges
      BY <2>1, NumbersKept DEF TableInv
    <2>2. CASE ~NothingChanges
      <3>1. PICK s \in Live :
               \E start \in Index(nid) : AllocIn(s, nid, vm, size_mb, start)
        BY <2>2, AllocEffect DEF TableInv
      <3> QED
        BY <3>1, AllocNumbered DEF TableInv, ManagerInv, MngrInv
    <2> QED
      BY <2>1, <2>2
  <1> QED
    BY <1>1, <1>2 DEF TableInv

\* vm_mngr_instance_free_mem keeps the whole invariant.
LEMMA FreeTableInv ==
    ASSUME TableInv, NEW vm \in VmId, NEW memid, NEW ret,
           vm_mngr_instance_free_mem(vm, memid, ret)
    PROVE  TableInv'
  <1>1. vm \in Nat
    BY VmIdAssumption
  <1>2. ManagerInv' /\ Accounted'
    BY <1>1, FreeMemInv, FreeMemKeepsAccounts DEF TableInv
  <1>3. DevicesNumbered'
    <2>1. CASE NothingChanges
      BY <2>1, NumbersKept DEF TableInv
    <2>2. CASE ~NothingChanges
      <3>1. PICK s \in Live :
               /\ VMs[s].vm_id = vm
               /\ \E d \in VMs[s].attached_devs : FreeIn(s, d, vm, ret)
        BY <2>2, FreeEffect DEF TableInv
      <3> QED
        BY <3>1, FreeNumbered DEF TableInv, ManagerInv, MngrInv
    <2> QED
      BY <2>1, <2>2
  <1> QED
    BY <1>2, <1>3 DEF TableInv

\* The tables at start: static storage, and the pool as init_memory_resource
\* leaves it.
LEMMA VmInitInv == VmInit => TableInv
  <1> SUFFICES ASSUME VmInit PROVE TableInv
    OBVIOUS
  <1>1. PoolInv
    BY PoolInitInv DEF VmInit
  <1>2. Live = {} /\ \A vm : Instances(vm) = {}
    BY DEF VmInit, Live, Instances
  <1>3. {a \in Slot : agents[a]} = {}
    BY DEF VmInit
  <1>4. VMs \in [Slot -> VmInstance]
    BY DEF VmInit, VmInstance, CoreSet
  <1>5. VmTypeOK
    BY <1>1, <1>4 DEF VmInit, VmTypeOK, PoolInv, AbortReason
  <1>6. VmTableConsistent
    BY <1>2, FS_EmptySet DEF VmInit, VmTableConsistent
  <1>7. AgentsMatchRunning
    BY <1>2, <1>3, FS_EmptySet DEF VmInit, AgentsMatchRunning
  <1>8. InternalAssertionsHold
    BY DEF VmInit, InternalAssertionsHold
  <1>9. ManagerInv
    BY <1>1, <1>5, <1>6, <1>7, <1>8 DEF ManagerInv, MngrInv, PoolInv
  <1>10. ASSUME NEW n \in Node, NEW vm \in VmId, NEW k \in Index(n)
         PROVE  segments[n][k] # vm
    <2>1. segments[n][k] = NoVm
      BY <1>10 DEF VmInit, PoolInit
    <2>2. \A id \in VmId : id # NoVm
      BY VmIdAssumption DEF NoVm
    <2> QED
      BY <1>10, <2>1, <2>2
  <1>11. Accounted
    BY <1>2, <1>10 DEF Accounted, MemoryAccounted, DevicesFit
  <1>12. DevicesNumbered
    BY <1>2 DEF DevicesNumbered
  <1> QED
    BY <1>9, <1>11, <1>12 DEF TableInv
=============================================================================
