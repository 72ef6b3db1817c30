----------------------------- MODULE VmManager -----------------------------
(***************************************************************************)
(* The VM table of vm_manager.c and the guest agent table of guest_agent.c *)
(* on top of the memory pool: create, start, stop and destroy a VM, give   *)
(* it memory and take memory back.                                         *)
(*                                                                         *)
(* Every operation is an action with the value it returns as the parameter *)
(* ret; the RPC handlers of ResourceManager call them.  An assertion that  *)
(* fails (BUG_ON raises SIGABRT) ends the process: abort records why.      *)
(*                                                                         *)
(* A core set is one of four kinds, told apart by what the code does with  *)
(* it.  Perf events of a VM are open or not; how many there are, and what  *)
(* they count, is left out.                                                *)
(***************************************************************************)
EXTENDS MemoryPool

CONSTANTS MAX_NUM_VM,  \* length of the VM table and of the agent table
          MaxMemdev    \* bound: memdev indices a VM is given in its life

ASSUME MaxNumVmAssumption == MAX_NUM_VM \in Nat \ {0}
ASSUME MaxMemdevAssumption == MaxMemdev \in Nat

VARIABLES VMs,          \* g_vm_mngr.VMs
          count,        \* g_vm_mngr.count
          agents,       \* g_agent_manager.guest_agents[i].initialized
          agent_count,  \* g_agent_manager.count
          abort         \* why the process died, "none" while it lives

tableVars == <<VMs, count>>
agentVars == <<agents, agent_count>>
mngrVars == <<poolVars, tableVars, agentVars, abort>>

Slot == 0 .. (MAX_NUM_VM - 1)

\* "": no characters.  "inverted": ranges such as 5-3 only, which name no
\* core.  "negative": names a core below zero.  "cores": at least one core.
CoreSet == {"", "inverted", "negative", "cores"}

AbortReason == {"none", "slot_in_use", "empty_core_set", "no_cores",
                "bad_core", "perf_event", "agent_index", "zero_segments"}

MemDev == [memdev_idx : Nat, node_id : Node, offset_mb : Nat, size_mb : Nat]

VmInstance == [vm_id : VmId \cup {0}, initialized : BOOLEAN, running : BOOLEAN,
               core_set : CoreSet, perf_open : BOOLEAN,
               memdev_counter : Nat, attached_devs : SUBSET MemDev]

\* Static storage: every field of every slot is zero.
VmInit ==
    /\ PoolInit
    /\ VMs = [s \in Slot |->
                [vm_id |-> 0, initialized |-> FALSE, running |-> FALSE,
                 core_set |-> "", perf_open |-> FALSE,
                 memdev_counter |-> 0, attached_devs |-> {}]]
    /\ count = 0
    /\ agents = [a \in Slot |-> FALSE]
    /\ agent_count = 0
    /\ abort = "none"

VmTypeOK ==
    /\ PoolTypeOK
    /\ VMs \in [Slot -> VmInstance]
    /\ count \in Nat
    /\ agents \in [Slot -> BOOLEAN]
    /\ agent_count \in Nat
    /\ abort \in AbortReason

-----------------------------------------------------------------------------
Instances(vm) == {s \in Slot : VMs[s].vm_id = vm /\ VMs[s].initialized}

\* The lookup returns the lowest slot that holds the VM.
vm_mngr_get_instance(vm, s) ==
    s \in Instances(vm) /\ \A t \in Instances(vm) : s <= t

\* Where the scan for a free entry stops: at the first slot that is not
\* initialized, or at the last one.
FreeEntry(s) ==
    /\ \A t \in 0 .. (s - 1) : VMs[t].initialized
    /\ ~VMs[s].initialized \/ s = MAX_NUM_VM - 1

\* A call that changes nothing and returns r.
Return(ret, r) == ret = r /\ UNCHANGED mngrVars

\* BUG_ON, assert, and accesses outside the agent table: no promise is made
\* about what follows, and the model stops.
BUG_ON(reason) ==
    abort' = reason /\ UNCHANGED <<poolVars, tableVars, agentVars>>

\* guest_agent_init(), for an id that is an index of the agent table;
\* connected: whether the guest agent's socket accepts the connection.
guest_agent_init(vm, connected, ret) ==
    IF agents[vm]
    THEN ret = 0 /\ UNCHANGED agentVars
    ELSE IF agent_count >= MAX_NUM_VM \/ ~connected
    THEN ret = -1 /\ UNCHANGED agentVars
    ELSE /\ ret = 0
         /\ agents' = [agents EXCEPT ![vm] = TRUE]
         /\ agent_count' = agent_count + 1

guest_agent_cleanup(vm) ==
    IF agents[vm]
    THEN /\ agents' = [agents EXCEPT ![vm] = FALSE]
         /\ agent_count' = agent_count - 1
    ELSE UNCHANGED agentVars

-----------------------------------------------------------------------------
(***************************************************************************)
(* Faulty forms of definitions below, each a slip the code could have; no  *)
(* part of any specification.                                              *)
(***************************************************************************)
\* Off by one: lets one VM too many in.
CreateRefusedLate(vm) == count > MAX_NUM_VM \/ Instances(vm) # {}

\* Does not look for a VM with the same id.
CreateRefusedWhenFull(vm) == count >= MAX_NUM_VM

\* Forgets count++.
CreateInUncounted(s, vm, core_set) ==
    /\ VMs' = [VMs EXCEPT ![s].vm_id = vm, ![s].memdev_counter = 0,
                          ![s].core_set = core_set, ![s].attached_devs = {},
                          ![s].initialized = TRUE]
    /\ UNCHANGED <<poolVars, count, agentVars, abort>>

\* Forgets to close the perf events when the agent cannot be reached.
AfterStartLeaky(s, ret) ==
    [VMs EXCEPT ![s].running = ret = 0, ![s].perf_open = TRUE]

\* Destroys a VM without giving its memory back.
DestroyInKeepsSegments(s, vm) ==
    /\ VMs' = [VMs EXCEPT ![s].core_set = "", ![s].initialized = FALSE]
    /\ count' = count - 1
    /\ UNCHANGED <<poolVars, agentVars, abort>>

\* Decreases the memdev counter when a device is freed.
AfterFreeReusesIndex(s, d, ret) ==
    IF ret < 0 THEN VMs
    ELSE [VMs EXCEPT ![s].attached_devs = @ \ {d}, ![s].memdev_counter = @ - 1]

-----------------------------------------------------------------------------
(* vm_mngr_instance_create() *)

CreateRefused(vm) == count >= MAX_NUM_VM \/ Instances(vm) # {}

CreateIn(s, vm, core_set) ==
    /\ VMs' = [VMs EXCEPT ![s].vm_id = vm,
                          ![s].memdev_counter = 0,
                          ![s].core_set = core_set,
                          ![s].attached_devs = {},
                          ![s].initialized = TRUE]
    /\ count' = count + 1
    /\ UNCHANGED <<poolVars, agentVars, abort>>

vm_mngr_instance_create(vm, core_set, ret) ==
    \/ CreateRefused(vm) /\ Return(ret, -1)
    \/ /\ ~CreateRefused(vm)
       /\ ret = 0
       /\ \E s \in Slot :
            /\ FreeEntry(s)
            /\ IF VMs[s].initialized THEN BUG_ON("slot_in_use")
               ELSE IF core_set = "" THEN BUG_ON("empty_core_set")
               ELSE CreateIn(s, vm, core_set)

(* vm_mngr_instance_start() *)

\* The assertion that fails when the perf events of s are opened, or "none".
vm_perf_counter_setup(s, perf_ok) ==
    CASE VMs[s].core_set = "inverted" -> "no_cores"
      [] VMs[s].core_set = "negative" -> "bad_core"
      [] OTHER -> IF perf_ok THEN "none" ELSE "perf_event"

\* When the agent cannot be reached the perf events are closed again.
AfterStart(s, ret) ==
    IF ret < 0 THEN VMs
    ELSE [VMs EXCEPT ![s].running = TRUE, ![s].perf_open = TRUE]

\* perf_ok: whether the kernel opens every perf event and, if the agent cannot
\* be reached, lets them be read and closed again.
vm_mngr_instance_start(vm, perf_ok, connected, ret) ==
    \/ Instances(vm) = {} /\ Return(ret, -1)
    \/ \E s \in Slot :
        /\ vm_mngr_get_instance(vm, s)
        /\ IF VMs[s].running THEN Return(ret, 0)
           ELSE IF vm_perf_counter_setup(s, perf_ok) # "none"
                THEN BUG_ON(vm_perf_counter_setup(s, perf_ok)) /\ ret = 0
           ELSE IF vm \notin Slot THEN BUG_ON("agent_index") /\ ret = 0
           ELSE /\ guest_agent_init(vm, connected, ret)
                /\ VMs' = AfterStart(s, ret)
                /\ UNCHANGED <<poolVars, count, abort>>

(* vm_mngr_instance_stop() *)

\* perf_ok: whether every perf event can be read and closed.
vm_mngr_instance_stop(vm, perf_ok, ret) ==
    \/ Instances(vm) = {} /\ Return(ret, -1)
    \/ \E s \in Slot :
        /\ vm_mngr_get_instance(vm, s)
        /\ ret = 0
        /\ IF ~VMs[s].running THEN UNCHANGED mngrVars
           ELSE IF ~perf_ok THEN BUG_ON("perf_event")
           ELSE /\ guest_agent_cleanup(vm)
                /\ VMs' = [VMs EXCEPT ![s].running = FALSE,
                                      ![s].perf_open = FALSE]
                /\ UNCHANGED <<poolVars, count, abort>>

(* vm_mngr_instance_destroy() *)

\* The list of attached devices is left as it is; create() starts a new one.
DestroyIn(s, vm) ==
    /\ memory_pool_release_vm_memory(vm)
    /\ VMs' = [VMs EXCEPT ![s].core_set = "", ![s].initialized = FALSE]
    /\ count' = count - 1
    /\ UNCHANGED <<agentVars, abort>>

vm_mngr_instance_destroy(vm, ret) ==
    \/ Instances(vm) = {} /\ Return(ret, -1)
    \/ \E s \in Slot :
        /\ vm_mngr_get_instance(vm, s)
        /\ IF VMs[s].running THEN Return(ret, -1)
           ELSE ret = 0 /\ DestroyIn(s, vm)

(* vm_mngr_instance_alloc_mem() *)

\* The memory_dev of a request, with the index the VM gives it.
NewMemDev(s, nid, start, num) ==
    LET req == MemoryRequest(nid, start, num)
    IN  [memdev_idx |-> VMs[s].memdev_counter, node_id |-> req.node_id,
         offset_mb |-> req.offset_mb, size_mb |-> req.size_mb]

AllocIn(s, nid, vm, size_mb, start) ==
    /\ VMs[s].memdev_counter < MaxMemdev
    /\ memory_pool_allocate_segments(nid, vm, size_mb, start)
    /\ VMs' = [VMs EXCEPT
                 ![s].memdev_counter = @ + 1,
                 ![s].attached_devs =
                     @ \cup {NewMemDev(s, nid, start, NumSegments(size_mb))}]
    /\ UNCHANGED <<count, agentVars, abort>>

\* malloc_ok: whether malloc() finds room for the memory_dev.
vm_mngr_instance_alloc_mem(nid, vm, size_mb, malloc_ok, ret) ==
    \/ Instances(vm) = {} /\ Return(ret, -1)
    \/ \E s \in Slot :
        /\ vm_mngr_get_instance(vm, s)
        /\ IF ~malloc_ok THEN Return(ret, -1)
           ELSE IF AllocateAsserts(nid, size_mb)
                THEN BUG_ON("zero_segments") /\ ret = 0
           ELSE IF AllocateFails(nid, size_mb) THEN Return(ret, -1)
           ELSE /\ ret = 0
                /\ \E start \in Index(nid) : AllocIn(s, nid, vm, size_mb, start)

(* vm_mngr_instance_free_mem() *)

\* A device whose segments the pool would not all take back stays attached.
AfterFree(s, d, ret) ==
    IF ret < 0 THEN VMs ELSE [VMs EXCEPT ![s].attached_devs = @ \ {d}]

FreeIn(s, d, vm, ret) ==
    /\ memory_pool_release_segments(d.node_id, vm, d.offset_mb, d.size_mb, ret)
    /\ VMs' = AfterFree(s, d, ret)
    /\ UNCHANGED <<count, agentVars, abort>>

vm_mngr_instance_free_mem(vm, memdev_idx, ret) ==
    \/ Instances(vm) = {} /\ Return(ret, -1)
    \/ \E s \in Slot :
        /\ vm_mngr_get_instance(vm, s)
        /\ \/ /\ \A d \in VMs[s].attached_devs : d.memdev_idx # memdev_idx
              /\ Return(ret, -1)
           \/ \E d \in VMs[s].attached_devs :
                d.memdev_idx = memdev_idx /\ FreeIn(s, d, vm, ret)

-----------------------------------------------------------------------------
(* Properties of the tables *)

Live == {s \in Slot : VMs[s].initialized}

\* The VM table: the hand-kept count is the number of initialized slots, no
\* VM id is in two of them (vm_mngr_instance_create checks both), and a slot
\* that was given up is not running: the monitor looks at running alone.
VmTableConsistent ==
    /\ count = Cardinality(Live)
    /\ \A s, t \in Live : VMs[s].vm_id = VMs[t].vm_id => s = t
    /\ \A s \in Slot : VMs[s].running => s \in Live

\* A VM runs exactly when its perf events are open and its guest agent is
\* connected, and no agent outlives its VM: between two requests start, a
\* failed start and stop have kept the three in step, and
\* g_agent_manager.count counts them.
AgentsMatchRunning ==
    /\ \A s \in Slot : VMs[s].running <=> VMs[s].perf_open
    /\ {a \in Slot : agents[a]} = {VMs[s].vm_id : s \in {t \in Live : VMs[t].running}}
    /\ agent_count = Cardinality({a \in Slot : agents[a]})

\* The segments a memory_dev stands for.
DevWindow(d) == Window(NumSegments(d.offset_mb), NumSegments(d.size_mb))

\* A segment belongs to a VM exactly when one memory_dev of that VM's list
\* covers it, and no two memory_devs cover the same segment: the pool's map
\* and the VMs' lists, kept by different functions, agree.
MemoryAccounted ==
    /\ \A n \in Node, vm \in VmId : \A k \in Index(n) :
          segments[n][k] = vm <=>
             \E s \in Instances(vm) : \E d \in VMs[s].attached_devs :
                d.node_id = n /\ k \in DevWindow(d)
    /\ \A s \in Live : \A d, e \in VMs[s].attached_devs :
          d # e /\ d.node_id = e.node_id => DevWindow(d) \cap DevWindow(e) = {}

\* Nothing a client sends makes the manager die on the assertions that guard
\* its own bookkeeping: BUG_ON(VM->initialized) after the scan for a free
\* slot, and assert(num_segments > 0) in the pool.
InternalAssertionsHold == abort \notin {"slot_in_use", "zero_segments"}
=============================================================================
