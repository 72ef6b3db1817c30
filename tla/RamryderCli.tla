---------------------------- MODULE RamryderCli ----------------------------
(***************************************************************************)
(* admin/ramryder_cli: operators create, destroy and enlarge VMs, several  *)
(* at a time, against the resource manager and the QEMUs.                  *)
(*                                                                         *)
(* A command is a row of RPCs, each an action here, with the decisions of  *)
(* the script in between; other commands run between any two of them.  The *)
(* manager's part of an RPC is the operation of VmManager behind the       *)
(* handler.  Of QEMU only the memory counts: what it was started with, and *)
(* the DIMMs.  What attach-mem and detach-mem do there is QemuHotplug's    *)
(* subject and comes down to this: an answer of success can be relied on,  *)
(* a failure says nothing.                                                 *)
(*                                                                         *)
(* Operators give any command for any VM at any time, several for the same *)
(* VM too.  A command can be killed at any time, a create-vm interrupted,  *)
(* and a QEMU can end at any time.                                         *)
(* The manager lives: its end takes the allocations of every VM with it.   *)
(* CPU sets, SSH and vCPU pinning are left out.                            *)
(***************************************************************************)
EXTENDS VmManager, ChannelPlan

CONSTANTS Cli,              \* the commands that can run at the same time
          Tier,             \* tier_id of each node: 0 local, 1 CXL
          CreateRequest,    \* what operators ask for, see Sizes
          AttachRequest,
          PlanNode,         \* nodes, and what may be free on one: the inputs
          PlanMb,           \* that the choice of channels is checked with
          Taken,            \* ids of VMs of others, which are left alone
          ListedVms         \* VMs that get-vms always has room for

Sizes == [memory : Nat, channels : Nat, cxl_memory : Nat, cxl_channels : Nat]

ASSUME TierAssumption == Tier \in [Node -> {0, 1}]
ASSUME RequestAssumption == CreateRequest \cup AttachRequest \subseteq Sizes
ASSUME PlanAssumption == PlanNode \subseteq Nat /\ IsFiniteSet(PlanNode) /\ PlanMb \subseteq Nat
ASSUME TakenAssumption == Taken \subseteq Nat \ VmId /\ IsFiniteSet(Taken)
ASSUME ListedAssumption == ListedVms \in 0 .. MAX_NUM_VM

VARIABLES cli,   \* the commands under way
          qemu,  \* qemu[vm]: the QEMU process of a VM
          left,  \* VMs with something left over by a command that was killed,
                 \* by a create-vm that found no port, or by a detach-mem that
                 \* failed when the DIMM was gone
          crossed  \* VM ids with a create-vm that another command got in the
                   \* way of, see Crosses, or that was interrupted when its
                   \* QEMU ran.  They stay here: an old QEMU may still run.

cliVars == <<cli, qemu, left, crossed>>
allVars == <<mngrVars, cliVars>>

NoCommand == [pc |-> "idle", vm |-> -1, plan |-> <<>>, memids |-> <<>>]

\* A VM that was created and has no QEMU yet, and one whose QEMU has ended.
NoQemu == [pc |-> "none", ram |-> {}, dimms |-> {}, given_up |-> {}]
Ended == [NoQemu EXCEPT !.pc = "ended"]

CliInit ==
    /\ VmInit
    /\ cli = [p \in Cli |-> NoCommand]
    /\ qemu = [vm \in VmId |-> NoQemu]
    /\ left = {}
    /\ crossed = {}

-----------------------------------------------------------------------------
(* What the commands read *)

FreeMb == [n \in Node |-> (Total(n) - used_segments[n]) * SegmentSizeMb]

TierNodes(t) == {n \in Node : Tier[n] = t}

\* get-vms answers with the first VMs of the table, as many as fit.
ListedSlots(k) ==
    {s \in Slot : /\ VMs[s].initialized
                  /\ Cardinality({t \in 0 .. s : VMs[t].initialized}) <= k}

ListLength == ListedVms .. MAX_NUM_VM

select_vmid(listed) ==
    LET used == {VMs[s].vm_id : s \in listed} \cup Taken
    IN  CHOOSE id \in 0 .. Cardinality(used) :
            id \notin used /\ 0 .. (id - 1) \subseteq used

get_vm_mem_nodes(vm, listed) ==
    UNION {{d.node_id : d \in VMs[s].attached_devs} :
              s \in {t \in listed : VMs[t].vm_id = vm}}

build_memory_plan(r) ==
    Both(choose_allocations_for_tier(TierNodes(0), FreeMb,
                                     split_memory(r.memory, r.channels)),
         IF r.cxl_channels = 0 THEN {<<>>}
         ELSE choose_allocations_for_tier(TierNodes(1), FreeMb,
                  split_memory(r.cxl_memory, r.cxl_channels)))

attach_plan(r, existing) ==
    Both(choose_allocations_for_tier_attach(TierNodes(0), FreeMb, r.memory,
                                            r.channels, existing),
         choose_allocations_for_tier_attach(TierNodes(1), FreeMb, r.cxl_memory,
                                            r.cxl_channels, existing))

\* The checks on the arguments: the others raise ValueError.
ValidCreate(r) ==
    /\ r.channels > 0 /\ r.memory >= r.channels
    /\ r.cxl_channels = 0 => r.cxl_memory = 0
    /\ r.cxl_memory >= r.cxl_channels

ValidAttach(r) == r.cxl_memory = 0 => r.cxl_channels = 0

-----------------------------------------------------------------------------
\* Command p goes on at another place, or is over.
Goto(p, to) == cli' = [cli EXCEPT ![p].pc = to]
End(p) == cli' = [cli EXCEPT ![p] = NoCommand]

At(p, pc) == cli[p].pc = pc
Vm(p) == cli[p].vm

\* Faulty form: the memory id alloc-mem answers with the next time.
NewMemidAfter(vm) == CHOOSE m \in {VMs[s].memdev_counter + 1 : s \in Instances(vm)} : TRUE

\* The first allocation of the plan that was not made, and the memory id
\* alloc-mem is going to answer with.
NextAllocation(p) == cli[p].plan[Len(cli[p].memids) + 1]
LastAllocation(p) == Len(cli[p].memids) + 1 = Len(cli[p].plan)
NewMemid(vm) == CHOOSE m \in {VMs[s].memdev_counter : s \in Instances(vm)} : TRUE

AllocMem(p, ret) ==
    \E malloc_ok \in BOOLEAN :
        vm_mngr_instance_alloc_mem(NextAllocation(p)[1], Vm(p),
                                   NextAllocation(p)[2], malloc_ok, ret)

Held(vm) == UNION {{d.memdev_idx : d \in VMs[s].attached_devs} : s \in Instances(vm)}

Runs(vm) == qemu[vm].pc = "running"

\* The places of a create-vm that has its VM, and of the other commands, which
\* are given for a VM.  Operators give them for any id at any time.
Creating == {"port", "alloc_boot", "launch", "poll", "cleanup"}
Given == {"kill", "destroy", "alloc", "attach", "rollback", "detach", "free"}

\* A command of these places is under way for the VM: whoever begins now crosses it.
Crosses(places, vm) ==
    crossed' = IF \E p \in Cli : cli[p].pc \in places /\ Vm(p) = vm
               THEN crossed \cup {vm} ELSE crossed

-----------------------------------------------------------------------------
(* create-vm *)

\* The plan is made before an id is chosen, and kept.
BeginCreate(p) ==
    /\ At(p, "idle")
    /\ \E r \in CreateRequest :
          /\ ValidCreate(r)
          /\ \E plan \in build_memory_plan(r) :
                cli' = [cli EXCEPT ![p].pc = "select", ![p].plan = plan]
    /\ UNCHANGED <<mngrVars, qemu, left, crossed>>

SelectVmid(p) ==
    /\ At(p, "select")
    /\ \E k \in ListLength :
          cli' = [cli EXCEPT ![p].pc = "create",
                             ![p].vm = select_vmid(ListedSlots(k))]
    /\ UNCHANGED <<mngrVars, qemu, left, crossed>>

\* Faulty form: cleans up after a create-vm that failed, too.
CreateVmCleansUp(p) ==
    /\ At(p, "create")
    /\ \/ /\ Vm(p) \in VmId
          /\ vm_mngr_instance_create(Vm(p), "cores", 0)
          /\ Goto(p, "port")
          /\ qemu' = [qemu EXCEPT ![Vm(p)] = NoQemu]
          /\ left' = left \ {Vm(p)}
          /\ Crosses(Given, Vm(p))
       \/ /\ vm_mngr_instance_create(Vm(p), "cores", -1)
          /\ Goto(p, "cleanup")
          /\ UNCHANGED <<qemu, left, crossed>>

\* A create-vm that fails raises before the try block: nothing is cleaned up.
\* Bound: an id outside VmId waits for the table to be full.
CreateVm(p) ==
    /\ At(p, "create")
    /\ \/ /\ Vm(p) \in VmId
          /\ vm_mngr_instance_create(Vm(p), "cores", 0)
          /\ Goto(p, "port")
          /\ qemu' = [qemu EXCEPT ![Vm(p)] = NoQemu]
          /\ left' = left \ {Vm(p)}
          /\ Crosses(Given, Vm(p))
       \/ /\ vm_mngr_instance_create(Vm(p), "cores", -1)
          /\ End(p)
          /\ UNCHANGED <<qemu, left, crossed>>

\* select_hostfwd_port(), before the try block too: if no port is free, the VM
\* stays behind.
Port(p) ==
    /\ At(p, "port")
    /\ \/ Goto(p, "alloc_boot") /\ UNCHANGED left
       \/ End(p) /\ left' = left \cup {Vm(p)}
    /\ UNCHANGED <<mngrVars, qemu, crossed>>

\* build_qemu_cmd(): alloc-mem for each channel of the plan.
AllocBoot(p) ==
    /\ At(p, "alloc_boot")
    /\ \/ /\ AllocMem(p, 0)
          /\ cli' = [cli EXCEPT ![p].memids = Append(@, NewMemid(Vm(p))),
                                ![p].pc = IF LastAllocation(p) THEN "launch" ELSE @]
       \/ AllocMem(p, -1) /\ Goto(p, "cleanup")
    /\ UNCHANGED <<qemu, left, crossed>>

Memids(p) == {cli[p].memids[i] : i \in DOMAIN cli[p].memids}

\* Popen(), or a dry run, or an error of open() or Popen().
Launch(p) ==
    /\ At(p, "launch")
    /\ \/ /\ qemu' = [qemu EXCEPT ![Vm(p)] = [NoQemu EXCEPT !.pc = "running",
                                                            !.ram = Memids(p)]]
          /\ Goto(p, "poll")
       \/ Goto(p, "cleanup") /\ UNCHANGED qemu
    /\ UNCHANGED <<mngrVars, left, crossed>>

\* Does QEMU still run after a second?
Poll(p) ==
    /\ At(p, "poll")
    /\ IF Runs(Vm(p)) THEN End(p) ELSE Goto(p, "cleanup")
    /\ UNCHANGED <<mngrVars, qemu, left, crossed>>

\* Ctrl-C in the try block: on to the finally block, which knows nothing of a
\* QEMU that runs and was not polled.
Interrupt(p) ==
    /\ cli[p].pc \in {"alloc_boot", "launch", "poll"}
    /\ Goto(p, "cleanup")
    /\ crossed' = IF At(p, "poll") /\ Runs(Vm(p)) THEN crossed \cup {Vm(p)} ELSE crossed
    /\ UNCHANGED <<mngrVars, qemu, left>>

\* Faulty form: leaves the VM of a failed create-vm in the manager.
CleanupNothing(p) ==
    /\ At(p, "cleanup")
    /\ End(p)
    /\ UNCHANGED <<mngrVars, qemu, left, crossed>>

\* The finally block: destroy-vm without a look at its answer.
Cleanup(p) ==
    /\ At(p, "cleanup")
    /\ \E ret \in {0, -1} : vm_mngr_instance_destroy(Vm(p), ret)
    /\ End(p)
    /\ UNCHANGED <<qemu, left, crossed>>

(* destroy-vm *)

BeginDestroy(p, vm) ==
    /\ At(p, "idle")
    /\ cli' = [cli EXCEPT ![p].pc = "kill", ![p].vm = vm]
    /\ Crosses(Creating, vm)
    /\ UNCHANGED <<mngrVars, qemu, left>>

\* The name of w's QEMU begins with that of vm's: the digits of w do.
NameMatches(vm, w) ==
    vm = w \/ \E k \in 1 .. 2 : vm > 0 /\ w \div 10^k = vm

\* find_qemu_pids_by_vmid() and kill: pgrep -f looks for a part of the command
\* line.  Whoever does not obey SIGTERM gets SIGKILL.
Kill(p) ==
    /\ At(p, "kill")
    /\ qemu' = [w \in VmId |->
                   IF NameMatches(Vm(p), w) /\ Runs(w)
                   THEN Ended ELSE qemu[w]]
    /\ Goto(p, "destroy")
    /\ UNCHANGED <<mngrVars, left, crossed>>

DestroyVm(p) ==
    /\ At(p, "destroy")
    /\ \E ret \in {0, -1} : vm_mngr_instance_destroy(Vm(p), ret)
    /\ End(p)
    /\ UNCHANGED <<qemu, left, crossed>>

(* attach-mem *)

\* A VM that is not listed has no memory nodes: that is an error.
BeginAttach(p, vm) ==
    /\ At(p, "idle")
    /\ \E r \in AttachRequest, k \in ListLength :
          LET existing == get_vm_mem_nodes(vm, ListedSlots(k))
          IN  /\ ValidAttach(r)
              /\ existing # {}
              /\ \E plan \in attach_plan(r, existing) :
                    /\ plan # <<>>
                    /\ cli' = [cli EXCEPT ![p].pc = "alloc", ![p].vm = vm,
                                          ![p].plan = plan]
    /\ UNCHANGED <<mngrVars, qemu, left, crossed>>

\* To the handler of the exception, which frees what was allocated.
Raise(p) == IF cli[p].memids = <<>> THEN End(p) ELSE Goto(p, "rollback")

Alloc(p) ==
    /\ At(p, "alloc")
    /\ \/ /\ AllocMem(p, 0)
          /\ cli' = [cli EXCEPT ![p].memids = Append(@, NewMemid(Vm(p))),
                                ![p].pc = "attach"]
       \/ AllocMem(p, -1) /\ Raise(p)
    /\ UNCHANGED <<qemu, left, crossed>>

Memid(p) == cli[p].memids[Len(cli[p].memids)]

\* The answer says nothing when it is a failure: the DIMM may be plugged.
AttachMem(p) ==
    LET plugged == [qemu EXCEPT ![Vm(p)].dimms = @ \cup {Memid(p)}]
        more == Len(cli[p].memids) < Len(cli[p].plan)
    IN  /\ At(p, "attach")
        /\ \/ /\ Runs(Vm(p)) /\ Memid(p) \in Held(Vm(p))
              /\ qemu' = plugged
              /\ IF more THEN Goto(p, "alloc") ELSE End(p)
           \/ /\ \/ UNCHANGED qemu
                 \/ Runs(Vm(p)) /\ Memid(p) \in Held(Vm(p)) /\ qemu' = plugged
              /\ Goto(p, "rollback")
        /\ UNCHANGED <<mngrVars, left, crossed>>

\* Frees the first memory device that is left, plugged or not.
Rollback(p) ==
    LET m == Head(cli[p].memids)
    IN  /\ At(p, "rollback")
        /\ \E ret \in {0, -1} : vm_mngr_instance_free_mem(Vm(p), m, ret)
        /\ qemu' = [qemu EXCEPT ![Vm(p)].given_up = @ \cup ({m} \cap qemu[Vm(p)].dimms)]
        /\ IF Len(cli[p].memids) = 1 THEN End(p)
           ELSE cli' = [cli EXCEPT ![p].memids = Tail(@)]
        /\ UNCHANGED <<left, crossed>>

(* detach-mem *)

BeginDetach(p, vm, m) ==
    /\ At(p, "idle")
    /\ cli' = [cli EXCEPT ![p].pc = "detach", ![p].vm = vm, ![p].memids = <<m>>]
    /\ UNCHANGED <<mngrVars, qemu, left, crossed>>

\* Faulty form: frees the memory whatever the answer to detach-mem is.
DetachMemUnchecked(p) ==
    /\ At(p, "detach")
    /\ \/ qemu' = [qemu EXCEPT ![Vm(p)].dimms = @ \ {Memid(p)}]
       \/ UNCHANGED qemu
    /\ Goto(p, "free")
    /\ UNCHANGED <<mngrVars, left, crossed>>

DetachMem(p) ==
    LET there == Runs(Vm(p)) /\ Memid(p) \in Held(Vm(p)) \cap qemu[Vm(p)].dimms
        unplugged == [qemu EXCEPT ![Vm(p)].dimms = @ \ {Memid(p)}]
    IN  /\ At(p, "detach")
        /\ \/ there /\ qemu' = unplugged /\ Goto(p, "free") /\ UNCHANGED left
           \/ UNCHANGED <<qemu, left>> /\ End(p)
           \/ there /\ qemu' = unplugged /\ End(p) /\ left' = left \cup {Vm(p)}
        /\ UNCHANGED <<mngrVars, crossed>>

FreeMem(p) ==
    /\ At(p, "free")
    /\ \E ret \in {0, -1} : vm_mngr_instance_free_mem(Vm(p), Memid(p), ret)
    /\ End(p)
    /\ UNCHANGED <<qemu, left, crossed>>

-----------------------------------------------------------------------------
(* What can happen besides *)

\* The CLI is killed, or interrupted where it catches nothing.
Killed(p) ==
    /\ cli[p].pc # "idle"
    /\ End(p)
    /\ left' = IF cli[p].pc \in {"select", "create", "kill", "destroy", "detach"}
               THEN left ELSE left \cup {Vm(p)}
    /\ UNCHANGED <<mngrVars, qemu, crossed>>

\* The guest shuts down, or QEMU crashes.
QemuEnds(vm) ==
    /\ Runs(vm)
    /\ qemu' = [qemu EXCEPT ![vm] = Ended]
    /\ UNCHANGED <<mngrVars, cli, left, crossed>>

Begin(p) ==
    \/ BeginCreate(p)
    \/ \E vm \in VmId :
          \/ BeginDestroy(p, vm) \/ BeginAttach(p, vm)
          \/ \E m \in 0 .. (MaxMemdev - 1) : BeginDetach(p, vm, m)

Continue(p) ==
    \/ SelectVmid(p) \/ CreateVm(p) \/ Port(p) \/ AllocBoot(p) \/ Launch(p) \/ Poll(p)
    \/ Interrupt(p) \/ Cleanup(p)
    \/ Kill(p) \/ DestroyVm(p)
    \/ Alloc(p) \/ AttachMem(p) \/ Rollback(p)
    \/ DetachMem(p) \/ FreeMem(p)

CliNext ==
    \/ \E p \in Cli : Begin(p) \/ Continue(p) \/ Killed(p)
    \/ \E vm \in VmId : QemuEnds(vm)

CliSpec == CliInit /\ [][CliNext]_allVars

-----------------------------------------------------------------------------
(* Properties *)

CliTypeOK ==
    /\ VmTypeOK
    /\ cli \in [Cli ->
          [pc : {"idle", "select", "create", "port", "alloc_boot", "launch", "poll",
                 "cleanup", "kill", "destroy", "alloc", "attach", "rollback",
                 "detach", "free"},
           vm : Nat \cup {-1}, plan : Seq(Node \X (Nat \ {0})),
           memids : Seq(0 .. (MaxMemdev - 1))]]
    /\ qemu \in [VmId ->
          [pc : {"none", "running", "ended"}, ram : SUBSET (0 .. (MaxMemdev - 1)),
           dimms : SUBSET (0 .. (MaxMemdev - 1)),
           given_up : SUBSET (0 .. (MaxMemdev - 1))]]
    /\ left \subseteq VmId
    /\ crossed \subseteq VmId

\* Memory in a QEMU that runs is held by its VM in the manager, and can be
\* given to nobody else: no order of the commands of several operators, for the
\* same VM too, with failures, kills and interrupts, gives it back too early.
\* There are three exceptions.  The rollback of attach-mem frees DIMMs that are
\* plugged (given_up).  And "crossed": a destroy-vm given while create-vm is
\* under way for the VM, or a command given for an earlier VM of this id, takes
\* the memory from under the new QEMU; and so does the finally block of a
\* create-vm that is interrupted between Popen() and poll().
QemuMemoryIsHeld ==
    \A vm \in VmId \ crossed :
        Runs(vm) =>
            (qemu[vm].ram \cup qemu[vm].dimms) \ qemu[vm].given_up \subseteq Held(vm)

\* When no command is under way, nothing is left over: a VM of the manager has
\* had its QEMU, and memory a VM with a QEMU holds is in this QEMU, unless a
\* command was killed, no port was free or a detach-mem failed half way (left),
\* or its create-vm was crossed or interrupted, as above.
NothingLeaked ==
    (\A p \in Cli : At(p, "idle")) =>
        \A vm \in VmId \ (left \cup crossed) :
            Instances(vm) # {} =>
                /\ qemu[vm].pc # "none"
                /\ Runs(vm) => Held(vm) \subseteq qemu[vm].ram \cup qemu[vm].dimms

\* Two create-vm commands may choose the same id, from the same list or from a
\* cut one.  The manager lets one of them have it, and the other does not
\* touch the VM any more.  (If a destroy-vm crosses the one that has it, the id
\* is free again while it is still at work, and the next one gets it too.)
OneCreatorPerVm ==
    \A p, q \in Cli :
        p # q /\ cli[p].pc \in Creating /\ cli[q].pc \in Creating /\ Vm(p) \notin crossed =>
            Vm(p) # Vm(q)

\* The greedy choice of channels misses nothing: whatever is free on the nodes,
\* create-vm and attach-mem with new channels find a plan if there is one, and
\* what they find puts every channel on a node of its own with room for it.
\* (This depends on no variable, and is evaluated in the first state only.)
PlanFoundIfAny ==
    CliInit => \A free \in [PlanNode -> PlanMb], r \in {q \in CreateRequest : ValidCreate(q)},
                  existing \in SUBSET PlanNode :
        LET sizes == split_memory(r.memory, r.channels)
            fresh == PlanNode \ existing
            create == choose_allocations_for_tier(fresh, free, sizes)
            attach == choose_allocations_for_tier_attach(PlanNode, free, r.memory,
                                                         r.channels, existing)
        IN  \A found \in {create, attach} :
                /\ found # {} <=> Placeable(fresh, free, sizes)
                /\ \A plan \in found : IsPlanFor(plan, fresh, free, sizes)
=============================================================================
