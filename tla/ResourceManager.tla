--------------------------- MODULE ResourceManager ---------------------------
(***************************************************************************)
(* The RPC handlers of resource_manager.c that change the manager's state. *)
(*                                                                         *)
(* The RPC server is one thread that finishes a request before it reads    *)
(* the next, so a handler is one action; a request it rejects as invalid   *)
(* leaves the state as it was.  The states are those between two requests: *)
(* SIGINT, which can interrupt a handler at any step, and the monitor      *)
(* thread are GuestMonitor's subject.  attach-mem and detach-mem talk to   *)
(* QEMU and change nothing in the manager, like the queries.               *)
(***************************************************************************)
EXTENDS VmManager

vars == mngrVars

\* What clients send: also ids below zero and nodes that do not exist.
VidArg == VmId \cup {-1}
NidArg == Node \cup {-1, NumDevs}
MemidArg == -1 .. MaxMemdev
\* "malformed": not a bracketed list.
CoreArg == CoreSet \cup {"malformed"}

Init == VmInit

Alive == abort = "none"

InvalidArgs == UNCHANGED mngrVars

-----------------------------------------------------------------------------
rpc_handle_create_vm(vid, core_set) ==
    IF vid < 0 \/ core_set = "malformed" THEN InvalidArgs
    ELSE \E ret \in {0, -1} : vm_mngr_instance_create(vid, core_set, ret)

rpc_handle_start_vm(vid) ==
    IF vid < 0 THEN InvalidArgs
    ELSE \E perf_ok, connected \in BOOLEAN, ret \in {0, -1} :
            vm_mngr_instance_start(vid, perf_ok, connected, ret)

rpc_handle_stop_vm(vid) ==
    IF vid < 0 THEN InvalidArgs
    ELSE \E perf_ok \in BOOLEAN, ret \in {0, -1} :
            vm_mngr_instance_stop(vid, perf_ok, ret)

rpc_handle_destroy_vm(vid) ==
    IF vid < 0 THEN InvalidArgs
    ELSE \E ret \in {0, -1} : vm_mngr_instance_destroy(vid, ret)

rpc_handle_alloc_mem(nid, vid, size_mb) ==
    IF nid < 0 \/ vid < 0 \/ size_mb <= 0 THEN InvalidArgs
    ELSE \E malloc_ok \in BOOLEAN, ret \in {0, -1} :
            vm_mngr_instance_alloc_mem(nid, vid, size_mb, malloc_ok, ret)

rpc_handle_free_mem(vid, memid) ==
    IF vid < 0 \/ memid < 0 THEN InvalidArgs
    ELSE \E ret \in {0, -1} : vm_mngr_instance_free_mem(vid, memid, ret)

-----------------------------------------------------------------------------
Request ==
    /\ Alive
    /\ \/ \E vid \in VidArg, core_set \in CoreArg :
             rpc_handle_create_vm(vid, core_set)
       \/ \E vid \in VidArg : rpc_handle_start_vm(vid)
       \/ \E vid \in VidArg : rpc_handle_stop_vm(vid)
       \/ \E vid \in VidArg : rpc_handle_destroy_vm(vid)
       \/ \E nid \in NidArg, vid \in VidArg, size_mb \in MbArg :
             rpc_handle_alloc_mem(nid, vid, size_mb)
       \/ \E vid \in VidArg, memid \in MemidArg :
             rpc_handle_free_mem(vid, memid)

Spec == Init /\ [][Request]_vars

-----------------------------------------------------------------------------
TypeOK == VmTypeOK

-----------------------------------------------------------------------------
(* The refinement: the attached devices of the live VMs are the leases. *)

LeaseOf(vm, d) ==
    [vm |-> vm, id |-> d.memdev_idx, node |-> d.node_id,
     first |-> NumSegments(d.offset_mb),
     last |-> NumSegments(d.offset_mb) + NumSegments(d.size_mb) - 1]

Leases == UNION {{LeaseOf(VMs[s].vm_id, d) : d \in VMs[s].attached_devs} :
                     s \in Live}

FreeSegments == UNION {{n} \X (Index(n) \ Allocated(n)) : n \in Node}

Issued ==
    [vm \in VmId |->
        UNION {0 .. (VMs[s].memdev_counter - 1) : s \in Instances(vm)}]

Lease == INSTANCE SegmentLease
         WITH Vm <- VmId, Device <- Node, LeaseId <- 0 .. (MaxMemdev - 1),
              free <- FreeSegments, leases <- Leases, issued <- Issued

\* The RPC handlers implement leases: memory is granted from free segments
\* only, under an id the VM never had, and comes back whole or not at all:
\* no free-mem releases part of a device, no destroy-vm leaves some behind.
LeaseSpec == Lease!Spec
=============================================================================
