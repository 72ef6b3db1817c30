---------------------------- MODULE QemuHotplug ----------------------------
(***************************************************************************)
(* attach-mem and detach-mem: the RPC handlers of resource_manager.c, the  *)
(* QMP client of qemu_agent.c, and the QEMU process and guest they talk    *)
(* to, for one VM.                                                         *)
(*                                                                         *)
(* Every QMP command has a session of its own: connect and negotiate, send *)
(* the command, read one message, close.  QEMU executes the command on its *)
(* side of the socket, the guest gives a DIMM up in its own time, and QEMU *)
(* reports what the guest does in events on the same socket.  QEMU may end *)
(* at any time.  QEMU and the guest are external: they are modelled by     *)
(* what the four commands need of them.                                    *)
(***************************************************************************)
EXTENDS Naturals, Sequences

CONSTANTS MemId,     \* memory devices of the VM, as alloc-mem numbered them
          BootMem,   \* the ones QEMU was started with: RAM, not DIMMs
          Offset,    \* Offset[m]: where m's segments begin on its DAX device
          MaxEvents  \* bound: unread messages in a session

ASSUME BootMemAssumption == BootMem \subseteq MemId
ASSUME OffsetAssumption == Offset \in [MemId -> Nat]
ASSUME MaxEventsAssumption == MaxEvents \in Nat \ {0}

VARIABLES memory,  \* the memory devices on the VM's list (attached_devs)
          op,      \* the request being handled, or handled last
          mem,     \* its memory device
          step,    \* the QMP command the handler is at, "idle" between requests
          answer,  \* what the last request was answered
          failed,  \* whether a request was ever answered with a failure
          session, \* the QMP session of the current command
          inbox,   \* messages of the session that were not read
          result,  \* what the command did in QEMU, once executed
          qemu,    \* whether QEMU runs
          objects, \* memory backends in QEMU
          mapped,  \* mapped[m]: where the backend of m begins on the device
          dimms,   \* dimms[m]: the DIMM device plugged on backend m
          died     \* whether SIGPIPE has ended the resource manager

handlerVars == <<op, mem, step, answer, failed>>
sessionVars == <<session, inbox, result>>
qemuVars == <<qemu, objects, mapped, dimms>>
vars == <<memory, handlerVars, sessionVars, qemuVars, died>>

Step == {"idle", "object-add", "device_add", "device_del", "sleep", "object-del"}

Commands == Step \ {"idle", "sleep"}

Init ==
    /\ memory = MemId
    /\ op = "none" /\ mem \in MemId /\ step = "idle"
    /\ answer = "none" /\ failed = FALSE
    /\ session = "closed" /\ inbox = <<>> /\ result = "none"
    /\ qemu = TRUE
    /\ objects = BootMem
    /\ mapped = Offset  \* the -object arguments of a boot carry the offset
    /\ dimms = [m \in MemId |-> "absent"]
    /\ died = FALSE

InUse(m) == m \in BootMem \/ dimms[m] # "absent"

-----------------------------------------------------------------------------
(* The handlers: what they do between two QMP commands *)

\* The answer to the request: "Hotplug memory success" or the like.
Finish(outcome) ==
    /\ step' = "idle"
    /\ answer' = outcome
    /\ failed' = (failed \/ outcome = "failure")

GoTo(next) == step' = next /\ UNCHANGED <<answer, failed>>

(* Faulty forms of definitions in this module; no part of Spec. *)

\* Takes whatever is not an error for a success.
is_response_success_lax(message) == message # "error"

\* Answers when the device is being deleted, and keeps the object.
AfterCommandKeepingObject(ok) ==
    \/ ~ok /\ Finish("failure")
    \/ ok /\ step = "object-add" /\ GoTo("device_add")
    \/ ok /\ step # "object-add" /\ Finish("success")

\* Tries again and again to connect.
HandshakeFailsRetrying ==
    /\ ~died
    /\ step \in Commands
    /\ session = "closed"
    /\ UNCHANGED vars

\* The name the comment at qemu_agent.c:221 gives the command.
WakeUpMisnamed ==
    /\ ~died
    /\ step = "sleep"
    /\ GoTo("object_del")
    /\ UNCHANGED <<memory, op, mem, sessionVars, qemuVars, died>>

\* qemu_agent_hotplug_memory() and qemu_agent_hotunplug_memory(), after a
\* command that succeeded (ok) or not.
AfterCommand(ok) ==
    \/ ~ok /\ Finish("failure")
    \/ ok /\ step = "object-add" /\ GoTo("device_add")
    \/ ok /\ step = "device_del" /\ GoTo("sleep")
    \/ ok /\ step \in {"device_add", "object-del"} /\ Finish("success")

-----------------------------------------------------------------------------
(* Requests *)

\* vm_mngr_instance_get_mem() finds m on the VM's list, or the request ends.
Request(request, m, first) ==
    /\ ~died
    /\ step = "idle"
    /\ op' = request
    /\ mem' = m
    /\ IF m \in memory THEN GoTo(first) ELSE Finish("failure")
    /\ UNCHANGED <<memory, sessionVars, qemuVars, died>>

rpc_handle_attach_mem(m) == Request("attach", m, "object-add")
rpc_handle_detach_mem(m) == Request("detach", m, "device_del")

\* The RPC handler does not ask whether QEMU still has the memory.
rpc_handle_free_mem(m) ==
    /\ ~died
    /\ step = "idle"
    /\ memory' = memory \ {m}
    /\ UNCHANGED <<handlerVars, sessionVars, qemuVars, died>>

\* usleep(3 * US_PER_SECOND): the guest has answered by then, or has not.
WakeUp ==
    /\ ~died
    /\ step = "sleep"
    /\ GoTo("object-del")
    /\ UNCHANGED <<memory, op, mem, sessionVars, qemuVars, died>>

-----------------------------------------------------------------------------
(* send_qemu_cmd() *)

\* connect_to_socket() and init_qemu_qmp_session()
Handshake ==
    /\ ~died
    /\ step \in Commands
    /\ session = "closed"
    /\ qemu
    /\ session' = "ready"
    /\ inbox' = <<>>
    /\ result' = "none"
    /\ UNCHANGED <<memory, handlerVars, qemuVars, died>>

\* A QEMU that ends after its greeting lets send() raise SIGPIPE.
HandshakeFails ==
    /\ ~died
    /\ step \in Commands
    /\ session = "closed"
    /\ \/ AfterCommand(FALSE) /\ UNCHANGED died
       \/ ~qemu /\ died' = TRUE /\ UNCHANGED <<step, answer, failed>>
    /\ UNCHANGED <<memory, op, mem, sessionVars, qemuVars>>

\* send() to a QEMU that has ended raises SIGPIPE, which nothing catches.
Send ==
    /\ ~died
    /\ session = "ready"
    /\ session' = "sent"
    /\ died' = ~qemu
    /\ UNCHANGED <<memory, handlerVars, inbox, result, qemuVars>>

is_response_success(message) == message = "return"

\* One recv(): it takes the first message, whatever that is.
Recv ==
    /\ ~died
    /\ session = "sent"
    /\ \/ inbox # <<>> /\ AfterCommand(is_response_success(Head(inbox)))
       \/ inbox = <<>> /\ ~qemu /\ AfterCommand(FALSE)
    /\ session' = "closed"
    /\ inbox' = <<>>
    /\ UNCHANGED <<memory, op, mem, result, qemuVars, died>>

-----------------------------------------------------------------------------
(* QEMU *)

Reply(message) ==
    /\ inbox' = Append(inbox, message)
    /\ result' = message
    /\ UNCHANGED <<memory, handlerVars, session, qemu, died>>

\* The request names a device and a size, no offset: QEMU maps it from 0.
ObjectAdd ==
    /\ step = "object-add"
    /\ mem \notin objects
    /\ objects' = objects \cup {mem}
    /\ mapped' = [mapped EXCEPT ![mem] = 0]
    /\ UNCHANGED dimms

DeviceAdd ==
    /\ step = "device_add"
    /\ mem \in objects
    /\ ~InUse(mem)
    /\ dimms' = [dimms EXCEPT ![mem] = "plugged"]
    /\ UNCHANGED <<objects, mapped>>

\* device_del only asks the guest, and may be asked again.
DeviceDel ==
    /\ step = "device_del"
    /\ dimms[mem] # "absent"
    /\ dimms' = [dimms EXCEPT ![mem] = "unplugging"]
    /\ UNCHANGED <<objects, mapped>>

ObjectDel ==
    /\ step = "object-del"
    /\ mem \in objects
    /\ ~InUse(mem)
    /\ objects' = objects \ {mem}
    /\ UNCHANGED <<mapped, dimms>>

\* Any command may also be refused.
Execute ==
    /\ qemu
    /\ session = "sent"
    /\ result = "none"
    /\ ~died
    /\ \/ (ObjectAdd \/ DeviceAdd \/ DeviceDel \/ ObjectDel) /\ Reply("return")
       \/ UNCHANGED <<objects, mapped, dimms>> /\ Reply("error")

\* The guest releases a DIMM, or refuses to.
GuestAnswers(m) ==
    /\ qemu
    /\ dimms[m] = "unplugging"
    /\ \E new \in {"absent", "plugged"} : dimms' = [dimms EXCEPT ![m] = new]
    /\ IF session = "closed" \/ Len(inbox) >= MaxEvents
       THEN UNCHANGED inbox
       ELSE inbox' = Append(inbox, "event")
    /\ UNCHANGED <<memory, handlerVars, session, result, qemu, objects, mapped, died>>

\* What was written before QEMU ended can still be read.
QemuExits ==
    /\ qemu
    /\ qemu' = FALSE
    /\ objects' = {}
    /\ dimms' = [m \in MemId |-> "absent"]
    /\ UNCHANGED <<memory, handlerVars, sessionVars, mapped, died>>

-----------------------------------------------------------------------------
Handler == WakeUp \/ Handshake \/ HandshakeFails \/ Send \/ Recv

Next ==
    \/ \E m \in MemId : \/ rpc_handle_attach_mem(m)
                        \/ rpc_handle_detach_mem(m)
                        \/ rpc_handle_free_mem(m)
                        \/ GuestAnswers(m)
    \/ Handler
    \/ Execute
    \/ QemuExits

Spec == Init /\ [][Next]_vars

\* The RPC thread goes on, and a QEMU that runs executes what it is sent: the
\* handler waits for its answer without a timeout.  Of the guest nothing is
\* assumed.
FairSpec == Spec /\ WF_vars(Handler) /\ WF_vars(Execute)

-----------------------------------------------------------------------------
(* Properties *)

TypeOK ==
    /\ memory \subseteq MemId
    /\ op \in {"none", "attach", "detach"} /\ mem \in MemId /\ step \in Step
    /\ answer \in {"none", "success", "failure"} /\ failed \in BOOLEAN
    /\ session \in {"closed", "ready", "sent"}
    /\ inbox \in Seq({"return", "error", "event"})
    /\ Len(inbox) <= MaxEvents + 1
    /\ result \in {"none", "return", "error"}
    /\ qemu \in BOOLEAN /\ died \in BOOLEAN
    /\ objects \subseteq MemId
    /\ mapped \in [MemId -> Nat]
    /\ dimms \in [MemId -> {"absent", "plugged", "unplugging"}]

\* The handler answers a request while QEMU runs.
Answers(request) == op = request /\ step # "idle" /\ step' = "idle" /\ qemu

\* A client told "Hotplug memory success" has the memory plugged in, whatever
\* events came between the commands.
AttachSuccessMeansPlugged ==
    [][Answers("attach") /\ answer' = "success"
         => mem \in objects' /\ dimms'[mem] = "plugged"]_vars

\* A client told "Hotunplug memory success" may free the memory: neither the
\* DIMM nor its backend is left, though device_del was answered before the
\* guest let go and only the sleep separates the two commands.
DetachSuccessMeansGone ==
    [][Answers("detach") /\ answer' = "success"
         => mem \notin objects' /\ dimms'[mem] = "absent"]_vars

\* As long as every request succeeded, each backend in QEMU carries memory
\* of the VM: hotplug and hot-unplug undo each other.
NoLeftovers ==
    step = "idle" /\ ~failed => \A m \in objects : InUse(m)

\* Every request is answered, whatever the guest does, if QEMU answers or
\* ends; unless SIGPIPE ends the manager.
RequestsAnswered == step # "idle" ~> (step = "idle" \/ died)

\* vm_mngr_instance_get_mem() looks up the segments of the memory device, and
\* these are what the VM gets.
AttachedMemoryIsItsOwn == \A m \in objects : mapped[m] = Offset[m]

\* The response that is read tells what the command did.
ResponseTellsSuccess ==
    session = "sent" /\ inbox # <<>> /\ result = "return"
        => is_response_success(Head(inbox))
=============================================================================
