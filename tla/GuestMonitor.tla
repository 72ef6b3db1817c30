---------------------------- MODULE GuestMonitor ----------------------------
(***************************************************************************)
(* The monitor thread of guest_monitor.c next to the RPC thread, which     *)
(* starts, stops and destroys VMs under it without a lock.                 *)
(*                                                                         *)
(* An iteration of the monitor walks the VM table three times: it asks the *)
(* guest agents for their memory use, adds up bandwidth over the VM's      *)
(* cores, and reads the VM's perf events.  Each walk tests a slot's flags  *)
(* and then works on what they promise: another thread may have moved on   *)
(* in between.  vm_mngr_instance_stop() means to prevent that: it clears   *)
(* running and sleeps a millisecond before it closes anything, but it      *)
(* waits for nobody.                                                       *)
(*                                                                         *)
(* get-mem-info, on the RPC thread, asks the same agents over the same     *)
(* sockets.  A socket is a stream: recv() takes whatever answers are       *)
(* there, so that one thread can take both and leave the other waiting.    *)
(* A question that was sent is pending until some recv() returns its       *)
(* answer; the agent's delay is the time before that recv() is taken.  An  *)
(* answer fits into one buffer.                                            *)
(*                                                                         *)
(* SIGINT interrupts the RPC thread wherever it is; what it was doing is   *)
(* not taken up again.                                                     *)
(*                                                                         *)
(* VM ids are slots here.  A walk is skipped while g_vm_mngr.count is 0;   *)
(* that makes a difference to the shutdown only (see NoneCounted).  The    *)
(* walks that touch nothing the RPC thread takes away (metrics, latency,   *)
(* uploads) are left out.                                                  *)
(***************************************************************************)
EXTENDS Integers

CONSTANTS MAX_NUM_VM  \* slots of the VM table

ASSUME MaxNumVmAssumption == MAX_NUM_VM \in Nat \ {0}

VARIABLES VMs,         \* g_vm_mngr.VMs and the agent of each
          rpc,         \* RPC thread: where it is, the slot it works on, and
                       \* where it was when SIGINT interrupted it
          monitor,     \* monitor thread: where it is, which walk and slot
          running,     \* the monitor's own flag
          unfinished,  \* the iteration in which a VM was stopped is not over
          fault        \* what the monitor used after it was gone, or SIGPIPE

vars == <<VMs, rpc, monitor, running, unfinished, fault>>

Slot == 0 .. (MAX_NUM_VM - 1)

Init ==
    /\ VMs = [s \in Slot |-> [initialized |-> FALSE, running |-> FALSE,
                              core_set |-> FALSE, perf_open |-> FALSE,
                              agent |-> "closed", pending |-> 0]]
    /\ rpc = [pc |-> "idle", slot |-> 0, cut |-> "none"]
    /\ monitor = [pc |-> "sleep", walk |-> "mem_cp", slot |-> 0]
    /\ running = TRUE
    /\ unfinished = FALSE
    /\ fault = "none"

-----------------------------------------------------------------------------
(* The RPC thread *)

\* The RPC thread goes from one place to another, with slot s.
RpcStep(from, to, s) ==
    /\ fault = "none"
    /\ rpc.pc = from
    /\ rpc' = [pc |-> to, slot |-> s, cut |-> rpc.cut]
    /\ UNCHANGED <<monitor, fault>>

Quiet == UNCHANGED <<running, unfinished>>

\* vm_mngr_instance_create(): the slot is taken before it is counted.
Create(s) ==
    /\ RpcStep("idle", "create_count", s)
    /\ ~VMs[s].initialized
    /\ VMs' = [VMs EXCEPT ![s].initialized = TRUE, ![s].core_set = TRUE]
    /\ Quiet

CreateCount(s) ==
    /\ RpcStep("create_count", "idle", s)
    /\ UNCHANGED VMs
    /\ Quiet

\* Faulty form: the flag is set before the agent is reached.
StartPerfAndFlag(s) ==
    /\ RpcStep("idle", "start_agent", s)
    /\ VMs[s].initialized /\ ~VMs[s].running
    /\ VMs' = [VMs EXCEPT ![s].perf_open = TRUE, ![s].running = TRUE]
    /\ Quiet

\* vm_mngr_instance_start(): perf events, agent, and the flag last.
StartPerf(s) ==
    /\ RpcStep("idle", "start_agent", s)
    /\ VMs[s].initialized /\ ~VMs[s].running
    /\ VMs' = [VMs EXCEPT ![s].perf_open = TRUE]
    /\ Quiet

StartAgent(s) ==
    \/ /\ RpcStep("start_agent", "start_flag", s)
       /\ VMs' = [VMs EXCEPT ![s].agent = "connected", ![s].pending = 0]
       /\ Quiet
    \/ /\ RpcStep("start_agent", "idle", s)  \* the agent cannot be reached
       /\ VMs' = [VMs EXCEPT ![s].perf_open = FALSE]
       /\ Quiet

StartFlag(s) ==
    /\ RpcStep("start_flag", "idle", s)
    /\ VMs' = [VMs EXCEPT ![s].running = TRUE]
    /\ Quiet

\* vm_mngr_instance_stop(): VM->running = false, then usleep(US_PER_MS).
StopFlag(s) ==
    /\ RpcStep("idle", "stop_sleep", s)
    /\ VMs[s].running
    /\ VMs' = [VMs EXCEPT ![s].running = FALSE]
    /\ unfinished' = (monitor.pc # "sleep")
    /\ UNCHANGED running

StopWake(s) ==
    /\ RpcStep("stop_sleep", "stop_agent", s)
    /\ UNCHANGED VMs
    /\ Quiet

\* guest_agent_cleanup().  close() does not wake a thread that is inside
\* recv() on that socket.
StopAgent(s) ==
    /\ fault = "none"
    /\ rpc.pc = "stop_agent"
    /\ rpc' = [pc |-> "stop_perf", slot |-> s, cut |-> rpc.cut]
    /\ VMs' = [VMs EXCEPT ![s].agent = "closed", ![s].pending = 0]
    /\ monitor' = IF monitor.pc = "wait" /\ monitor.slot = s
                  THEN [monitor EXCEPT !.pc = "stuck"]
                  ELSE monitor
    /\ UNCHANGED fault
    /\ Quiet

StopPerf(s) ==
    /\ RpcStep("stop_perf", "idle", s)
    /\ VMs' = [VMs EXCEPT ![s].perf_open = FALSE]
    /\ Quiet

\* vm_mngr_instance_destroy(): the core set is wiped before the slot is freed.
DestroyWipe(s) ==
    /\ RpcStep("idle", "destroy_free", s)
    /\ VMs[s].initialized /\ ~VMs[s].running
    /\ VMs' = [VMs EXCEPT ![s].core_set = FALSE]
    /\ Quiet

DestroyFree(s) ==
    /\ RpcStep("destroy_free", "idle", s)
    /\ VMs' = [VMs EXCEPT ![s].initialized = FALSE]
    /\ Quiet

\* send() to an agent whose QEMU is gone raises SIGPIPE.
BrokenPipe == fault' = "sigpipe" /\ UNCHANGED <<VMs, rpc, monitor>> /\ Quiet

\* rpc_handle_get_mem_info(): the question is sent, recv() comes next.  An
\* agent that is not connected is answered for without asking.
GetMemInfo(s) ==
    /\ fault = "none"
    /\ rpc.pc = "idle"
    /\ \/ /\ VMs[s].agent = "connected"
          /\ rpc' = [pc |-> "recv_mem", slot |-> s, cut |-> rpc.cut]
          /\ VMs' = [VMs EXCEPT ![s].pending = @ + 1]
          /\ UNCHANGED <<monitor, fault>>
          /\ Quiet
       \/ VMs[s].agent = "hung_up" /\ BrokenPipe

\* What recv() on the agent socket of s takes: some of the answers there, or
\* the end of the stream.
Answer(s) ==
    \/ VMs[s].agent = "hung_up" /\ UNCHANGED VMs
    \/ /\ VMs[s].agent = "connected"
       /\ \E k \in 1 .. VMs[s].pending :
             VMs' = [VMs EXCEPT ![s].pending = @ - k]

RecvMemInfo ==
    /\ RpcStep("recv_mem", "idle", rpc.slot)
    /\ Answer(rpc.slot)
    /\ Quiet

-----------------------------------------------------------------------------
(* Shutdown: SIGINT interrupts the RPC thread wherever it is. *)

ShutdownPc == {"join", "stop_all", "exited"}

\* handle_signal() clears the monitor's flag and waits for the thread.
Signal ==
    /\ fault = "none"
    /\ rpc.pc \notin ShutdownPc
    /\ rpc' = [rpc EXCEPT !.pc = "join", !.cut = rpc.pc]
    /\ running' = FALSE
    /\ UNCHANGED <<VMs, monitor, unfinished, fault>>

Join ==
    /\ RpcStep("join", "stop_all", rpc.slot)
    /\ monitor.pc = "exited"
    /\ UNCHANGED VMs
    /\ Quiet

\* SIGINT is blocked in the RPC thread while it handles one: a second SIGINT
\* goes to the monitor, whose pthread_join() of itself fails at once.
SecondSignal ==
    /\ fault = "none"
    /\ rpc.pc = "join"
    /\ monitor.pc \notin {"exited", "handler"}
    /\ monitor' = [monitor EXCEPT !.pc = "handler"]
    /\ UNCHANGED <<VMs, rpc, running, unfinished, fault>>

\* g_vm_mngr.count is 0: no VM is in the table, or only one whose create was
\* interrupted before it was counted.
NoneCounted ==
    \A s \in Slot : VMs[s].initialized => s = rpc.slot /\ rpc.cut = "create_count"

\* Faulty form: does not stop the running VMs, which then are not destroyed.
StopAndDestroyStopped(vm) ==
    IF vm.running THEN vm ELSE [vm EXCEPT !.initialized = FALSE, !.core_set = FALSE]

\* vm_mngr_for_each_vm_running(__vm_stop) and vm_mngr_for_each_vm(__vm_destroy)
StopAndDestroy(vm) ==
    IF vm.running
    THEN [vm EXCEPT !.initialized = FALSE, !.running = FALSE, !.core_set = FALSE,
                    !.perf_open = FALSE, !.agent = "closed", !.pending = 0]
    ELSE [vm EXCEPT !.initialized = FALSE, !.core_set = FALSE]

\* The monitor is gone, or at this place itself: stopping the running VMs,
\* destroying all and exit() are of one piece.
StopAll ==
    /\ \/ rpc.pc = "stop_all" /\ RpcStep("stop_all", "exited", rpc.slot)
       \/ monitor.pc = "handler" /\ RpcStep("join", "exited", rpc.slot)
    /\ VMs' = IF NoneCounted THEN VMs ELSE [s \in Slot |-> StopAndDestroy(VMs[s])]
    /\ Quiet

-----------------------------------------------------------------------------
(* The monitor thread *)

Walk == {"mem_cp", "mem_bw", "perf"}

NextWalk(w) == CASE w = "mem_cp" -> "mem_bw"
                 [] w = "mem_bw" -> "perf"
                 [] OTHER -> "mem_cp"

\* Faulty form: the next walk starts behind the end of the table.
AdvanceNoReset ==
    LET last == monitor.slot = MAX_NUM_VM - 1
    IN  /\ monitor' =
             [pc   |-> IF last /\ monitor.walk = "perf" THEN "sleep" ELSE "check",
              walk |-> IF last THEN NextWalk(monitor.walk) ELSE monitor.walk,
              slot |-> monitor.slot + 1]
        /\ unfinished' = (unfinished /\ monitor'.pc # "sleep")

\* To the next slot, the next walk, or the sleep that ends the iteration.
Advance ==
    LET last == monitor.slot = MAX_NUM_VM - 1
    IN  /\ monitor' =
             [pc   |-> IF last /\ monitor.walk = "perf" THEN "sleep" ELSE "check",
              walk |-> IF last THEN NextWalk(monitor.walk) ELSE monitor.walk,
              slot |-> IF last THEN 0 ELSE monitor.slot + 1]
        /\ unfinished' = (unfinished /\ monitor'.pc # "sleep")

\* Faulty form: an endless loop.
BeginIterationAlways ==
    /\ fault = "none"
    /\ monitor.pc = "sleep"
    /\ monitor' = [monitor EXCEPT !.pc = "check"]
    /\ UNCHANGED <<VMs, rpc, running, unfinished, fault>>

\* while (running)
BeginIteration ==
    /\ fault = "none"
    /\ monitor.pc = "sleep"
    /\ monitor' = [monitor EXCEPT !.pc = IF running THEN "check" ELSE "exited"]
    /\ UNCHANGED <<VMs, rpc, running, unfinished, fault>>

\* Faulty form: does not get past a slot without a running VM.
CheckStuck ==
    /\ fault = "none"
    /\ monitor.pc = "check"
    /\ VMs[monitor.slot].running
    /\ monitor' = [monitor EXCEPT !.pc = "use"]
    /\ UNCHANGED <<VMs, rpc, running, unfinished, fault>>

\* Is this slot's VM running?  The perf walk does not look at initialized.
Check ==
    /\ fault = "none"
    /\ monitor.pc = "check"
    /\ LET vm == VMs[monitor.slot] IN
       IF vm.running /\ (vm.initialized \/ monitor.walk = "perf")
       THEN monitor' = [monitor EXCEPT !.pc = "use"] /\ UNCHANGED unfinished
       ELSE Advance
    /\ UNCHANGED <<VMs, rpc, running, fault>>

\* Faulty form: waits for an answer without a question.
AskAgentSilently ==
    /\ fault = "none"
    /\ monitor.pc = "use" /\ monitor.walk = "mem_cp"
    /\ IF VMs[monitor.slot].agent = "closed"
       THEN Advance
       ELSE monitor' = [monitor EXCEPT !.pc = "recv"] /\ UNCHANGED unfinished
    /\ UNCHANGED <<VMs, rpc, running, fault>>

\* send_guest_cmd(): send() if the agent is connected; the walk goes on if not.
AskAgent ==
    /\ fault = "none"
    /\ monitor.pc = "use" /\ monitor.walk = "mem_cp"
    /\ \/ /\ VMs[monitor.slot].agent = "closed"
          /\ Advance
          /\ UNCHANGED <<VMs, rpc, running, fault>>
       \/ /\ VMs[monitor.slot].agent = "connected"
          /\ monitor' = [monitor EXCEPT !.pc = "recv"]
          /\ VMs' = [VMs EXCEPT ![monitor.slot].pending = @ + 1]
          /\ UNCHANGED <<rpc, running, unfinished, fault>>
       \/ VMs[monitor.slot].agent = "hung_up" /\ BrokenPipe

\* recv() is called.  If the socket was closed after send(), the descriptor is
\* nobody's, or somebody else's by now.
EnterRecv ==
    /\ fault = "none"
    /\ monitor.pc = "recv"
    /\ IF VMs[monitor.slot].agent = "closed"
       THEN fault' = "mem_cp" /\ UNCHANGED monitor
       ELSE monitor' = [monitor EXCEPT !.pc = "wait"] /\ UNCHANGED fault
    /\ UNCHANGED <<VMs, rpc, running, unfinished>>

LeaveRecv ==
    /\ fault = "none"
    /\ monitor.pc = "wait"
    /\ Answer(monitor.slot)
    /\ Advance
    /\ UNCHANGED <<rpc, running, fault>>

\* What the walks over cores and perf events use once the flags were tested.
Present(vm) == IF monitor.walk = "mem_bw" THEN vm.core_set ELSE vm.perf_open

\* The core set, or the perf events.  An empty core set or an event closed
\* meanwhile is a fault: the BUG_ON of for_each_core and of perf_event_read.
Use ==
    /\ fault = "none"
    /\ monitor.pc = "use" /\ monitor.walk # "mem_cp"
    /\ IF Present(VMs[monitor.slot])
       THEN Advance /\ UNCHANGED fault
       ELSE fault' = monitor.walk /\ UNCHANGED <<monitor, unfinished>>
    /\ UNCHANGED <<VMs, rpc, running>>

-----------------------------------------------------------------------------
(* QEMU, the other end of the agent sockets *)

\* The QEMU of a VM ends: the manager is not told.
QemuEnds(s) ==
    /\ fault = "none"
    /\ VMs[s].agent = "connected"
    /\ VMs' = [VMs EXCEPT ![s].agent = "hung_up"]
    /\ UNCHANGED <<rpc, monitor, running, unfinished, fault>>

\* A monitor that is inside recv() on a socket closed on this side comes back
\* only if QEMU answers late or ends.
Unstick ==
    /\ fault = "none"
    /\ monitor.pc = "stuck"
    /\ Advance
    /\ UNCHANGED <<VMs, rpc, running, fault>>

-----------------------------------------------------------------------------
Request ==
    \E s \in Slot :
        Create(s) \/ StartPerf(s) \/ StopFlag(s) \/ DestroyWipe(s) \/ GetMemInfo(s)

\* What the RPC thread has begun.
RpcContinue ==
    LET s == rpc.slot
    IN  \/ CreateCount(s)
        \/ StartAgent(s) \/ StartFlag(s)
        \/ StopWake(s) \/ StopAgent(s) \/ StopPerf(s)
        \/ DestroyFree(s)
        \/ RecvMemInfo
        \/ Join \/ StopAll

Monitor ==
    BeginIteration \/ Check \/ AskAgent \/ EnterRecv \/ LeaveRecv \/ Use

Qemu == Unstick \/ \E s \in Slot : QemuEnds(s)

Next == Request \/ RpcContinue \/ Signal \/ SecondSignal \/ Monitor \/ Qemu

Spec == Init /\ [][Next]_vars

(***************************************************************************)
(* Both threads keep running.  This includes that a guest agent answers    *)
(* what it is asked: recv() has no timeout, and an agent that stays silent *)
(* blocks the thread, and with it the shutdown, for good.                  *)
(***************************************************************************)
FairSpec == Spec /\ WF_vars(RpcContinue) /\ WF_vars(Monitor)

-----------------------------------------------------------------------------
(* Properties *)

VmState == [initialized : BOOLEAN, running : BOOLEAN, core_set : BOOLEAN,
            perf_open : BOOLEAN, agent : {"closed", "connected", "hung_up"},
            pending : 0 .. 2]

WorkPc == {"idle", "create_count", "start_agent", "start_flag", "stop_sleep",
           "stop_agent", "stop_perf", "destroy_free", "recv_mem"}

TypeOK ==
    /\ VMs \in [Slot -> VmState]
    /\ rpc \in [pc : WorkPc \cup ShutdownPc, slot : Slot,
                cut : WorkPc \cup {"none"}]
    /\ monitor \in [pc : {"sleep", "check", "use", "recv", "wait", "stuck",
                          "handler", "exited"},
                    walk : Walk, slot : Slot]
    /\ running \in BOOLEAN
    /\ unfinished \in BOOLEAN
    /\ fault \in {"none", "sigpipe"} \cup Walk

\* The monitor finds a socket, a core set or perf events gone only at a VM that
\* stop-vm took from it in the middle of the iteration: start-vm sets running
\* when everything is there, stop-vm clears it before anything goes, and no
\* create, failed start, destroy or shutdown adds a way of its own.
MonitorOnlyRacesStop ==
    [][fault = "none" /\ fault' \in Walk =>
          unfinished /\ ~VMs[monitor.slot].running]_vars

\* The monitor waits for an answer that no agent owes.
MonitorStarved ==
    /\ monitor.pc = "wait"
    /\ VMs[monitor.slot].agent = "connected"
    /\ VMs[monitor.slot].pending = 0

\* The same, or it waits at a socket that was closed under it.
MonitorLost == MonitorStarved \/ monitor.pc = "stuck"

RpcStarved ==
    /\ rpc.pc = "recv_mem"
    /\ VMs[rpc.slot].agent = "connected"
    /\ VMs[rpc.slot].pending = 0

\* send_guest_cmd() has no lock, and one recv() can take the answers to both
\* threads.  Still they never both wait for an answer nobody owes: the manager
\* as a whole does not come to a standstill over its guest agents.
NeverBothStarved == ~(RpcStarved /\ MonitorLost)

\* vm_mngr_instance_stop closes a VM's perf events only when the monitor has
\* finished the iteration in which running was cleared.
IterationEndsBeforeClose ==
    [][StopPerf(rpc.slot) => ~unfinished]_vars

\* The process died of SIGPIPE or of what the monitor used.
Dead == fault # "none"

\* handle_signal gets past pthread_join and the process exits, whatever the RPC
\* thread was doing when SIGINT arrived: the monitor leaves its loop, unless a
\* get-mem-info took its answer or a stop-vm closed its socket.
ShutdownJoins == rpc.pc = "join" ~> rpc.pc = "exited" \/ MonitorLost \/ Dead

\* At exit(), wherever SIGINT interrupted the RPC thread: no VM runs, perf
\* events or an agent connection are left only of a VM in the middle of its
\* start or stop, and in the table is only a VM that was being created.
ShutdownLeavesOnlyTheCut ==
    rpc.pc = "exited" =>
        \A s \in Slot :
            /\ ~VMs[s].running
            /\ VMs[s].perf_open \/ VMs[s].agent # "closed" =>
                  /\ s = rpc.slot
                  /\ rpc.cut \in {"start_agent", "start_flag", "stop_sleep",
                                  "stop_agent", "stop_perf"}
            /\ VMs[s].initialized => s = rpc.slot /\ rpc.cut = "create_count"

\* A get-mem-info whose answer the monitor took is not cut off for good: the
\* monitor, which is not waiting in vain itself, comes back to this socket with
\* another question.  Who gets that answer is open again.
AnotherAnswerComes == RpcStarved ~> ~RpcStarved \/ Dead
=============================================================================
