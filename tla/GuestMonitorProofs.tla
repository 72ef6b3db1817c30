------------------------- MODULE GuestMonitorProofs -------------------------
(***************************************************************************)
(* Two threads on the same agent sockets, for a VM table of any size:      *)
(* the monitor and a get-mem-info never both wait for an answer nobody     *)
(* owes, the monitor finds nothing gone except at a VM that stop-vm took   *)
(* from it in the middle of an iteration, and a shutdown that interrupts   *)
(* the RPC thread anywhere leaves nothing open but what it cut.            *)
(*                                                                         *)
(* A socket holds no more questions than there are threads that have asked *)
(* on it and not taken their answer: this bounds the counter, and it is    *)
(* what keeps one of two waiting threads owed an answer.                   *)
(***************************************************************************)
EXTENDS GuestMonitor, TLAPS

RpcState == [pc : WorkPc \cup ShutdownPc, slot : Slot, cut : WorkPc \cup {"none"}]

MonitorState == [pc : {"sleep", "check", "use", "recv", "wait", "stuck", "handler",
                       "exited"},
                 walk : Walk, slot : Slot]

VmsTyped == VMs \in [Slot -> VmState]

ControlTyped ==
    /\ rpc \in RpcState
    /\ monitor \in MonitorState
    /\ running \in BOOLEAN
    /\ unfinished \in BOOLEAN
    /\ fault \in {"none", "sigpipe"} \cup Walk

\* Questions on the socket of s that may be pending: one of a get-mem-info,
\* which a shutdown leaves behind, and one of the monitor.
Asking(s) ==
    (IF rpc.slot = s /\ rpc.pc \in {"recv_mem"} \cup ShutdownPc THEN 1 ELSE 0)
    + (IF monitor.slot = s /\ monitor.pc \in {"recv", "wait", "handler"} THEN 1 ELSE 0)

PendingBound ==
    \A s \in Slot : VMs[s].agent = "connected" => VMs[s].pending <= Asking(s)

\* MonitorLost one step earlier: the monitor is about to wait, too.
WaitsInVain ==
    \/ /\ monitor.pc \in {"recv", "wait"}
       /\ VMs[monitor.slot].agent = "connected"
       /\ VMs[monitor.slot].pending = 0
    \/ monitor.pc = "stuck"

OneWaitsInVain == ~(RpcStarved /\ WaitsInVain)

\* What VM->running promises.
RunningIsWhole ==
    \A s \in Slot : VMs[s].running =>
        VMs[s].initialized /\ VMs[s].core_set /\ VMs[s].perf_open /\ VMs[s].agent # "closed"

\* Where the RPC thread is, or was when SIGINT interrupted it.
At == IF rpc.pc \in ShutdownPc THEN rpc.cut ELSE rpc.pc

\* In the middle of a start or a stop.
Between == {"start_agent", "start_flag", "stop_sleep", "stop_agent", "stop_perf"}

\* What is known of the VM that a create, start, stop or destroy works on.
RpcPlace ==
    LET vm == VMs[rpc.slot]
    IN  /\ At \in Between \cup {"create_count", "destroy_free"} => ~vm.running
        /\ rpc.pc \in {"start_agent", "start_flag"} =>
              vm.initialized /\ vm.core_set /\ vm.perf_open
        /\ rpc.pc = "start_flag" => vm.agent # "closed"
        /\ rpc.pc \in {"start_agent", "stop_perf"} => vm.agent = "closed"

CoresPresent ==
    rpc.pc \notin ShutdownPc =>
        \A s \in Slot : VMs[s].initialized /\ ~(rpc.pc = "destroy_free" /\ rpc.slot = s)
                            => VMs[s].core_set

\* The VM the monitor works on runs, or was stopped in this iteration.
StoppedUnderMonitor ==
    monitor.pc \in {"use", "recv"} => VMs[monitor.slot].running \/ unfinished

EndsInOrder == rpc.pc \in {"stop_all", "exited"} => monitor.pc \in {"exited", "handler"}

\* What is open belongs to a VM that runs, or to the one in between.
OpenOrBetween ==
    \A s \in Slot :
        VMs[s].perf_open \/ VMs[s].agent # "closed" =>
            VMs[s].running \/ (s = rpc.slot /\ At \in Between)

ExitsEmpty ==
    rpc.pc = "exited" =>
        \A s \in Slot : ~VMs[s].running
                          /\ (VMs[s].initialized => s = rpc.slot /\ rpc.cut = "create_count")

LiveInv ==
    /\ RunningIsWhole /\ RpcPlace /\ CoresPresent /\ StoppedUnderMonitor
    /\ EndsInOrder /\ OpenOrBetween /\ ExitsEmpty

\* What a slot keeps when only questions are asked or answered.
Kept(t) ==
    /\ VMs'[t].initialized <=> VMs[t].initialized
    /\ VMs'[t].running <=> VMs[t].running
    /\ VMs'[t].core_set <=> VMs[t].core_set
    /\ VMs'[t].perf_open <=> VMs[t].perf_open
    /\ VMs'[t].agent = VMs[t].agent

-----------------------------------------------------------------------------
\* The table of MAX_NUM_VM entries begins with entry 0.
LEMMA SlotIsRange == Slot = 0 .. (MAX_NUM_VM - 1) /\ MAX_NUM_VM \in Nat \ {0}
BY MaxNumVmAssumption DEF Slot

\* The monitor's next slot and walk are again a slot and a walk.
LEMMA AdvanceTyped ==
    ASSUME ControlTyped, Advance
    PROVE  monitor' \in MonitorState /\ unfinished' \in BOOLEAN
           /\ monitor'.pc \in {"check", "sleep"}
  <1>1. monitor.slot \in Slot /\ monitor.walk \in Walk /\ NextWalk(monitor.walk) \in Walk
    BY DEF ControlTyped, MonitorState, Walk, NextWalk
  <1>2. monitor.slot # MAX_NUM_VM - 1 => monitor.slot + 1 \in Slot
    BY <1>1, SlotIsRange
  <1>3. 0 \in Slot
    BY SlotIsRange
  <1>4. monitor' \in MonitorState /\ monitor'.pc \in {"check", "sleep"}
    BY <1>1, <1>2, <1>3 DEF Advance, MonitorState
  <1>5. unfinished' \in BOOLEAN
    BY DEF Advance
  <1> QED
    BY <1>4, <1>5

\* recv() takes at least one answer from a connected agent, and nothing else
\* changes.
LEMMA AnswerTaken ==
    ASSUME VmsTyped, NEW s \in Slot, Answer(s)
    PROVE  /\ VmsTyped'
           /\ \A t \in Slot : Kept(t) /\ VMs'[t].pending <= VMs[t].pending
           /\ VMs[s].agent = "connected" => VMs'[s].pending < VMs[s].pending
  <1>1. VMs[s] \in VmState
    BY DEF VmsTyped
  <1>2. CASE UNCHANGED VMs /\ VMs[s].agent = "hung_up"
    BY <1>2 DEF VmsTyped, VmState, Kept
  <1>3. ASSUME NEW k \in 1 .. VMs[s].pending, VMs' = [VMs EXCEPT ![s].pending = @ - k]
        PROVE  /\ VmsTyped'
               /\ VMs'[s].pending < VMs[s].pending
               /\ \A t \in Slot : Kept(t) /\ VMs'[t].pending <= VMs[t].pending
    <2>1. VMs[s].pending \in 0 .. 2 /\ VMs[s].pending - k \in 0 .. 2
          /\ VMs[s].pending - k < VMs[s].pending
      BY <1>1 DEF VmState
    <2>2. VmsTyped'
      BY <1>1, <1>3, <2>1 DEF VmsTyped, VmState
    <2>3. VMs'[s].pending < VMs[s].pending /\ Kept(s)
      BY <1>1, <1>3, <2>1 DEF VmsTyped, VmState, Kept
    <2>4. \A t \in Slot \ {s} : VMs'[t] = VMs[t] /\ VMs[t].pending \in Nat
      BY <1>3 DEF VmsTyped, VmState
    <2>5. \A t \in Slot \ {s} : Kept(t) /\ VMs'[t].pending <= VMs[t].pending
      BY <2>4 DEF Kept
    <2>6. ASSUME NEW t \in Slot PROVE Kept(t) /\ VMs'[t].pending <= VMs[t].pending
      <3>1. CASE t = s
        <4>1. VMs'[s].pending \in 0 .. 2
          BY <2>2 DEF VmsTyped, VmState
        <4> QED
          BY <2>1, <2>3, <3>1, <4>1
      <3>2. CASE t # s
        BY <2>5, <3>2
      <3> QED
        BY <3>1, <3>2
    <2> QED
      BY <2>2, <2>3, <2>6
  <1> QED
    BY <1>2, <1>3 DEF Answer

-----------------------------------------------------------------------------
(* Types *)

\* Both threads stay at places the code has.
LEMMA ControlStep == ASSUME ControlTyped, [Next]_vars PROVE ControlTyped'
  <1> USE DEF ControlTyped, RpcState, MonitorState, WorkPc, ShutdownPc, Walk

  <1>1. ASSUME NEW s \in Slot, Create(s) PROVE ControlTyped'
    BY <1>1 DEF Create, RpcStep, Quiet
  <1>2. ASSUME NEW s \in Slot, StartPerf(s) PROVE ControlTyped'
    BY <1>2 DEF StartPerf, RpcStep, Quiet
  <1>3. ASSUME NEW s \in Slot, StartAgent(s) PROVE ControlTyped'
    BY <1>3 DEF StartAgent, RpcStep, Quiet
  <1>4. ASSUME NEW s \in Slot, StartFlag(s) PROVE ControlTyped'
    BY <1>4 DEF StartFlag, RpcStep, Quiet
  <1>5. ASSUME NEW s \in Slot, StopFlag(s) PROVE ControlTyped'
    BY <1>5 DEF StopFlag, RpcStep
  <1>6. ASSUME NEW s \in Slot, StopWake(s) PROVE ControlTyped'
    BY <1>6 DEF StopWake, RpcStep, Quiet
  <1>7. ASSUME NEW s \in Slot, StopAgent(s) PROVE ControlTyped'
    BY <1>7 DEF StopAgent, Quiet
  <1>8. ASSUME NEW s \in Slot, StopPerf(s) PROVE ControlTyped'
    BY <1>8 DEF StopPerf, RpcStep, Quiet
  <1>9. ASSUME NEW s \in Slot, DestroyWipe(s) PROVE ControlTyped'
    BY <1>9 DEF DestroyWipe, RpcStep, Quiet
  <1>10. ASSUME NEW s \in Slot, DestroyFree(s) PROVE ControlTyped'
    BY <1>10 DEF DestroyFree, RpcStep, Quiet
  <1>11. ASSUME NEW s \in Slot, GetMemInfo(s) PROVE ControlTyped'
    BY <1>11 DEF GetMemInfo, Quiet, BrokenPipe
  <1>12. ASSUME RecvMemInfo PROVE ControlTyped'
    BY <1>12 DEF RecvMemInfo, RpcStep, Quiet, Answer
  <1>13. ASSUME Signal PROVE ControlTyped'
    BY <1>13 DEF Signal
  <1>14. ASSUME Join PROVE ControlTyped'
    BY <1>14 DEF Join, RpcStep, Quiet
  <1>15. ASSUME SecondSignal PROVE ControlTyped'
    BY <1>15 DEF SecondSignal
  <1>16. ASSUME StopAll PROVE ControlTyped'
    <2>1. rpc' = [pc |-> "exited", slot |-> rpc.slot, cut |-> rpc.cut]
          /\ UNCHANGED <<monitor, running, unfinished, fault>>
      BY <1>16 DEF StopAll, RpcStep, Quiet
    <2> QED
      BY <2>1
  <1>17. ASSUME BeginIteration PROVE ControlTyped'
    BY <1>17 DEF BeginIteration
  <1>18. ASSUME Check PROVE ControlTyped'
    BY <1>18, AdvanceTyped DEF Check
  <1>19. ASSUME AskAgent PROVE ControlTyped'
    BY <1>19, AdvanceTyped DEF AskAgent, BrokenPipe, Quiet
  <1>20. ASSUME EnterRecv PROVE ControlTyped'
    BY <1>20 DEF EnterRecv
  <1>21. ASSUME LeaveRecv PROVE ControlTyped'
    BY <1>21, AdvanceTyped DEF LeaveRecv, Answer
  <1>22. ASSUME Use PROVE ControlTyped'
    BY <1>22, AdvanceTyped DEF Use, Present
  <1>23. ASSUME NEW s \in Slot, QemuEnds(s) PROVE ControlTyped'
    BY <1>23 DEF QemuEnds
  <1>24. ASSUME Unstick PROVE ControlTyped'
    BY <1>24, AdvanceTyped DEF Unstick
  <1>25. CASE UNCHANGED vars
    BY <1>25 DEF vars
  <1>26. ASSUME NEW s \in Slot, CreateCount(s) PROVE ControlTyped'
    BY <1>26 DEF CreateCount, RpcStep, Quiet
  <1> QED
    BY <1>1, <1>2, <1>3, <1>4, <1>5, <1>6, <1>7, <1>8, <1>9, <1>10, <1>11,
       <1>12, <1>13, <1>14, <1>15, <1>16, <1>17, <1>18, <1>19, <1>20, <1>21,
       <1>22, <1>23, <1>24, <1>25, <1>26
    DEF Next, Request, RpcContinue, Monitor, Qemu

\* Who is about to ask has no question pending.
LEMMA RoomForOne ==
    ASSUME VmsTyped, ControlTyped, PendingBound, NEW s \in Slot,
           VMs[s].agent = "connected",
           rpc.pc = "idle" \/ monitor.pc = "use"
    PROVE  VMs[s].pending \in 0 .. 1
  <1>1. VMs[s].pending \in 0 .. 2 /\ VMs[s].pending <= Asking(s)
    BY DEF VmsTyped, VmState, PendingBound
  <1>2. Asking(s) \in 0 .. 1
    BY DEF Asking, ShutdownPc
  <1> QED
    BY <1>1, <1>2

\* What StopAll makes of a slot.
LEMMA StoppedSlot ==
    ASSUME VmsTyped, StopAll, NEW s \in Slot
    PROVE  /\ VMs'[s] \in VmState
           /\ NoneCounted => VMs'[s] = VMs[s]
           /\ ~NoneCounted =>
                 /\ ~VMs'[s].running /\ ~VMs'[s].initialized
                 /\ IF VMs[s].running
                    THEN ~VMs'[s].perf_open /\ VMs'[s].agent = "closed"
                    ELSE VMs'[s].perf_open = VMs[s].perf_open
                         /\ VMs'[s].agent = VMs[s].agent
           /\ VMs'[s].agent # "closed" =>
                 VMs'[s].agent = VMs[s].agent /\ VMs'[s].pending = VMs[s].pending
  <1> DEFINE stopped(vm) == [vm EXCEPT !.initialized = FALSE, !.running = FALSE, !.core_set = FALSE,
                               !.perf_open = FALSE, !.agent = "closed", !.pending = 0]
             wiped(vm) == [vm EXCEPT !.initialized = FALSE, !.core_set = FALSE]
  <1>1. VMs[s] \in VmState
    BY DEF VmsTyped
  <1>2. ASSUME NEW vm \in VmState
        PROVE  /\ stopped(vm) \in VmState /\ ~stopped(vm).running
               /\ ~stopped(vm).initialized /\ ~stopped(vm).perf_open
               /\ stopped(vm).agent = "closed"
    BY 0 \in 0 .. 2 DEF VmState
  <1>3. ASSUME NEW vm \in VmState
        PROVE  /\ wiped(vm) \in VmState /\ wiped(vm).running = vm.running
               /\ ~wiped(vm).initialized /\ wiped(vm).perf_open = vm.perf_open
               /\ wiped(vm).agent = vm.agent /\ wiped(vm).pending = vm.pending
    BY DEF VmState
  <1>4. CASE NoneCounted
    BY <1>1, <1>4 DEF StopAll
  <1>5. CASE ~NoneCounted
    <2>1. VMs'[s] = IF VMs[s].running THEN stopped(VMs[s]) ELSE wiped(VMs[s])
      BY <1>5 DEF StopAll, StopAndDestroy
    <2> HIDE DEF stopped, wiped
    <2> QED
      BY <1>1, <1>2, <1>3, <1>5, <2>1
  <1> QED
    BY <1>4, <1>5

\* No step takes an entry of the VM table out of its type.
LEMMA VmsStep == ASSUME VmsTyped, ControlTyped, PendingBound, [Next]_vars PROVE VmsTyped'
  <1>1. ASSUME NEW s \in Slot, StartAgent(s) PROVE VmsTyped'
    <2>1. VMs[s] \in VmState
      BY DEF VmsTyped
    <2>2. CASE VMs' = [VMs EXCEPT ![s].agent = "connected", ![s].pending = 0]
      <3> DEFINE connected == [VMs EXCEPT ![s].agent = "connected"]
      <3>1. connected \in [Slot -> VmState]
        BY <2>1 DEF VmsTyped, VmState
      <3>2. VMs' = [connected EXCEPT ![s].pending = 0]
        BY <2>2
      <3> HIDE DEF connected
      <3> QED
        BY <3>1, <3>2 DEF VmsTyped, VmState
    <2>3. CASE VMs' = [VMs EXCEPT ![s].perf_open = FALSE]
      BY <2>1, <2>3 DEF VmsTyped, VmState
    <2> QED
      BY <1>1, <2>2, <2>3 DEF StartAgent
  <1>2. ASSUME NEW s \in Slot, StopAgent(s) PROVE VmsTyped'
    <2>1. VMs[s] \in VmState /\ VMs' = [VMs EXCEPT ![s].agent = "closed", ![s].pending = 0]
      BY <1>2 DEF VmsTyped, StopAgent
    <2> DEFINE closed == [VMs EXCEPT ![s].agent = "closed"]
    <2>2. closed \in [Slot -> VmState]
      BY <2>1 DEF VmsTyped, VmState
    <2>3. VMs' = [closed EXCEPT ![s].pending = 0]
      BY <2>1
    <2> HIDE DEF closed
    <2> QED
      BY <2>2, <2>3 DEF VmsTyped, VmState
  <1>3. ASSUME NEW s \in Slot, GetMemInfo(s) PROVE VmsTyped'
    <2>1. CASE UNCHANGED VMs
      BY <2>1 DEF VmsTyped
    <2>2. CASE VMs[s].agent = "connected" /\ VMs' = [VMs EXCEPT ![s].pending = @ + 1]
      <3>1. VMs[s].pending \in 0 .. 1 /\ VMs[s] \in VmState
        BY <1>3, <2>2, RoomForOne DEF GetMemInfo, VmsTyped
      <3>2. VMs[s].pending + 1 \in 0 .. 2
        BY <3>1
      <3> QED
        BY <2>2, <3>1, <3>2 DEF VmsTyped, VmState
    <2> QED
      BY <1>3, <2>1, <2>2 DEF GetMemInfo, BrokenPipe
  <1>4. ASSUME AskAgent PROVE VmsTyped'
    <2> DEFINE s == monitor.slot
    <2>1. CASE UNCHANGED VMs
      BY <2>1 DEF VmsTyped
    <2>2. CASE VMs[s].agent = "connected" /\ VMs' = [VMs EXCEPT ![s].pending = @ + 1]
      <3>1. s \in Slot
        BY DEF ControlTyped, MonitorState
      <3>2. VMs[s].pending \in 0 .. 1 /\ VMs[s] \in VmState
        BY <1>4, <2>2, <3>1, RoomForOne DEF AskAgent, VmsTyped
      <3>3. VMs[s].pending + 1 \in 0 .. 2
        BY <3>2
      <3> QED
        BY <2>2, <3>1, <3>2, <3>3 DEF VmsTyped, VmState
    <2> QED
      BY <1>4, <2>1, <2>2 DEF AskAgent, BrokenPipe
  <1>5. ASSUME RecvMemInfo \/ LeaveRecv PROVE VmsTyped'
    BY <1>5, AnswerTaken DEF RecvMemInfo, LeaveRecv, ControlTyped, RpcState, MonitorState
  <1>6. ASSUME StopAll PROVE VmsTyped'
    <2>1. VMs' = [s \in Slot |-> VMs'[s]]
      BY <1>6 DEF StopAll, VmsTyped
    <2> QED
      BY <1>6, <2>1, StoppedSlot DEF VmsTyped
  <1>7. ASSUME NEW s \in Slot, Create(s) PROVE VmsTyped'
    <2>1. VMs[s] \in VmState
      BY DEF VmsTyped
    <2> QED
      BY <1>7, <2>1 DEF Create, VmsTyped, VmState
  <1>8. ASSUME NEW s \in Slot, StartPerf(s) PROVE VmsTyped'
    <2>1. VMs[s] \in VmState
      BY DEF VmsTyped
    <2> QED
      BY <1>8, <2>1 DEF StartPerf, VmsTyped, VmState
  <1>9. ASSUME NEW s \in Slot, StartFlag(s) PROVE VmsTyped'
    <2>1. VMs[s] \in VmState
      BY DEF VmsTyped
    <2> QED
      BY <1>9, <2>1 DEF StartFlag, VmsTyped, VmState
  <1>10. ASSUME NEW s \in Slot, StopFlag(s) PROVE VmsTyped'
    <2>1. VMs[s] \in VmState
      BY DEF VmsTyped
    <2> QED
      BY <1>10, <2>1 DEF StopFlag, VmsTyped, VmState
  <1>11. ASSUME NEW s \in Slot, StopPerf(s) PROVE VmsTyped'
    <2>1. VMs[s] \in VmState
      BY DEF VmsTyped
    <2> QED
      BY <1>11, <2>1 DEF StopPerf, VmsTyped, VmState
  <1>12. ASSUME NEW s \in Slot, DestroyWipe(s) PROVE VmsTyped'
    <2>1. VMs[s] \in VmState
      BY DEF VmsTyped
    <2> QED
      BY <1>12, <2>1 DEF DestroyWipe, VmsTyped, VmState
  <1>13. ASSUME NEW s \in Slot, DestroyFree(s) PROVE VmsTyped'
    <2>1. VMs[s] \in VmState
      BY DEF VmsTyped
    <2> QED
      BY <1>13, <2>1 DEF DestroyFree, VmsTyped, VmState
  <1>14. ASSUME NEW s \in Slot, QemuEnds(s) PROVE VmsTyped'
    <2>1. VMs[s] \in VmState
      BY DEF VmsTyped
    <2> QED
      BY <1>14, <2>1 DEF QemuEnds, VmsTyped, VmState
  <1>15. ASSUME NEW s \in Slot, StopWake(s) \/ CreateCount(s) PROVE VmsTyped'
    BY <1>15 DEF StopWake, CreateCount, VmsTyped
  <1>16. CASE \/ Signal \/ Join \/ SecondSignal \/ BeginIteration \/ Check
            \/ EnterRecv \/ Use \/ Unstick \/ UNCHANGED vars
    BY <1>16 DEF Signal, Join, SecondSignal, BeginIteration, Check, EnterRecv, Use,
       Unstick, vars, VmsTyped
  <1> QED
    BY <1>1, <1>2, <1>3, <1>4, <1>5, <1>6, <1>7, <1>8, <1>9, <1>10, <1>11,
       <1>12, <1>13, <1>14, <1>15, <1>16
    DEF Next, Request, RpcContinue, Monitor, Qemu, ControlTyped, RpcState

\* send() comes before the place of recv(), and recv() takes an answer: the
\* questions stay bounded by the threads that asked.
LEMMA PendingStep ==
    ASSUME VmsTyped, ControlTyped, PendingBound, [Next]_vars, ControlTyped'
    PROVE  PendingBound'
  <1> SUFFICES ASSUME NEW t \in Slot, VMs'[t].agent = "connected"
               PROVE  VMs'[t].pending <= Asking(t)'
    BY DEF PendingBound
  <1>0. /\ VMs[t] \in VmState
        /\ VMs[t].agent = "connected" => VMs[t].pending <= Asking(t)
        /\ rpc \in RpcState /\ monitor \in MonitorState
    BY DEF VmsTyped, ControlTyped, PendingBound
  <1> USE DEF Asking, ShutdownPc
  <1>1. ASSUME NEW s \in Slot, Create(s) PROVE VMs'[t].pending <= Asking(t)'
    BY <1>0, <1>1 DEF Create, RpcStep, Quiet, VmsTyped, VmState
  <1>2. ASSUME NEW s \in Slot, StartPerf(s) PROVE VMs'[t].pending <= Asking(t)'
    BY <1>0, <1>2 DEF StartPerf, RpcStep, Quiet, VmsTyped, VmState
  <1>3. ASSUME NEW s \in Slot, StartAgent(s) PROVE VMs'[t].pending <= Asking(t)'
    BY <1>0, <1>3 DEF StartAgent, RpcStep, Quiet, VmsTyped, VmState
  <1>4. ASSUME NEW s \in Slot, StartFlag(s) PROVE VMs'[t].pending <= Asking(t)'
    BY <1>0, <1>4 DEF StartFlag, RpcStep, Quiet, VmsTyped, VmState
  <1>5. ASSUME NEW s \in Slot, StopFlag(s) PROVE VMs'[t].pending <= Asking(t)'
    BY <1>0, <1>5 DEF StopFlag, RpcStep, VmsTyped, VmState
  <1>6. ASSUME NEW s \in Slot, StopWake(s) PROVE VMs'[t].pending <= Asking(t)'
    BY <1>0, <1>6 DEF StopWake, RpcStep, Quiet, VmsTyped, VmState
  <1>7. ASSUME NEW s \in Slot, StopAgent(s) PROVE VMs'[t].pending <= Asking(t)'
    BY <1>0, <1>7 DEF StopAgent, Quiet, VmsTyped, VmState
  <1>8. ASSUME NEW s \in Slot, StopPerf(s) PROVE VMs'[t].pending <= Asking(t)'
    BY <1>0, <1>8 DEF StopPerf, RpcStep, Quiet, VmsTyped, VmState
  <1>9. ASSUME NEW s \in Slot, DestroyWipe(s) PROVE VMs'[t].pending <= Asking(t)'
    BY <1>0, <1>9 DEF DestroyWipe, RpcStep, Quiet, VmsTyped, VmState
  <1>10. ASSUME NEW s \in Slot, DestroyFree(s) PROVE VMs'[t].pending <= Asking(t)'
    BY <1>0, <1>10 DEF DestroyFree, RpcStep, Quiet, VmsTyped, VmState
  <1>11. ASSUME NEW s \in Slot, GetMemInfo(s) PROVE VMs'[t].pending <= Asking(t)'
    BY <1>0, <1>11 DEF GetMemInfo, Quiet, BrokenPipe, VmsTyped, VmState
  <1>12. ASSUME RecvMemInfo PROVE VMs'[t].pending <= Asking(t)'
    <2>1. /\ rpc.slot \in Slot /\ VMs[rpc.slot].agent \in {"connected", "hung_up"}
          /\ rpc.pc = "recv_mem" /\ rpc' = [pc |-> "idle", slot |-> rpc.slot, cut |-> rpc.cut]
          /\ monitor' = monitor
      BY <1>0, <1>12 DEF RecvMemInfo, RpcStep, Answer, RpcState
    <2>2. VmsTyped' /\ VMs'[t].agent = VMs[t].agent /\ VMs'[t].pending <= VMs[t].pending
          /\ (t = rpc.slot => VMs'[t].pending < VMs[t].pending)
      BY <1>12, <2>1, AnswerTaken DEF RecvMemInfo, Kept
    <2>3. VMs'[t].pending \in 0 .. 2 /\ VMs[t].pending \in 0 .. 2 /\ VMs[t].pending <= Asking(t)
      BY <1>0, <2>2 DEF VmsTyped, VmState
    <2>4. IF t = rpc.slot THEN Asking(t)' = Asking(t) - 1 ELSE Asking(t)' = Asking(t)
      BY <2>1
    <2> QED
      BY <2>2, <2>3, <2>4
  <1>13. ASSUME Signal PROVE VMs'[t].pending <= Asking(t)'
    BY <1>0, <1>13 DEF Signal, VmsTyped, VmState
  <1>14. ASSUME Join PROVE VMs'[t].pending <= Asking(t)'
    BY <1>0, <1>14 DEF Join, RpcStep, Quiet, VmsTyped, VmState
  <1>15. ASSUME SecondSignal PROVE VMs'[t].pending <= Asking(t)'
    BY <1>0, <1>15 DEF SecondSignal, VmsTyped, VmState
  <1>16. ASSUME StopAll PROVE VMs'[t].pending <= Asking(t)'
    <2> \E from \in {"stop_all", "join"} : RpcStep(from, "exited", rpc.slot)
      BY <1>16 DEF StopAll
    <2>1. rpc'.slot = rpc.slot /\ rpc.pc \in ShutdownPc /\ rpc'.pc \in ShutdownPc
          /\ monitor' = monitor
      BY DEF RpcStep
    <2>2. VMs'[t].agent = VMs[t].agent /\ VMs'[t].pending = VMs[t].pending
      BY <1>16, StoppedSlot
    <2>3. Asking(t)' = Asking(t)
      BY <2>1
    <2> QED
      BY <1>0, <2>2, <2>3
  <1>17. ASSUME BeginIteration PROVE VMs'[t].pending <= Asking(t)'
    BY <1>0, <1>17 DEF BeginIteration, VmsTyped, VmState
  <1>18. ASSUME Check PROVE VMs'[t].pending <= Asking(t)'
    BY <1>0, <1>18, AdvanceTyped DEF Check, VmsTyped, VmState
  <1>19. ASSUME AskAgent PROVE VMs'[t].pending <= Asking(t)'
    <2>1. CASE UNCHANGED VMs /\ VMs[monitor.slot].agent = "closed"
      BY <1>0, <1>19, <2>1, AdvanceTyped DEF AskAgent, BrokenPipe
    <2>2. CASE fault' = "sigpipe" /\ UNCHANGED <<VMs, rpc, monitor>>
      BY <1>0, <2>2
    <2>3. CASE /\ VMs[monitor.slot].agent = "connected"
               /\ monitor' = [monitor EXCEPT !.pc = "recv"]
               /\ VMs' = [VMs EXCEPT ![monitor.slot].pending = @ + 1]
               /\ UNCHANGED rpc
      <3>1. monitor.pc = "use" /\ monitor'.slot = monitor.slot /\ monitor'.pc = "recv"
        BY <1>0, <1>19, <2>3 DEF AskAgent, MonitorState
      <3>2. VMs[t].pending \in 0 .. 2 /\ VMs'[t].agent = VMs[t].agent
            /\ VMs'[t].pending = IF t = monitor.slot THEN VMs[t].pending + 1 ELSE VMs[t].pending
        BY <1>0, <2>3 DEF VmsTyped, VmState
      <3>3. Asking(t)' = IF t = monitor.slot THEN Asking(t) + 1 ELSE Asking(t)
        BY <2>3, <3>1
      <3>4. Asking(t) \in 0 .. 2 /\ VMs[t].pending <= Asking(t)
        BY <1>0, <3>2
      <3> QED
        BY <3>2, <3>3, <3>4
    <2> QED
      BY <1>19, <2>1, <2>2, <2>3 DEF AskAgent, BrokenPipe
  <1>20. ASSUME EnterRecv PROVE VMs'[t].pending <= Asking(t)'
    <2>1. VMs' = VMs /\ rpc' = rpc /\ monitor.pc = "recv"
          /\ (monitor' = monitor \/ monitor' = [monitor EXCEPT !.pc = "wait"])
      BY <1>20 DEF EnterRecv
    <2>2. Asking(t)' = Asking(t)
      BY <1>0, <2>1 DEF MonitorState
    <2> QED
      BY <1>0, <2>1, <2>2
  <1>21. ASSUME LeaveRecv PROVE VMs'[t].pending <= Asking(t)'
    <2>1. /\ monitor.slot \in Slot /\ VMs[monitor.slot].agent \in {"connected", "hung_up"}
          /\ monitor.pc = "wait" /\ monitor'.pc \in {"check", "sleep"} /\ rpc' = rpc
      BY <1>0, <1>21, AdvanceTyped DEF LeaveRecv, Answer, MonitorState
    <2>2. VmsTyped' /\ VMs'[t].agent = VMs[t].agent /\ VMs'[t].pending <= VMs[t].pending
          /\ (t = monitor.slot => VMs'[t].pending < VMs[t].pending)
      BY <1>21, <2>1, AnswerTaken DEF LeaveRecv, Kept
    <2>3. VMs'[t].pending \in 0 .. 2 /\ VMs[t].pending \in 0 .. 2 /\ VMs[t].pending <= Asking(t)
      BY <1>0, <2>2 DEF VmsTyped, VmState
    <2>4. IF t = monitor.slot THEN Asking(t)' = Asking(t) - 1 ELSE Asking(t)' = Asking(t)
      BY <2>1
    <2> QED
      BY <2>2, <2>3, <2>4
  <1>22. ASSUME Use PROVE VMs'[t].pending <= Asking(t)'
    BY <1>0, <1>22, AdvanceTyped DEF Use, Present, VmsTyped, VmState
  <1>23. ASSUME NEW s \in Slot, QemuEnds(s) PROVE VMs'[t].pending <= Asking(t)'
    BY <1>0, <1>23 DEF QemuEnds, VmsTyped, VmState
  <1>24. ASSUME Unstick PROVE VMs'[t].pending <= Asking(t)'
    BY <1>0, <1>24, AdvanceTyped DEF Unstick, VmsTyped, VmState
  <1>25. CASE UNCHANGED vars
    BY <1>0, <1>25 DEF vars
  <1>26. ASSUME NEW s \in Slot, CreateCount(s) PROVE VMs'[t].pending <= Asking(t)'
    BY <1>0, <1>26 DEF CreateCount, RpcStep, Quiet
  <1> QED
    BY <1>1, <1>2, <1>3, <1>4, <1>5, <1>6, <1>7, <1>8, <1>9, <1>10, <1>11,
       <1>12, <1>13, <1>14, <1>15, <1>16, <1>17, <1>18, <1>19, <1>20, <1>21,
       <1>22, <1>23, <1>24, <1>25, <1>26
    DEF Next, Request, RpcContinue, Monitor, Qemu, ControlTyped, RpcState

\* What the types need, as an inductive invariant.
TypeInv == VmsTyped /\ ControlTyped /\ PendingBound

\* At the start nothing is asked and every slot is empty.
LEMMA InitTyped == Init => TypeInv
  <1> SUFFICES ASSUME Init PROVE TypeInv
    OBVIOUS
  <1>1. 0 \in Slot /\ 0 \in 0 .. 2
    BY SlotIsRange
  <1>2. VmsTyped
    BY <1>1 DEF Init, VmsTyped, VmState
  <1>3. ControlTyped
    BY <1>1 DEF Init, ControlTyped, RpcState, MonitorState, Walk, WorkPc
  <1>4. PendingBound
    BY DEF Init, PendingBound
  <1> QED
    BY <1>2, <1>3, <1>4 DEF TypeInv

\* The types and the bound on the questions hold together or not at all.
LEMMA NextTyped == TypeInv /\ [Next]_vars => TypeInv'
  <1> SUFFICES ASSUME TypeInv, [Next]_vars PROVE TypeInv'
    OBVIOUS
  <1>1. VmsTyped /\ ControlTyped /\ PendingBound
    BY DEF TypeInv
  <1>2. ControlTyped'
    BY <1>1, ControlStep
  <1>3. VmsTyped'
    BY <1>1, VmsStep
  <1>4. PendingBound'
    BY <1>1, <1>2, PendingStep
  <1> QED
    BY <1>2, <1>3, <1>4 DEF TypeInv

\* Both threads, the table and the agents' sockets keep their types: no socket
\* ever has more than two questions pending.
THEOREM MonitorTypes == Spec => []TypeOK
  <1>1. TypeInv => TypeOK
    BY DEF TypeInv, VmsTyped, ControlTyped, RpcState, MonitorState, TypeOK
  <1> QED
    BY InitTyped, NextTyped, <1>1, PTL DEF Spec

-----------------------------------------------------------------------------
(* Answers taken by the other thread *)

\* A recv() that takes both answers ends the wait of the thread that called it.
LEMMA VainStep ==
    ASSUME VmsTyped, ControlTyped, PendingBound, OneWaitsInVain, [Next]_vars,
           VmsTyped', ControlTyped'
    PROVE  OneWaitsInVain'
  <1>0. /\ \A t \in Slot : VMs[t] \in VmState /\ VMs'[t] \in VmState
        /\ rpc \in RpcState /\ monitor \in MonitorState
        /\ rpc' \in RpcState /\ monitor' \in MonitorState
    BY DEF VmsTyped, ControlTyped
  <1> USE DEF OneWaitsInVain, WaitsInVain, RpcStarved, RpcState, MonitorState, ShutdownPc
  <1>1. ASSUME NEW s \in Slot, Create(s) PROVE OneWaitsInVain'
    BY <1>0, <1>1 DEF Create, RpcStep, Quiet, VmsTyped, VmState
  <1>2. ASSUME NEW s \in Slot, StartPerf(s) PROVE OneWaitsInVain'
    BY <1>0, <1>2 DEF StartPerf, RpcStep, Quiet, VmsTyped, VmState
  <1>3. ASSUME NEW s \in Slot, StartAgent(s) PROVE OneWaitsInVain'
    BY <1>0, <1>3 DEF StartAgent, RpcStep, Quiet, VmsTyped, VmState
  <1>4. ASSUME NEW s \in Slot, StartFlag(s) PROVE OneWaitsInVain'
    BY <1>0, <1>4 DEF StartFlag, RpcStep, Quiet, VmsTyped, VmState
  <1>5. ASSUME NEW s \in Slot, StopFlag(s) PROVE OneWaitsInVain'
    BY <1>0, <1>5 DEF StopFlag, RpcStep, VmsTyped, VmState
  <1>6. ASSUME NEW s \in Slot, StopWake(s) PROVE OneWaitsInVain'
    BY <1>0, <1>6 DEF StopWake, RpcStep, Quiet, VmsTyped, VmState
  <1>7. ASSUME NEW s \in Slot, StopAgent(s) PROVE OneWaitsInVain'
    BY <1>0, <1>7 DEF StopAgent, Quiet, VmsTyped, VmState
  <1>8. ASSUME NEW s \in Slot, StopPerf(s) PROVE OneWaitsInVain'
    BY <1>0, <1>8 DEF StopPerf, RpcStep, Quiet, VmsTyped, VmState
  <1>9. ASSUME NEW s \in Slot, DestroyWipe(s) PROVE OneWaitsInVain'
    BY <1>0, <1>9 DEF DestroyWipe, RpcStep, Quiet, VmsTyped, VmState
  <1>10. ASSUME NEW s \in Slot, DestroyFree(s) PROVE OneWaitsInVain'
    BY <1>0, <1>10 DEF DestroyFree, RpcStep, Quiet, VmsTyped, VmState
  <1>11. ASSUME NEW s \in Slot, GetMemInfo(s) PROVE OneWaitsInVain'
    BY <1>0, <1>11 DEF GetMemInfo, Quiet, BrokenPipe, VmsTyped, VmState
  <1>12. ASSUME RecvMemInfo PROVE OneWaitsInVain'
    BY <1>0, <1>12, AnswerTaken DEF Kept, RecvMemInfo, RpcStep, Quiet, VmsTyped, VmState
  <1>13. ASSUME Signal PROVE OneWaitsInVain'
    BY <1>0, <1>13 DEF Signal, VmsTyped, VmState
  <1>14. ASSUME Join PROVE OneWaitsInVain'
    BY <1>0, <1>14 DEF Join, RpcStep, Quiet, VmsTyped, VmState
  <1>15. ASSUME SecondSignal PROVE OneWaitsInVain'
    BY <1>0, <1>15 DEF SecondSignal, VmsTyped, VmState
  <1>16. ASSUME StopAll PROVE OneWaitsInVain'
    <2> \E from \in {"stop_all", "join"} : RpcStep(from, "exited", rpc.slot)
      BY <1>16 DEF StopAll
    <2> QED
      BY DEF RpcStep
  <1>17. ASSUME BeginIteration PROVE OneWaitsInVain'
    BY <1>0, <1>17 DEF BeginIteration, VmsTyped, VmState
  <1>18. ASSUME Check PROVE OneWaitsInVain'
    BY <1>0, <1>18, AdvanceTyped DEF Check, VmsTyped, VmState
  <1>19. ASSUME AskAgent PROVE OneWaitsInVain'
    BY <1>0, <1>19, AdvanceTyped DEF AskAgent, BrokenPipe, Quiet, VmsTyped, VmState
  <1>20. ASSUME EnterRecv PROVE OneWaitsInVain'
    BY <1>0, <1>20 DEF EnterRecv, VmsTyped, VmState
  <1>21. ASSUME LeaveRecv PROVE OneWaitsInVain'
    BY <1>0, <1>21, AdvanceTyped, AnswerTaken DEF Kept, LeaveRecv, VmsTyped, VmState
  <1>22. ASSUME Use PROVE OneWaitsInVain'
    BY <1>0, <1>22, AdvanceTyped DEF Use, Present, VmsTyped, VmState
  <1>23. ASSUME NEW s \in Slot, QemuEnds(s) PROVE OneWaitsInVain'
    BY <1>0, <1>23 DEF QemuEnds, VmsTyped, VmState
  <1>24. ASSUME Unstick PROVE OneWaitsInVain'
    BY <1>0, <1>24, AdvanceTyped DEF Unstick, VmsTyped, VmState
  <1>25. CASE UNCHANGED vars
    BY <1>0, <1>25 DEF vars
  <1>26. ASSUME NEW s \in Slot, CreateCount(s) PROVE OneWaitsInVain'
    BY <1>0, <1>26 DEF CreateCount, RpcStep, Quiet
  <1> QED
    BY <1>1, <1>2, <1>3, <1>4, <1>5, <1>6, <1>7, <1>8, <1>9, <1>10, <1>11,
       <1>12, <1>13, <1>14, <1>15, <1>16, <1>17, <1>18, <1>19, <1>20, <1>21,
       <1>22, <1>23, <1>24, <1>25, <1>26
    DEF Next, Request, RpcContinue, Monitor, Qemu, ControlTyped, RpcState

\* send_guest_cmd() has no lock, and one recv() can take the answers to both
\* threads; never do both threads wait for an answer nobody owes.
THEOREM NeverBothWaitInVain == Spec => []NeverBothStarved
  <1> DEFINE Inv == TypeInv /\ OneWaitsInVain
  <1>1. Init => Inv
    BY InitTyped DEF Init, OneWaitsInVain, RpcStarved
  <1>2. Inv /\ [Next]_vars => Inv'
    <2> SUFFICES ASSUME Inv, [Next]_vars PROVE Inv'
      OBVIOUS
    <2>1. TypeInv /\ OneWaitsInVain /\ TypeInv'
      BY NextTyped
    <2>2. OneWaitsInVain'
      BY <2>1, VainStep DEF TypeInv
    <2> QED
      BY <2>1, <2>2
  <1>3. Inv => NeverBothStarved
    BY DEF OneWaitsInVain, WaitsInVain, NeverBothStarved, MonitorLost, MonitorStarved
  <1> QED
    BY <1>1, <1>2, <1>3, PTL DEF Spec

-----------------------------------------------------------------------------
(* What the monitor uses, and what a shutdown leaves *)

\* running is set last by start and cleared first by stop, and SIGINT changes
\* no VM.
LEMMA LiveStep ==
    ASSUME VmsTyped, ControlTyped, LiveInv, [Next]_vars, VmsTyped', ControlTyped'
    PROVE  LiveInv'
  <1>0. /\ \A t \in Slot : VMs[t] \in VmState /\ VMs'[t] \in VmState
        /\ rpc \in RpcState /\ monitor \in MonitorState
        /\ rpc' \in RpcState /\ monitor' \in MonitorState
    BY DEF VmsTyped, ControlTyped
  <1> USE DEF LiveInv, RunningIsWhole, RpcPlace, CoresPresent, StoppedUnderMonitor,
          EndsInOrder, OpenOrBetween, ExitsEmpty, At, Between, RpcState, MonitorState,
          WorkPc, ShutdownPc
  <1>1. ASSUME NEW s \in Slot, Create(s) PROVE LiveInv'
    <2>1. /\ fault = "none" /\ rpc.pc = "idle"
          /\ rpc' = [pc |-> "create_count", slot |-> s, cut |-> rpc.cut]
          /\ UNCHANGED <<monitor, unfinished, fault>>
          /\ ~VMs[s].initialized
      BY <1>1 DEF Create, RpcStep, Quiet
    <2>2. /\ \A t \in Slot : t # s => VMs'[t] = VMs[t]
          /\ VMs'[s].running = VMs[s].running
          /\ VMs'[s].perf_open = VMs[s].perf_open
          /\ VMs'[s].agent = VMs[s].agent
          /\ VMs'[s].initialized
          /\ VMs'[s].core_set
      BY <1>0, <1>1 DEF Create, VmsTyped, VmState
    <2>3. RunningIsWhole'
      BY <1>0, <2>1, <2>2
    <2>4. RpcPlace'
      BY <1>0, <2>1, <2>2
    <2>5. CoresPresent'
      BY <1>0, <2>1, <2>2
    <2>6. StoppedUnderMonitor'
      BY <1>0, <2>1, <2>2
    <2>7. EndsInOrder'
      BY <1>0, <2>1, <2>2
    <2>8. OpenOrBetween'
      BY <1>0, <2>1, <2>2
    <2>9. ExitsEmpty'
      BY <1>0, <2>1, <2>2
    <2> QED
      BY <2>3, <2>4, <2>5, <2>6, <2>7, <2>8, <2>9
  <1>2. ASSUME NEW s \in Slot, StartPerf(s) PROVE LiveInv'
    <2>1. /\ fault = "none" /\ rpc.pc = "idle"
          /\ rpc' = [pc |-> "start_agent", slot |-> s, cut |-> rpc.cut]
          /\ UNCHANGED <<monitor, unfinished, fault>>
          /\ VMs[s].initialized /\ ~VMs[s].running
      BY <1>2 DEF StartPerf, RpcStep, Quiet
    <2>2. /\ \A t \in Slot : t # s => VMs'[t] = VMs[t]
          /\ VMs'[s].initialized = VMs[s].initialized
          /\ VMs'[s].running = VMs[s].running
          /\ VMs'[s].core_set = VMs[s].core_set
          /\ VMs'[s].agent = VMs[s].agent
          /\ VMs'[s].perf_open
      <3>1. VMs' = [VMs EXCEPT ![s].perf_open = TRUE] /\ VMs \in [Slot -> VmState]
        BY <1>2 DEF StartPerf, VmsTyped
      <3> QED
        BY <3>1 DEF VmState
    <2>3. RunningIsWhole'
      BY <1>0, <2>1, <2>2
    <2>4. RpcPlace'
      BY <1>0, <2>1, <2>2
    <2>5. CoresPresent'
      BY <1>0, <2>1, <2>2
    <2>6. StoppedUnderMonitor'
      BY <1>0, <2>1, <2>2
    <2>7. EndsInOrder'
      BY <1>0, <2>1, <2>2
    <2>8. OpenOrBetween'
      BY <1>0, <2>1, <2>2
    <2>9. ExitsEmpty'
      BY <1>0, <2>1, <2>2
    <2> QED
      BY <2>3, <2>4, <2>5, <2>6, <2>7, <2>8, <2>9
  <1>3. ASSUME StartAgent(rpc.slot) PROVE LiveInv'
    <2>1. /\ rpc.pc = "start_agent" /\ fault = "none"
          /\ UNCHANGED <<monitor, unfinished, fault>>
      BY <1>3 DEF StartAgent, RpcStep, Quiet
    <2>2. \/ /\ rpc' = [pc |-> "start_flag", slot |-> rpc.slot, cut |-> rpc.cut]
             /\ VMs'[rpc.slot].perf_open = VMs[rpc.slot].perf_open
             /\ VMs'[rpc.slot].agent = "connected"
          \/ /\ rpc' = [pc |-> "idle", slot |-> rpc.slot, cut |-> rpc.cut]
             /\ ~VMs'[rpc.slot].perf_open
             /\ VMs'[rpc.slot].agent = VMs[rpc.slot].agent
      BY <1>0, <1>3 DEF StartAgent, RpcStep, VmsTyped, VmState
    <2>3. /\ \A t \in Slot : t # rpc.slot => VMs'[t] = VMs[t]
          /\ VMs'[rpc.slot].initialized = VMs[rpc.slot].initialized
          /\ VMs'[rpc.slot].running = VMs[rpc.slot].running
          /\ VMs'[rpc.slot].core_set = VMs[rpc.slot].core_set
      BY <1>0, <1>3 DEF StartAgent, VmsTyped, VmState
    <2>4. RunningIsWhole'
      BY <1>0, <2>1, <2>2, <2>3
    <2>5. RpcPlace'
      BY <1>0, <2>1, <2>2, <2>3
    <2>6. CoresPresent'
      BY <1>0, <2>1, <2>2, <2>3
    <2>7. StoppedUnderMonitor'
      BY <1>0, <2>1, <2>2, <2>3
    <2>8. EndsInOrder'
      BY <1>0, <2>1, <2>2, <2>3
    <2>9. OpenOrBetween'
      BY <1>0, <2>1, <2>2, <2>3
    <2>10. ExitsEmpty'
      BY <1>0, <2>1, <2>2, <2>3
    <2> QED
      BY <2>4, <2>5, <2>6, <2>7, <2>8, <2>9, <2>10
  <1>4. ASSUME StartFlag(rpc.slot) PROVE LiveInv'
    <2>1. /\ fault = "none" /\ rpc.pc = "start_flag"
          /\ rpc' = [pc |-> "idle", slot |-> rpc.slot, cut |-> rpc.cut]
          /\ UNCHANGED <<monitor, unfinished, fault>>
      BY <1>4 DEF StartFlag, RpcStep, Quiet
    <2>2. /\ \A t \in Slot : t # rpc.slot => VMs'[t] = VMs[t]
          /\ VMs'[rpc.slot].initialized = VMs[rpc.slot].initialized
          /\ VMs'[rpc.slot].core_set = VMs[rpc.slot].core_set
          /\ VMs'[rpc.slot].perf_open = VMs[rpc.slot].perf_open
          /\ VMs'[rpc.slot].agent = VMs[rpc.slot].agent
          /\ VMs'[rpc.slot].running
      BY <1>0, <1>4 DEF StartFlag, VmsTyped, VmState
    <2>3. RunningIsWhole'
      BY <1>0, <2>1, <2>2
    <2>4. RpcPlace'
      BY <1>0, <2>1, <2>2
    <2>5. CoresPresent'
      BY <1>0, <2>1, <2>2
    <2>6. StoppedUnderMonitor'
      BY <1>0, <2>1, <2>2
    <2>7. EndsInOrder'
      BY <1>0, <2>1, <2>2
    <2>8. OpenOrBetween'
      BY <1>0, <2>1, <2>2
    <2>9. ExitsEmpty'
      BY <1>0, <2>1, <2>2
    <2> QED
      BY <2>3, <2>4, <2>5, <2>6, <2>7, <2>8, <2>9
  <1>5. ASSUME NEW s \in Slot, StopFlag(s) PROVE LiveInv'
    <2>1. /\ fault = "none" /\ rpc.pc = "idle" /\ VMs[s].running
          /\ rpc' = [pc |-> "stop_sleep", slot |-> s, cut |-> rpc.cut]
          /\ UNCHANGED <<monitor, fault>>
          /\ monitor.pc # "sleep" => unfinished'
      BY <1>5 DEF StopFlag, RpcStep
    <2>2. /\ \A t \in Slot : t # s => VMs'[t] = VMs[t]
          /\ VMs'[s].initialized = VMs[s].initialized
          /\ VMs'[s].core_set = VMs[s].core_set
          /\ VMs'[s].perf_open = VMs[s].perf_open
          /\ VMs'[s].agent = VMs[s].agent
          /\ ~VMs'[s].running
      BY <1>0, <1>5 DEF StopFlag, VmsTyped, VmState
    <2>3. RunningIsWhole'
      BY <1>0, <2>1, <2>2
    <2>4. RpcPlace'
      BY <1>0, <2>1, <2>2
    <2>5. CoresPresent'
      BY <1>0, <2>1, <2>2
    <2>6. StoppedUnderMonitor'
      BY <1>0, <2>1, <2>2
    <2>7. EndsInOrder'
      BY <1>0, <2>1, <2>2
    <2>8. OpenOrBetween'
      BY <1>0, <2>1, <2>2
    <2>9. ExitsEmpty'
      BY <1>0, <2>1, <2>2
    <2> QED
      BY <2>3, <2>4, <2>5, <2>6, <2>7, <2>8, <2>9
  <1>6. ASSUME StopWake(rpc.slot) PROVE LiveInv'
    <2>1. /\ fault = "none" /\ rpc.pc = "stop_sleep"
          /\ rpc' = [pc |-> "stop_agent", slot |-> rpc.slot, cut |-> rpc.cut]
          /\ UNCHANGED <<monitor, unfinished, fault>>
          /\ UNCHANGED VMs
      BY <1>6 DEF StopWake, RpcStep, Quiet
    <2>2. RunningIsWhole'
      BY <1>0, <2>1
    <2>3. RpcPlace'
      BY <1>0, <2>1
    <2>4. CoresPresent'
      BY <1>0, <2>1
    <2>5. StoppedUnderMonitor'
      BY <1>0, <2>1
    <2>6. EndsInOrder'
      BY <1>0, <2>1
    <2>7. OpenOrBetween'
      BY <1>0, <2>1
    <2>8. ExitsEmpty'
      BY <1>0, <2>1
    <2> QED
      BY <2>2, <2>3, <2>4, <2>5, <2>6, <2>7, <2>8
  <1>7. ASSUME StopAgent(rpc.slot) PROVE LiveInv'
    <2>1. /\ rpc.pc = "stop_agent" /\ rpc'.pc = "stop_perf" /\ rpc'.slot = rpc.slot
          /\ monitor'.pc = monitor.pc \/ monitor'.pc = "stuck"
          /\ monitor'.slot = monitor.slot
          /\ UNCHANGED <<unfinished, fault>>
      BY <1>0, <1>7 DEF StopAgent, Quiet
    <2>2. /\ \A t \in Slot : t # rpc.slot => VMs'[t] = VMs[t]
          /\ VMs'[rpc.slot].initialized = VMs[rpc.slot].initialized
          /\ VMs'[rpc.slot].running = VMs[rpc.slot].running
          /\ VMs'[rpc.slot].core_set = VMs[rpc.slot].core_set
          /\ VMs'[rpc.slot].perf_open = VMs[rpc.slot].perf_open
          /\ VMs'[rpc.slot].agent = "closed"
      BY <1>0, <1>7 DEF StopAgent, VmsTyped, VmState
    <2>3. RunningIsWhole'
      BY <1>0, <2>1, <2>2
    <2>4. RpcPlace'
      BY <1>0, <2>1, <2>2
    <2>5. CoresPresent'
      BY <1>0, <2>1, <2>2
    <2>6. StoppedUnderMonitor'
      BY <1>0, <2>1, <2>2
    <2>7. EndsInOrder'
      BY <1>0, <2>1, <2>2
    <2>8. OpenOrBetween'
      BY <1>0, <2>1, <2>2
    <2>9. ExitsEmpty'
      BY <1>0, <2>1, <2>2
    <2> QED
      BY <2>3, <2>4, <2>5, <2>6, <2>7, <2>8, <2>9
  <1>8. ASSUME StopPerf(rpc.slot) PROVE LiveInv'
    <2>1. /\ fault = "none" /\ rpc.pc = "stop_perf"
          /\ rpc' = [pc |-> "idle", slot |-> rpc.slot, cut |-> rpc.cut]
          /\ UNCHANGED <<monitor, unfinished, fault>>
      BY <1>8 DEF StopPerf, RpcStep, Quiet
    <2>2. /\ \A t \in Slot : t # rpc.slot => VMs'[t] = VMs[t]
          /\ VMs'[rpc.slot].initialized = VMs[rpc.slot].initialized
          /\ VMs'[rpc.slot].running = VMs[rpc.slot].running
          /\ VMs'[rpc.slot].core_set = VMs[rpc.slot].core_set
          /\ VMs'[rpc.slot].agent = VMs[rpc.slot].agent
          /\ ~VMs'[rpc.slot].perf_open
      BY <1>0, <1>8 DEF StopPerf, VmsTyped, VmState
    <2>3. RunningIsWhole'
      BY <1>0, <2>1, <2>2
    <2>4. RpcPlace'
      BY <1>0, <2>1, <2>2
    <2>5. CoresPresent'
      BY <1>0, <2>1, <2>2
    <2>6. StoppedUnderMonitor'
      BY <1>0, <2>1, <2>2
    <2>7. EndsInOrder'
      BY <1>0, <2>1, <2>2
    <2>8. OpenOrBetween'
      BY <1>0, <2>1, <2>2
    <2>9. ExitsEmpty'
      BY <1>0, <2>1, <2>2
    <2> QED
      BY <2>3, <2>4, <2>5, <2>6, <2>7, <2>8, <2>9
  <1>9. ASSUME NEW s \in Slot, DestroyWipe(s) PROVE LiveInv'
    <2>1. /\ fault = "none" /\ rpc.pc = "idle"
          /\ rpc' = [pc |-> "destroy_free", slot |-> s, cut |-> rpc.cut]
          /\ UNCHANGED <<monitor, unfinished, fault>>
          /\ VMs[s].initialized /\ ~VMs[s].running
      BY <1>9 DEF DestroyWipe, RpcStep, Quiet
    <2>2. /\ \A t \in Slot : t # s => VMs'[t] = VMs[t]
          /\ VMs'[s].initialized = VMs[s].initialized
          /\ VMs'[s].running = VMs[s].running
          /\ VMs'[s].perf_open = VMs[s].perf_open
          /\ VMs'[s].agent = VMs[s].agent
          /\ ~VMs'[s].core_set
      <3>1. VMs' = [VMs EXCEPT ![s].core_set = FALSE] /\ VMs \in [Slot -> VmState]
        BY <1>9 DEF DestroyWipe, VmsTyped
      <3> QED
        BY <3>1 DEF VmState
    <2>3. RunningIsWhole'
      BY <1>0, <2>1, <2>2
    <2>4. RpcPlace'
      BY <1>0, <2>1, <2>2
    <2>5. CoresPresent'
      BY <1>0, <2>1, <2>2
    <2>6. StoppedUnderMonitor'
      BY <1>0, <2>1, <2>2
    <2>7. EndsInOrder'
      BY <1>0, <2>1, <2>2
    <2>8. OpenOrBetween'
      BY <1>0, <2>1, <2>2
    <2>9. ExitsEmpty'
      BY <1>0, <2>1, <2>2
    <2> QED
      BY <2>3, <2>4, <2>5, <2>6, <2>7, <2>8, <2>9
  <1>10. ASSUME DestroyFree(rpc.slot) PROVE LiveInv'
    <2>1. /\ fault = "none" /\ rpc.pc = "destroy_free"
          /\ rpc' = [pc |-> "idle", slot |-> rpc.slot, cut |-> rpc.cut]
          /\ UNCHANGED <<monitor, unfinished, fault>>
      BY <1>10 DEF DestroyFree, RpcStep, Quiet
    <2>2. /\ \A t \in Slot : t # rpc.slot => VMs'[t] = VMs[t]
          /\ VMs'[rpc.slot].running = VMs[rpc.slot].running
          /\ VMs'[rpc.slot].core_set = VMs[rpc.slot].core_set
          /\ VMs'[rpc.slot].perf_open = VMs[rpc.slot].perf_open
          /\ VMs'[rpc.slot].agent = VMs[rpc.slot].agent
          /\ ~VMs'[rpc.slot].initialized
      BY <1>0, <1>10 DEF DestroyFree, VmsTyped, VmState
    <2>3. RunningIsWhole'
      BY <1>0, <2>1, <2>2
    <2>4. RpcPlace'
      BY <1>0, <2>1, <2>2
    <2>5. CoresPresent'
      BY <1>0, <2>1, <2>2
    <2>6. StoppedUnderMonitor'
      BY <1>0, <2>1, <2>2
    <2>7. EndsInOrder'
      BY <1>0, <2>1, <2>2
    <2>8. OpenOrBetween'
      BY <1>0, <2>1, <2>2
    <2>9. ExitsEmpty'
      BY <1>0, <2>1, <2>2
    <2> QED
      BY <2>3, <2>4, <2>5, <2>6, <2>7, <2>8, <2>9
  <1>11. ASSUME NEW s \in Slot, GetMemInfo(s) PROVE LiveInv'
    <2>1. /\ rpc.pc = "idle" /\ fault = "none" /\ UNCHANGED <<monitor, unfinished>>
          /\ rpc'.pc = "recv_mem" \/ rpc' = rpc
      BY <1>0, <1>11 DEF GetMemInfo, BrokenPipe, Quiet
    <2>2. \A t \in Slot : Kept(t)
      BY <1>0, <1>11 DEF GetMemInfo, BrokenPipe, VmsTyped, VmState, Kept
    <2>3. RunningIsWhole'
      BY <1>0, <2>1, <2>2 DEF Kept
    <2>4. RpcPlace'
      BY <1>0, <2>1, <2>2 DEF Kept
    <2>5. CoresPresent'
      BY <1>0, <2>1, <2>2 DEF Kept
    <2>6. StoppedUnderMonitor'
      BY <1>0, <2>1, <2>2 DEF Kept
    <2>7. EndsInOrder'
      BY <1>0, <2>1, <2>2 DEF Kept
    <2>8. OpenOrBetween'
      BY <1>0, <2>1, <2>2 DEF Kept
    <2>9. ExitsEmpty'
      BY <1>0, <2>1, <2>2 DEF Kept
    <2> QED
      BY <2>3, <2>4, <2>5, <2>6, <2>7, <2>8, <2>9
  <1>12. ASSUME RecvMemInfo PROVE LiveInv'
    <2>1. /\ rpc.pc = "recv_mem" /\ rpc'.pc = "idle"
          /\ UNCHANGED <<monitor, unfinished, fault>>
      BY <1>12 DEF RecvMemInfo, RpcStep, Quiet
    <2>2. \A t \in Slot : Kept(t)
      BY <1>0, <1>12, AnswerTaken DEF RecvMemInfo
    <2>3. RunningIsWhole'
      BY <1>0, <2>1, <2>2 DEF Kept
    <2>4. RpcPlace'
      BY <1>0, <2>1, <2>2 DEF Kept
    <2>5. CoresPresent'
      BY <1>0, <2>1, <2>2 DEF Kept
    <2>6. StoppedUnderMonitor'
      BY <1>0, <2>1, <2>2 DEF Kept
    <2>7. EndsInOrder'
      BY <1>0, <2>1, <2>2 DEF Kept
    <2>8. OpenOrBetween'
      BY <1>0, <2>1, <2>2 DEF Kept
    <2>9. ExitsEmpty'
      BY <1>0, <2>1, <2>2 DEF Kept
    <2> QED
      BY <2>3, <2>4, <2>5, <2>6, <2>7, <2>8, <2>9
  <1>13. ASSUME Signal PROVE LiveInv'
    <2>1. /\ rpc.pc \notin ShutdownPc /\ rpc'.pc = "join" /\ rpc'.cut = rpc.pc
          /\ rpc'.slot = rpc.slot
          /\ UNCHANGED <<VMs, monitor, unfinished>>
      BY <1>0, <1>13 DEF Signal
    <2>2. RunningIsWhole'
      BY <1>0, <2>1
    <2>3. RpcPlace'
      BY <1>0, <2>1
    <2>4. CoresPresent'
      BY <1>0, <2>1
    <2>5. StoppedUnderMonitor'
      BY <1>0, <2>1
    <2>6. EndsInOrder'
      BY <1>0, <2>1
    <2>7. OpenOrBetween'
      BY <1>0, <2>1
    <2>8. ExitsEmpty'
      BY <1>0, <2>1
    <2> QED
      BY <2>2, <2>3, <2>4, <2>5, <2>6, <2>7, <2>8
  <1>14. ASSUME Join PROVE LiveInv'
    <2>1. /\ rpc.pc = "join" /\ monitor.pc = "exited"
          /\ rpc' = [pc |-> "stop_all", slot |-> rpc.slot, cut |-> rpc.cut]
          /\ UNCHANGED <<VMs, monitor, unfinished>>
      BY <1>0, <1>14 DEF Join, RpcStep, Quiet
    <2>2. RunningIsWhole'
      BY <1>0, <2>1
    <2>3. RpcPlace'
      BY <1>0, <2>1
    <2>4. CoresPresent'
      BY <1>0, <2>1
    <2>5. StoppedUnderMonitor'
      BY <1>0, <2>1
    <2>6. EndsInOrder'
      BY <1>0, <2>1
    <2>7. OpenOrBetween'
      BY <1>0, <2>1
    <2>8. ExitsEmpty'
      BY <1>0, <2>1
    <2> QED
      BY <2>2, <2>3, <2>4, <2>5, <2>6, <2>7, <2>8
  <1>15. ASSUME SecondSignal PROVE LiveInv'
    <2>1. /\ rpc.pc = "join" /\ monitor'.pc = "handler"
          /\ UNCHANGED <<VMs, rpc, unfinished>>
      BY <1>0, <1>15 DEF SecondSignal
    <2>2. RunningIsWhole'
      BY <1>0, <2>1
    <2>3. RpcPlace'
      BY <1>0, <2>1
    <2>4. CoresPresent'
      BY <1>0, <2>1
    <2>5. StoppedUnderMonitor'
      BY <1>0, <2>1
    <2>6. EndsInOrder'
      BY <1>0, <2>1
    <2>7. OpenOrBetween'
      BY <1>0, <2>1
    <2>8. ExitsEmpty'
      BY <1>0, <2>1
    <2> QED
      BY <2>2, <2>3, <2>4, <2>5, <2>6, <2>7, <2>8
  <1>16. ASSUME StopAll PROVE LiveInv'
    <2>1. /\ rpc' = [pc |-> "exited", slot |-> rpc.slot, cut |-> rpc.cut]
          /\ rpc.pc \in {"stop_all", "join"} /\ UNCHANGED monitor
          /\ rpc.pc = "stop_all" \/ monitor.pc = "handler"
      BY <1>16 DEF StopAll, RpcStep
    <2>2. /\ monitor.pc \in {"exited", "handler"}
          /\ rpc'.slot = rpc.slot /\ rpc'.cut = rpc.cut /\ rpc'.pc = "exited"
          /\ At' = At
      BY <2>1
    <2>3. \A t \in Slot : ~VMs'[t].running
                          /\ (VMs'[t].initialized => t = rpc.slot /\ rpc.cut = "create_count")
      <3>1. CASE NoneCounted
        <4>1. \A t \in Slot : VMs'[t] = VMs[t]
          BY <1>16, <3>1, StoppedSlot
        <4>2. \A t \in Slot : VMs[t].initialized => t = rpc.slot /\ rpc.cut = "create_count"
          BY <3>1 DEF NoneCounted
        <4>3. rpc.cut = "create_count" => ~VMs[rpc.slot].running
          BY <2>1
        <4> QED
          BY <4>1, <4>2, <4>3
      <3>2. CASE ~NoneCounted
        BY <1>16, <3>2, StoppedSlot
      <3> QED
        BY <3>1, <3>2
    <2>4. RunningIsWhole' /\ RpcPlace' /\ CoresPresent' /\ ExitsEmpty'
      BY <1>0, <2>2, <2>3
    <2>5. StoppedUnderMonitor' /\ EndsInOrder'
      BY <2>1, <2>2
    <2>6. OpenOrBetween'
      <3> SUFFICES ASSUME NEW t \in Slot, VMs'[t].perf_open \/ VMs'[t].agent # "closed"
                   PROVE  t = rpc.slot /\ At \in Between
        BY <2>2
      <3>1. \/ VMs'[t] = VMs[t]
            \/ /\ ~VMs[t].running
               /\ VMs'[t].perf_open = VMs[t].perf_open /\ VMs'[t].agent = VMs[t].agent
        BY <1>16, StoppedSlot
      <3>2. ~VMs'[t].running
        BY <2>3
      <3> QED
        BY <3>1, <3>2
    <2> QED
      BY <2>4, <2>5, <2>6
  <1>17. ASSUME BeginIteration PROVE LiveInv'
    <2>1. /\ UNCHANGED <<VMs, rpc, unfinished>> /\ monitor.pc = "sleep"
          /\ monitor'.pc \in {"check", "exited"}
      BY <1>0, <1>17 DEF BeginIteration
    <2>2. RunningIsWhole'
      BY <1>0, <2>1
    <2>3. RpcPlace'
      BY <1>0, <2>1
    <2>4. CoresPresent'
      BY <1>0, <2>1
    <2>5. StoppedUnderMonitor'
      BY <1>0, <2>1
    <2>6. EndsInOrder'
      BY <1>0, <2>1
    <2>7. OpenOrBetween'
      BY <1>0, <2>1
    <2>8. ExitsEmpty'
      BY <1>0, <2>1
    <2> QED
      BY <2>2, <2>3, <2>4, <2>5, <2>6, <2>7, <2>8
  <1>18. ASSUME Check PROVE LiveInv'
    <2>1. /\ UNCHANGED <<VMs, rpc>> /\ monitor.pc = "check"
          /\ \/ monitor'.pc \in {"check", "sleep"}
             \/ /\ monitor'.pc = "use" /\ monitor'.slot = monitor.slot
                /\ VMs[monitor.slot].running
      BY <1>0, <1>18, AdvanceTyped DEF Check
    <2>2. RunningIsWhole'
      BY <1>0, <2>1
    <2>3. RpcPlace'
      BY <1>0, <2>1
    <2>4. CoresPresent'
      BY <1>0, <2>1
    <2>5. StoppedUnderMonitor'
      BY <1>0, <2>1
    <2>6. EndsInOrder'
      BY <1>0, <2>1
    <2>7. OpenOrBetween'
      BY <1>0, <2>1
    <2>8. ExitsEmpty'
      BY <1>0, <2>1
    <2> QED
      BY <2>2, <2>3, <2>4, <2>5, <2>6, <2>7, <2>8
  <1>19. ASSUME AskAgent PROVE LiveInv'
    <2>1. /\ UNCHANGED rpc /\ monitor.pc = "use"
          /\ \/ monitor'.pc \in {"check", "sleep"}
             \/ /\ monitor'.pc \in {"use", "recv"} /\ monitor'.slot = monitor.slot
                /\ UNCHANGED unfinished
      BY <1>0, <1>19, AdvanceTyped DEF AskAgent, BrokenPipe, Quiet
    <2>2. \A t \in Slot : Kept(t)
      BY <1>0, <1>19 DEF AskAgent, BrokenPipe, VmsTyped, VmState, Kept
    <2>3. RunningIsWhole'
      BY <1>0, <2>1, <2>2 DEF Kept
    <2>4. RpcPlace'
      BY <1>0, <2>1, <2>2 DEF Kept
    <2>5. CoresPresent'
      BY <1>0, <2>1, <2>2 DEF Kept
    <2>6. StoppedUnderMonitor'
      BY <1>0, <2>1, <2>2 DEF Kept
    <2>7. EndsInOrder'
      BY <1>0, <2>1, <2>2 DEF Kept
    <2>8. OpenOrBetween'
      BY <1>0, <2>1, <2>2 DEF Kept
    <2>9. ExitsEmpty'
      BY <1>0, <2>1, <2>2 DEF Kept
    <2> QED
      BY <2>3, <2>4, <2>5, <2>6, <2>7, <2>8, <2>9
  <1>20. ASSUME EnterRecv PROVE LiveInv'
    <2>1. /\ UNCHANGED <<VMs, rpc, unfinished>> /\ monitor.pc = "recv"
          /\ monitor'.pc \in {"recv", "wait"} /\ monitor'.slot = monitor.slot
      BY <1>0, <1>20 DEF EnterRecv
    <2>2. RunningIsWhole'
      BY <1>0, <2>1
    <2>3. RpcPlace'
      BY <1>0, <2>1
    <2>4. CoresPresent'
      BY <1>0, <2>1
    <2>5. StoppedUnderMonitor'
      BY <1>0, <2>1
    <2>6. EndsInOrder'
      BY <1>0, <2>1
    <2>7. OpenOrBetween'
      BY <1>0, <2>1
    <2>8. ExitsEmpty'
      BY <1>0, <2>1
    <2> QED
      BY <2>2, <2>3, <2>4, <2>5, <2>6, <2>7, <2>8
  <1>21. ASSUME LeaveRecv PROVE LiveInv'
    <2>1. /\ UNCHANGED rpc /\ monitor.pc = "wait"
          /\ monitor'.pc \in {"check", "sleep"}
      BY <1>0, <1>21, AdvanceTyped DEF LeaveRecv
    <2>2. \A t \in Slot : Kept(t)
      BY <1>0, <1>21, AnswerTaken DEF LeaveRecv
    <2>3. RunningIsWhole'
      BY <1>0, <2>1, <2>2 DEF Kept
    <2>4. RpcPlace'
      BY <1>0, <2>1, <2>2 DEF Kept
    <2>5. CoresPresent'
      BY <1>0, <2>1, <2>2 DEF Kept
    <2>6. StoppedUnderMonitor'
      BY <1>0, <2>1, <2>2 DEF Kept
    <2>7. EndsInOrder'
      BY <1>0, <2>1, <2>2 DEF Kept
    <2>8. OpenOrBetween'
      BY <1>0, <2>1, <2>2 DEF Kept
    <2>9. ExitsEmpty'
      BY <1>0, <2>1, <2>2 DEF Kept
    <2> QED
      BY <2>3, <2>4, <2>5, <2>6, <2>7, <2>8, <2>9
  <1>22. ASSUME Use PROVE LiveInv'
    <2>1. /\ UNCHANGED <<VMs, rpc>> /\ monitor.pc = "use"
          /\ \/ monitor'.pc \in {"check", "sleep"}
             \/ monitor' = monitor /\ UNCHANGED unfinished
      BY <1>0, <1>22, AdvanceTyped DEF Use
    <2>2. RunningIsWhole'
      BY <1>0, <2>1
    <2>3. RpcPlace'
      BY <1>0, <2>1
    <2>4. CoresPresent'
      BY <1>0, <2>1
    <2>5. StoppedUnderMonitor'
      BY <1>0, <2>1
    <2>6. EndsInOrder'
      BY <1>0, <2>1
    <2>7. OpenOrBetween'
      BY <1>0, <2>1
    <2>8. ExitsEmpty'
      BY <1>0, <2>1
    <2> QED
      BY <2>2, <2>3, <2>4, <2>5, <2>6, <2>7, <2>8
  <1>23. ASSUME NEW s \in Slot, QemuEnds(s) PROVE LiveInv'
    <2>1. /\ UNCHANGED <<rpc, monitor, unfinished>>
          /\ VMs[s].agent = "connected" /\ VMs'[s].agent = "hung_up"
      BY <1>0, <1>23 DEF QemuEnds, VmsTyped, VmState
    <2>2. /\ \A t \in Slot : t # s => VMs'[t] = VMs[t]
          /\ VMs'[s].initialized = VMs[s].initialized
          /\ VMs'[s].running = VMs[s].running
          /\ VMs'[s].core_set = VMs[s].core_set
          /\ VMs'[s].perf_open = VMs[s].perf_open
      BY <1>0, <1>23 DEF QemuEnds, VmsTyped, VmState
    <2>3. RunningIsWhole'
      BY <1>0, <2>1, <2>2
    <2>4. RpcPlace'
      BY <1>0, <2>1, <2>2
    <2>5. CoresPresent'
      BY <1>0, <2>1, <2>2
    <2>6. StoppedUnderMonitor'
      BY <1>0, <2>1, <2>2
    <2>7. EndsInOrder'
      BY <1>0, <2>1, <2>2
    <2>8. OpenOrBetween'
      BY <1>0, <2>1, <2>2
    <2>9. ExitsEmpty'
      BY <1>0, <2>1, <2>2
    <2> QED
      BY <2>3, <2>4, <2>5, <2>6, <2>7, <2>8, <2>9
  <1>24. ASSUME Unstick PROVE LiveInv'
    <2>1. /\ UNCHANGED <<VMs, rpc>> /\ monitor.pc = "stuck"
          /\ monitor'.pc \in {"check", "sleep"}
      BY <1>0, <1>24, AdvanceTyped DEF Unstick
    <2>2. RunningIsWhole'
      BY <1>0, <2>1
    <2>3. RpcPlace'
      BY <1>0, <2>1
    <2>4. CoresPresent'
      BY <1>0, <2>1
    <2>5. StoppedUnderMonitor'
      BY <1>0, <2>1
    <2>6. EndsInOrder'
      BY <1>0, <2>1
    <2>7. OpenOrBetween'
      BY <1>0, <2>1
    <2>8. ExitsEmpty'
      BY <1>0, <2>1
    <2> QED
      BY <2>2, <2>3, <2>4, <2>5, <2>6, <2>7, <2>8
  <1>25. CASE UNCHANGED vars
    BY <1>0, <1>25 DEF vars
  <1>26. ASSUME CreateCount(rpc.slot) PROVE LiveInv'
    <2>1. /\ fault = "none" /\ rpc.pc = "create_count"
          /\ rpc' = [pc |-> "idle", slot |-> rpc.slot, cut |-> rpc.cut]
          /\ UNCHANGED <<monitor, unfinished, fault>>
          /\ UNCHANGED VMs
      BY <1>26 DEF CreateCount, RpcStep, Quiet
    <2>2. RunningIsWhole'
      BY <1>0, <2>1
    <2>3. RpcPlace'
      BY <1>0, <2>1
    <2>4. CoresPresent'
      BY <1>0, <2>1
    <2>5. StoppedUnderMonitor'
      BY <1>0, <2>1
    <2>6. EndsInOrder'
      BY <1>0, <2>1
    <2>7. OpenOrBetween'
      BY <1>0, <2>1
    <2>8. ExitsEmpty'
      BY <1>0, <2>1
    <2> QED
      BY <2>2, <2>3, <2>4, <2>5, <2>6, <2>7, <2>8
  <1> QED
    BY <1>1, <1>2, <1>3, <1>4, <1>5, <1>6, <1>7, <1>8, <1>9, <1>10, <1>11,
       <1>12, <1>13, <1>14, <1>15, <1>16, <1>17, <1>18, <1>19, <1>20, <1>21,
       <1>22, <1>23, <1>24, <1>25, <1>26
    DEF Next, Request, RpcContinue, Monitor, Qemu

\* The invariant holds throughout.
LEMMA LiveAlways == Spec => [](TypeInv /\ LiveInv)
  <1> DEFINE Inv == TypeInv /\ LiveInv
  <1>1. Init => Inv
    BY InitTyped DEF Init, LiveInv, RunningIsWhole, RpcPlace, CoresPresent, At, Between,
       StoppedUnderMonitor, EndsInOrder, OpenOrBetween, ExitsEmpty, ShutdownPc
  <1>2. Inv /\ [Next]_vars => Inv'
    <2> SUFFICES ASSUME Inv, [Next]_vars PROVE Inv'
      OBVIOUS
    <2>1. TypeInv /\ LiveInv /\ TypeInv'
      BY NextTyped
    <2>2. LiveInv'
      BY <2>1, LiveStep DEF TypeInv
    <2> QED
      BY <2>1, <2>2
  <1> QED
    BY <1>1, <1>2, PTL DEF Spec

\* A fault of the monitor is one of EnterRecv or Use, at a VM whose flag is
\* cleared.
LEMMA FaultAtStopped ==
    ASSUME TypeInv, LiveInv, [Next]_vars, fault = "none", fault' \in Walk
    PROVE  unfinished /\ ~VMs[monitor.slot].running
  <1>1. monitor.slot \in Slot /\ monitor \in MonitorState
    BY DEF TypeInv, ControlTyped, MonitorState
  <1>2. VMs[monitor.slot].running =>
            VMs[monitor.slot].core_set /\ VMs[monitor.slot].perf_open
            /\ VMs[monitor.slot].agent # "closed"
    BY <1>1 DEF LiveInv, RunningIsWhole
  <1>3. CASE EnterRecv
    BY <1>2, <1>3 DEF EnterRecv, LiveInv, StoppedUnderMonitor, Walk
  <1>4. CASE Use
    BY <1>2, <1>4 DEF Use, Present, LiveInv, StoppedUnderMonitor, Walk
  <1>5. CASE ~EnterRecv /\ ~Use
    <2>1. fault' = fault \/ fault' = "sigpipe"
      BY <1>5 DEF Next, Request, RpcContinue, Monitor, Qemu, vars, Create, CreateCount,
         StartPerf, StartAgent, StartFlag, StopFlag, StopWake, StopAgent, StopPerf,
         DestroyWipe, DestroyFree, GetMemInfo, RecvMemInfo, BrokenPipe, RpcStep, Signal,
         Join, SecondSignal, StopAll, BeginIteration, Check, AskAgent, LeaveRecv,
         QemuEnds, Unstick
    <2> QED
      BY <2>1 DEF Walk
  <1> QED
    BY <1>3, <1>4, <1>5

\* The monitor finds a socket, a core set or perf events gone only at a VM whose
\* running flag stop-vm cleared in the iteration in progress, whatever the
\* requests, the agents and SIGINT do.
THEOREM OnlyStopTakesFromMonitor == Spec => MonitorOnlyRacesStop
  <1>1. TypeInv /\ LiveInv /\ [Next]_vars =>
           [fault = "none" /\ fault' \in Walk =>
               unfinished /\ ~VMs[monitor.slot].running]_vars
    BY FaultAtStopped
  <1> QED
    BY LiveAlways, <1>1, PTL DEF Spec, MonitorOnlyRacesStop

\* Wherever SIGINT interrupts the RPC thread, at exit() no VM runs, and what is
\* left open or in the table belongs to the VM whose request was cut.
THEOREM ShutdownLeavesLittle == Spec => []ShutdownLeavesOnlyTheCut
  <1>1. LiveInv => ShutdownLeavesOnlyTheCut
    BY DEF LiveInv, OpenOrBetween, ExitsEmpty, At, Between, ShutdownPc,
       ShutdownLeavesOnlyTheCut
  <1> QED
    BY LiveAlways, <1>1, PTL
=============================================================================
