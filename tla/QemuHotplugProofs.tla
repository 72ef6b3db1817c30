------------------------- MODULE QemuHotplugProofs -------------------------
(***************************************************************************)
(* attach-mem and detach-mem of one VM, for any memory devices, however    *)
(* QEMU, its guest and the requests interleave: a success answer is true,  *)
(* and successes leave no backend behind.                                  *)
(*                                                                         *)
(* A session holds at most one reply, and a reply that says "return" was   *)
(* written when the command took effect.  The effect lasts until the       *)
(* handler reads the reply, because only the command in progress, the end  *)
(* of QEMU, or a guest that was asked to, can undo it.                     *)
(***************************************************************************)
EXTENDS QemuHotplug, TLAPS

Message == {"return", "error", "event"}

ControlTyped ==
    /\ memory \subseteq MemId
    /\ op \in {"none", "attach", "detach"} /\ mem \in MemId /\ step \in Step
    /\ answer \in {"none", "success", "failure"} /\ failed \in BOOLEAN
    /\ session \in {"closed", "ready", "sent"}
    /\ result \in {"none", "return", "error"}
    /\ qemu \in BOOLEAN /\ died \in BOOLEAN

QemuTyped ==
    /\ objects \subseteq MemId
    /\ mapped \in [MemId -> Nat]
    /\ dimms \in [MemId -> {"absent", "plugged", "unplugging"}]

\* There is room for the reply until it is written.
InboxTyped ==
    /\ inbox \in Seq(Message)
    /\ Len(inbox) <= MaxEvents + 1
    /\ session # "closed" /\ result = "none" => Len(inbox) <= MaxEvents

\* A session belongs to a command, and a command to its request.
SessionInv ==
    /\ session # "closed" => step \in Commands
    /\ session = "ready" => result = "none"
    /\ step \in {"object-add", "device_add"} => op = "attach"
    /\ step \in {"device_del", "sleep", "object-del"} => op = "detach"

\* A "return" to be read is the reply to a command that was executed.
ReplyInv ==
    session # "closed" =>
        \A k \in 1 .. Len(inbox) : inbox[k] = "return" => result = "return"

\* The effect of an executed command lasts while QEMU runs.
EffectInv ==
    session = "sent" /\ result = "return" /\ qemu =>
        /\ step = "device_add" => dimms[mem] = "plugged"
        /\ step = "object-del" => mem \notin objects

\* A DIMM sits on its backend, and a QEMU that has ended has neither.
BackendInv ==
    /\ \A m \in MemId : dimms[m] # "absent" => m \in objects
    /\ ~qemu => objects = {}

\* As long as nothing failed, only the request in progress has a backend
\* without use, and only a detach in progress an unplugging DIMM.
LeftoverInv ==
    ~failed =>
        /\ \A m \in objects : InUse(m) \/ (m = mem /\ step # "idle")
        /\ \A m \in MemId : dimms[m] = "unplugging"
              => m = mem /\ step \in {"device_del", "sleep", "object-del"}

Inv == /\ ControlTyped /\ QemuTyped /\ InboxTyped /\ SessionInv
       /\ ReplyInv /\ EffectInv /\ BackendInv /\ LeftoverInv

\* The manager begins with no request and QEMU with its boot memory.
LEMMA InitInv == Init => Inv
  <1> SUFFICES ASSUME Init PROVE Inv
    OBVIOUS
  <1>1. ControlTyped
    BY DEF Init, ControlTyped, Step
  <1>2. QemuTyped
    BY BootMemAssumption, OffsetAssumption DEF Init, QemuTyped
  <1>3. InboxTyped
    BY MaxEventsAssumption DEF Init, InboxTyped
  <1>4. SessionInv /\ ReplyInv /\ EffectInv
    BY DEF Init, SessionInv, ReplyInv, EffectInv
  <1>5. objects = BootMem /\ qemu = TRUE /\ \A m \in MemId : dimms[m] = "absent"
    BY DEF Init
  <1>6. BackendInv /\ LeftoverInv
    BY <1>5 DEF BackendInv, LeftoverInv, InUse
  <1> QED
    BY <1>1, <1>2, <1>3, <1>4, <1>6 DEF Inv

\* A request starts from a place where nothing is left over.
LEMMA RequestInv ==
    ASSUME Inv, NEW m \in MemId,
           rpc_handle_attach_mem(m) \/ rpc_handle_detach_mem(m)
    PROVE  Inv'
  <1>1. /\ step = "idle" /\ session = "closed" /\ mem' = m
        /\ UNCHANGED <<memory, sessionVars, qemuVars, died>>
    BY DEF Inv, SessionInv, ControlTyped, rpc_handle_attach_mem, rpc_handle_detach_mem,
       Request, Commands
  <1>2. \/ op' = "attach" /\ step' \in {"object-add", "idle"}
        \/ op' = "detach" /\ step' \in {"device_del", "idle"}
    BY DEF rpc_handle_attach_mem, rpc_handle_detach_mem, Request, GoTo, Finish
  <1>3. /\ failed' = failed \/ failed' = TRUE
        /\ answer' = answer \/ answer' = "failure"
    BY DEF rpc_handle_attach_mem, rpc_handle_detach_mem, Request, GoTo, Finish,
       Inv, ControlTyped
  <1>4. ControlTyped'
    BY <1>1, <1>2, <1>3 DEF Inv, ControlTyped, sessionVars, qemuVars, Step
  <1>5. QemuTyped' /\ InboxTyped' /\ BackendInv'
    BY <1>1 DEF Inv, QemuTyped, InboxTyped, BackendInv, sessionVars, qemuVars
  <1>6. SessionInv' /\ ReplyInv' /\ EffectInv'
    BY <1>1, <1>2 DEF SessionInv, ReplyInv, EffectInv, sessionVars
  <1>7. LeftoverInv'
    BY <1>1, <1>3 DEF Inv, LeftoverInv, InUse, qemuVars
  <1> QED
    BY <1>4, <1>5, <1>6, <1>7 DEF Inv

\* What a command that ended does to the handler.
LEMMA AfterCommandTyped ==
    ASSUME Inv, NEW ok \in BOOLEAN, AfterCommand(ok)
    PROVE  /\ step' \in Step \ {"object-add", "device_del"}
           /\ answer' \in {"none", "success", "failure"} /\ failed' \in BOOLEAN
           /\ failed => failed'
           /\ step' = "device_add" => step = "object-add"
           /\ step' = "sleep" => step = "device_del"
           /\ step' # "object-del"
           /\ step' = "idle" /\ ~failed' =>
                 ok /\ step \in {"device_add", "object-del"} /\ answer' = "success"
           /\ step' = "idle" /\ answer' = "success" => ok
  BY DEF Inv, ControlTyped, AfterCommand, Finish, GoTo, Step

\* The reply read first tells of a command whose effect is still there.
LEMMA RecvInv == ASSUME Inv, Recv PROVE Inv'
  <1>0. /\ session = "sent" /\ session' = "closed" /\ inbox' = <<>> /\ result' = result
        /\ UNCHANGED <<memory, op, mem, qemu, objects, mapped, dimms, died>>
    BY DEF Recv, qemuVars
  <1> PICK ok \in BOOLEAN :
           /\ AfterCommand(ok)
           /\ ok => inbox # <<>> /\ Head(inbox) = "return"
    BY DEF Recv, is_response_success
  <1>1. ok /\ qemu => /\ step = "device_add" => dimms[mem] = "plugged"
                      /\ step = "object-del" => mem \notin objects
    <2> SUFFICES ASSUME ok, qemu
                 PROVE  /\ step = "device_add" => dimms[mem] = "plugged"
                        /\ step = "object-del" => mem \notin objects
      OBVIOUS
    <2>1. Len(inbox) >= 1 /\ inbox[1] = "return"
      BY DEF Inv, InboxTyped
    <2>2. 1 \in 1 .. Len(inbox)
      BY <2>1 DEF Inv, InboxTyped
    <2>3. result = "return"
      BY <1>0, <2>1, <2>2 DEF Inv, ReplyInv
    <2> QED
      BY <1>0, <2>3 DEF Inv, EffectInv
  <1>2. ControlTyped' /\ QemuTyped'
    BY <1>0, AfterCommandTyped DEF Inv, ControlTyped, QemuTyped
  <1>3. InboxTyped'
    BY <1>0, MaxEventsAssumption DEF InboxTyped
  <1>4. SessionInv' /\ ReplyInv' /\ EffectInv' /\ BackendInv'
    BY <1>0, AfterCommandTyped DEF Inv, SessionInv, ReplyInv, EffectInv, BackendInv
  <1>5. LeftoverInv'
    <2> SUFFICES ASSUME ~failed' PROVE LeftoverInv'
      BY DEF LeftoverInv
    <2>1. ~failed
      BY AfterCommandTyped
    <2>2. CASE step' # "idle"
      BY <1>0, <2>1, <2>2, AfterCommandTyped DEF Inv, LeftoverInv, InUse, Step
    <2>3. CASE step' = "idle"
      <3>1. ok /\ step \in {"device_add", "object-del"}
        BY <2>3, AfterCommandTyped
      <3>2. CASE ~qemu
        BY <1>0, <3>2 DEF Inv, BackendInv, LeftoverInv, QemuTyped
      <3>3. CASE qemu
        <4>1. \A m \in objects : InUse(m)
          BY <1>1, <2>1, <3>1, <3>3 DEF Inv, LeftoverInv, InUse
        <4>2. step = "device_add" => \A m \in MemId : dimms[m] # "unplugging"
          BY <2>1 DEF Inv, LeftoverInv
        <4>3. step = "object-del" => \A m \in MemId : dimms[m] # "unplugging"
          BY <1>1, <2>1, <3>1, <3>3 DEF Inv, LeftoverInv, BackendInv
        <4> QED
          BY <1>0, <3>1, <4>1, <4>2, <4>3 DEF LeftoverInv, InUse
      <3> QED
        BY <3>2, <3>3 DEF Inv, ControlTyped
    <2> QED
      BY <2>2, <2>3
  <1> QED
    BY <1>2, <1>3, <1>4, <1>5 DEF Inv

\* The other steps of the handler change nothing in QEMU.
LEMMA HandlerInv == ASSUME Inv, WakeUp \/ Handshake \/ HandshakeFails \/ Send PROVE Inv'
  <1>1. CASE WakeUp
    <2>1. /\ step = "sleep" /\ step' = "object-del" /\ answer' = answer /\ failed' = failed
          /\ UNCHANGED <<memory, op, mem, session, inbox, result, qemu, objects, mapped,
                         dimms, died>>
      BY <1>1 DEF WakeUp, GoTo, sessionVars, qemuVars
    <2>2. session = "closed"
      BY <2>1 DEF Inv, SessionInv, ControlTyped, Commands
    <2>3. ControlTyped' /\ QemuTyped' /\ InboxTyped' /\ SessionInv'
      BY <2>1, <2>2 DEF Inv, ControlTyped, QemuTyped, InboxTyped, SessionInv, Step
    <2>4. ReplyInv' /\ EffectInv' /\ BackendInv'
      BY <2>1, <2>2 DEF Inv, ReplyInv, EffectInv, BackendInv
    <2>5. LeftoverInv'
      BY <2>1 DEF Inv, LeftoverInv, InUse
    <2> QED
      BY <2>3, <2>4, <2>5 DEF Inv
  <1>2. CASE Handshake
    <2>1. /\ session' = "ready" /\ inbox' = <<>> /\ result' = "none" /\ step \in Commands
          /\ UNCHANGED <<memory, op, mem, step, answer, failed, qemu, objects, mapped,
                         dimms, died>>
      BY <1>2 DEF Handshake, handlerVars, qemuVars
    <2>2. ControlTyped' /\ QemuTyped' /\ SessionInv'
      BY <2>1 DEF Inv, ControlTyped, QemuTyped, SessionInv
    <2>3. InboxTyped'
      BY <2>1, MaxEventsAssumption DEF InboxTyped
    <2>4. ReplyInv' /\ EffectInv' /\ BackendInv' /\ LeftoverInv'
      BY <2>1 DEF Inv, ReplyInv, EffectInv, BackendInv, LeftoverInv, InUse
    <2> QED
      BY <2>2, <2>3, <2>4 DEF Inv
  <1>3. CASE HandshakeFails
    <2>1. /\ session = "closed"
          /\ UNCHANGED <<memory, op, mem, session, inbox, result, qemu, objects, mapped, dimms>>
      BY <1>3 DEF HandshakeFails, sessionVars, qemuVars
    <2>2. \/ step' = "idle" /\ failed' = TRUE /\ answer' = "failure" /\ died' = died
          \/ died' = TRUE /\ UNCHANGED <<step, answer, failed>>
      BY <1>3 DEF HandshakeFails, AfterCommand, Finish
    <2>3. ControlTyped' /\ QemuTyped' /\ InboxTyped' /\ SessionInv'
      BY <2>1, <2>2 DEF Inv, ControlTyped, QemuTyped, InboxTyped, SessionInv, Step
    <2>4. ReplyInv' /\ EffectInv' /\ BackendInv'
      BY <2>1 DEF Inv, ReplyInv, EffectInv, BackendInv
    <2>5. LeftoverInv'
      BY <2>1, <2>2 DEF Inv, LeftoverInv, InUse
    <2> QED
      BY <2>3, <2>4, <2>5 DEF Inv
  <1>4. CASE Send
    <2>1. /\ session = "ready" /\ session' = "sent" /\ died' = ~qemu
          /\ UNCHANGED <<memory, op, mem, step, answer, failed, inbox, result, qemu,
                         objects, mapped, dimms>>
      BY <1>4 DEF Send, handlerVars, qemuVars
    <2>2. result = "none" /\ \A k \in 1 .. Len(inbox) : inbox[k] # "return"
      BY <2>1 DEF Inv, SessionInv, ReplyInv
    <2>3. ControlTyped' /\ QemuTyped' /\ InboxTyped' /\ SessionInv'
      BY <2>1 DEF Inv, ControlTyped, QemuTyped, InboxTyped, SessionInv
    <2>4. ReplyInv' /\ EffectInv' /\ BackendInv' /\ LeftoverInv'
      BY <2>1, <2>2 DEF Inv, ReplyInv, EffectInv, BackendInv, LeftoverInv, InUse
    <2> QED
      BY <2>3, <2>4 DEF Inv
  <1> QED
    BY <1>1, <1>2, <1>3, <1>4

\* A command takes effect when its reply is written.
LEMMA ExecuteInv == ASSUME Inv, Execute PROVE Inv'
  <1>0. /\ qemu /\ session = "sent" /\ result = "none"
        /\ UNCHANGED <<memory, op, mem, step, answer, failed, session, qemu, died>>
    BY DEF Execute, Reply, handlerVars
  <1> PICK message \in {"return", "error"} :
           inbox' = Append(inbox, message) /\ result' = message
    BY DEF Execute, Reply
  <1>1. \/ ObjectAdd \/ DeviceAdd \/ DeviceDel \/ ObjectDel
        \/ result' = "error" /\ UNCHANGED <<objects, mapped, dimms>>
    BY DEF Execute, Reply
  <1>2. /\ inbox' \in Seq(Message) /\ Len(inbox') = Len(inbox) + 1
        /\ Len(inbox) <= MaxEvents /\ Len(inbox) \in Nat
        /\ \A k \in 1 .. Len(inbox) : inbox'[k] = inbox[k] /\ inbox[k] # "return"
        /\ inbox'[Len(inbox) + 1] = message
    BY <1>0, MaxEventsAssumption DEF Inv, InboxTyped, ReplyInv, Message
  <1>3. InboxTyped'
    BY <1>0, <1>2, MaxEventsAssumption DEF InboxTyped
  <1>4. SessionInv' /\ ReplyInv'
    BY <1>0, <1>2 DEF Inv, SessionInv, ReplyInv
  <1>5. ControlTyped'
    BY <1>0 DEF Inv, ControlTyped
  <1>6. mem \in MemId /\ 0 \in Nat
    BY DEF Inv, ControlTyped
  <1>7. CASE ObjectAdd
    <2>1. QemuTyped'
      BY <1>6, <1>7 DEF Inv, QemuTyped, ObjectAdd
    <2>2. EffectInv' /\ BackendInv' /\ LeftoverInv'
      BY <1>0, <1>6, <1>7 DEF Inv, ObjectAdd, EffectInv, BackendInv, LeftoverInv, InUse
    <2> QED
      BY <1>3, <1>4, <1>5, <2>1, <2>2 DEF Inv
  <1>8. CASE DeviceAdd
    <2>1. QemuTyped'
      BY <1>6, <1>8 DEF Inv, QemuTyped, DeviceAdd
    <2>2. EffectInv' /\ BackendInv' /\ LeftoverInv'
      BY <1>0, <1>6, <1>8
      DEF Inv, QemuTyped, DeviceAdd, EffectInv, BackendInv, LeftoverInv, InUse
    <2> QED
      BY <1>3, <1>4, <1>5, <2>1, <2>2 DEF Inv
  <1>9. CASE DeviceDel
    <2>1. QemuTyped'
      BY <1>6, <1>9 DEF Inv, QemuTyped, DeviceDel
    <2>2. EffectInv' /\ BackendInv' /\ LeftoverInv'
      BY <1>0, <1>6, <1>9
      DEF Inv, QemuTyped, DeviceDel, EffectInv, BackendInv, LeftoverInv, InUse
    <2> QED
      BY <1>3, <1>4, <1>5, <2>1, <2>2 DEF Inv
  <1>10. CASE ObjectDel
    <2>1. QemuTyped'
      BY <1>6, <1>10 DEF Inv, QemuTyped, ObjectDel
    <2>2. EffectInv' /\ BackendInv' /\ LeftoverInv'
      BY <1>0, <1>6, <1>10 DEF Inv, ObjectDel, EffectInv, BackendInv, LeftoverInv, InUse
    <2> QED
      BY <1>3, <1>4, <1>5, <2>1, <2>2 DEF Inv
  <1>11. CASE result' = "error" /\ UNCHANGED <<objects, mapped, dimms>>
    BY <1>0, <1>3, <1>4, <1>5, <1>11
    DEF Inv, QemuTyped, EffectInv, BackendInv, LeftoverInv, InUse
  <1> QED
    BY <1>1, <1>7, <1>8, <1>9, <1>10, <1>11

\* The guest lets go only of DIMMs it was asked for, and events are no replies.
LEMMA GuestInv == ASSUME Inv, NEW m \in MemId, GuestAnswers(m) PROVE Inv'
  <1>0. /\ qemu /\ dimms[m] = "unplugging"
        /\ UNCHANGED <<memory, op, mem, step, answer, failed, session, result, qemu,
                       objects, mapped, died>>
    BY DEF GuestAnswers, handlerVars
  <1>1. /\ dimms' \in [MemId -> {"absent", "plugged", "unplugging"}]
        /\ dimms'[m] \in {"absent", "plugged"}
        /\ \A n \in MemId : n # m => dimms'[n] = dimms[n]
    BY DEF GuestAnswers, Inv, QemuTyped
  <1>2. InboxTyped' /\ ReplyInv'
    <2>1. CASE UNCHANGED inbox
      BY <1>0, <2>1 DEF Inv, InboxTyped, ReplyInv
    <2>2. CASE session # "closed" /\ Len(inbox) < MaxEvents /\ inbox' = Append(inbox, "event")
      <3>1. /\ inbox' \in Seq(Message) /\ Len(inbox') = Len(inbox) + 1 /\ Len(inbox) \in Nat
            /\ \A k \in 1 .. Len(inbox) : inbox'[k] = inbox[k]
            /\ inbox'[Len(inbox) + 1] = "event"
        BY <2>2 DEF Inv, InboxTyped, Message
      <3>2. InboxTyped'
        BY <1>0, <2>2, <3>1, MaxEventsAssumption DEF InboxTyped
      <3>3. ReplyInv'
        BY <1>0, <3>1 DEF Inv, ReplyInv
      <3> QED
        BY <3>2, <3>3
    <2>3. Len(inbox) \in Nat
      BY DEF Inv, InboxTyped
    <2> QED
      BY <2>1, <2>2, <2>3, MaxEventsAssumption DEF GuestAnswers
  <1>3. ControlTyped' /\ QemuTyped' /\ SessionInv'
    BY <1>0, <1>1 DEF Inv, ControlTyped, QemuTyped, SessionInv
  <1>4. EffectInv' /\ BackendInv'
    BY <1>0, <1>1 DEF Inv, ControlTyped, EffectInv, BackendInv
  <1>5. LeftoverInv'
    BY <1>0, <1>1 DEF Inv, QemuTyped, LeftoverInv, InUse
  <1> QED
    BY <1>2, <1>3, <1>4, <1>5 DEF Inv

\* Every step keeps the invariant.
LEMMA NextInv == Inv /\ [Next]_vars => Inv'
  <1> SUFFICES ASSUME Inv, [Next]_vars PROVE Inv'
    OBVIOUS
  <1>1. CASE \E m \in MemId : rpc_handle_attach_mem(m) \/ rpc_handle_detach_mem(m)
    BY <1>1, RequestInv
  <1>2. CASE \E m \in MemId : rpc_handle_free_mem(m)
    <2>1. PICK m \in MemId : rpc_handle_free_mem(m)
      BY <1>2
    <2>2. /\ memory' \subseteq memory
          /\ UNCHANGED <<op, mem, step, answer, failed, session, inbox, result, qemu,
                         objects, mapped, dimms, died>>
      BY <2>1 DEF rpc_handle_free_mem, handlerVars, sessionVars, qemuVars
    <2> QED
      BY <2>2 DEF Inv, ControlTyped, QemuTyped, InboxTyped, SessionInv, ReplyInv,
                  EffectInv, BackendInv, LeftoverInv, InUse
  <1>3. CASE \E m \in MemId : GuestAnswers(m)
    BY <1>3, GuestInv
  <1>4. CASE Handler
    BY <1>4, HandlerInv, RecvInv DEF Handler
  <1>5. CASE Execute
    BY <1>5, ExecuteInv
  <1>6. CASE QemuExits
    <2>1. /\ qemu' = FALSE /\ objects' = {} /\ mapped' = mapped
          /\ dimms' = [m \in MemId |-> "absent"]
          /\ UNCHANGED <<memory, op, mem, step, answer, failed, session, inbox, result, died>>
      BY <1>6 DEF QemuExits, handlerVars, sessionVars
    <2>2. ControlTyped' /\ QemuTyped' /\ InboxTyped' /\ SessionInv'
      BY <2>1 DEF Inv, ControlTyped, QemuTyped, InboxTyped, SessionInv
    <2>3. ReplyInv' /\ EffectInv' /\ BackendInv' /\ LeftoverInv'
      BY <2>1 DEF Inv, ReplyInv, EffectInv, BackendInv, LeftoverInv
    <2> QED
      BY <2>2, <2>3 DEF Inv
  <1>7. CASE UNCHANGED vars
    BY <1>7 DEF vars, handlerVars, sessionVars, qemuVars, Inv, ControlTyped, QemuTyped,
       InboxTyped, SessionInv, ReplyInv, EffectInv, BackendInv, LeftoverInv, InUse
  <1> QED
    BY <1>1, <1>2, <1>3, <1>4, <1>5, <1>6, <1>7 DEF Next

\* A success answer comes from recv() alone, and its command has taken effect.
LEMMA SuccessIsTrue ==
    ASSUME Inv, [Next]_vars, step # "idle", step' = "idle", qemu, answer' = "success"
    PROVE  /\ UNCHANGED <<mem, objects, dimms>>
           /\ op = "attach" => dimms[mem] = "plugged"
           /\ op = "detach" => mem \notin objects
  <1>1. Recv
    <2>1. step' # step
      OBVIOUS
    <2>2. ~HandshakeFails
      BY DEF HandshakeFails, AfterCommand, Finish
    <2> QED
      BY <2>1, <2>2
      DEF Next, vars, Handler, handlerVars, WakeUp, GoTo, Handshake, Send, Execute, Reply,
          GuestAnswers, QemuExits, rpc_handle_attach_mem, rpc_handle_detach_mem,
          rpc_handle_free_mem, Request
  <1>2. session = "sent" /\ UNCHANGED <<mem, objects, dimms>>
    BY <1>1 DEF Recv, qemuVars
  <1>3. Head(inbox) = "return" /\ inbox # <<>> /\ step \in {"device_add", "object-del"}
    BY <1>1 DEF Recv, is_response_success, AfterCommand, Finish, GoTo
  <1>4. Len(inbox) >= 1 /\ inbox[1] = "return" /\ 1 \in 1 .. Len(inbox)
    BY <1>3 DEF Inv, InboxTyped
  <1>5. result = "return"
    BY <1>2, <1>4 DEF Inv, ReplyInv
  <1> QED
    BY <1>2, <1>3, <1>5 DEF Inv, EffectInv, SessionInv

-----------------------------------------------------------------------------
\* The handler, the session and QEMU keep their types: no session ever holds
\* more than one reply behind its events.
THEOREM HotplugTypes == Spec => []TypeOK
  <1>1. Inv => TypeOK
    BY DEF Inv, ControlTyped, QemuTyped, InboxTyped, Message, TypeOK
  <1> QED
    BY InitInv, NextInv, <1>1, PTL DEF Spec

\* Hotplug and hot-unplug undo each other: while every request succeeded, no
\* backend without a use is left in QEMU.
THEOREM SuccessesLeaveNothing == Spec => []NoLeftovers
  <1>1. Inv => NoLeftovers
    BY DEF Inv, LeftoverInv, NoLeftovers
  <1> QED
    BY InitInv, NextInv, <1>1, PTL DEF Spec

\* A client told "Hotplug memory success" has the memory plugged in.
THEOREM AttachSuccessIsTrue == Spec => AttachSuccessMeansPlugged
  <1>1. Inv /\ [Next]_vars
          => [Answers("attach") /\ answer' = "success"
                => mem \in objects' /\ dimms'[mem] = "plugged"]_vars
    BY SuccessIsTrue DEF Answers, Inv, BackendInv, ControlTyped
  <1> QED
    BY InitInv, NextInv, <1>1, PTL DEF Spec, AttachSuccessMeansPlugged

\* A client told "Hotunplug memory success" may free the memory: no DIMM and
\* no backend of it is left.
THEOREM DetachSuccessIsTrue == Spec => DetachSuccessMeansGone
  <1>1. Inv /\ [Next]_vars
          => [Answers("detach") /\ answer' = "success"
                => mem \notin objects' /\ dimms'[mem] = "absent"]_vars
    BY SuccessIsTrue DEF Answers, Inv, BackendInv, ControlTyped
  <1> QED
    BY InitInv, NextInv, <1>1, PTL DEF Spec, DetachSuccessMeansGone
=============================================================================
