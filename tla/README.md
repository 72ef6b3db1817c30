# A TLA+ development of RamRyder's resource manager

RamRyder gives virtual machines memory from a pool of DAX devices. Its
user-space part is a resource manager process (`src/src/`), a C client, and an
administration script (`src/admin/ramryder_cli`); the hypervisor and the guest
kernel are separate repositories. This directory models the resource manager and
its clients: TLA+ modules translated from the C and Python code, TLC configurations that check them on
small instances, and proofs, checked by TLAPS, that the central invariants hold
for every number of devices, segments, VMs and table entries.

## 1. The system

| Component | State | Operations | Hard behaviour |
|---|---|---|---|
| Memory pool (`memory_pool.c`) | per device an array of segments (free, or owned by a VM id) and a hand-kept `used_segments` | allocate, release a range, release all of a VM, report | the jumping first-fit search; a release that stops half way; three functions that each adjust the counter |
| VM manager (`vm_manager.c`) | a table of `MAX_NUM_VM` VMs, `count`, each VM's list of memory devices and its memdev counter | create, start, stop, destroy, alloc, free | several tables to keep in step; partial failure of start; `BUG_ON`s reachable through sequences of requests |
| Guest agents (`guest_agent.c`) | a table indexed by VM id, `count`, one socket per VM | init, cleanup, ask for memory info | one socket used by two threads, no timeout |
| RPC server (`resource_manager.c`) | listening socket; `cmd` and `args` live across requests | accept, recv, dispatch, send | one thread, blocking recv, SIGPIPE |
| RPC handlers, shutdown (`resource_manager.c`) | none of their own | one handler per command; `handle_signal` on SIGINT | SIGINT interrupts whatever the RPC thread does |
| Guest monitor (`guest_monitor.c`) | its `running` flag | every interval: walk the VM table, ask agents, read perf events | shares the VM table with the RPC thread without a lock |
| QEMU agent (`qemu_agent.c`) | none; QEMU keeps the objects and DIMMs | hotplug: object-add, device_add; hot-unplug: device_del, 3 s, object-del | partial failure, events in the reply's place, a slow guest, a QEMU that ends |
| Configuration (`memory_pool.c`, `guest_monitor.c`) | segment size, device list | parse once | division by zero, array bounds |
| Admin CLI (`ramryder_cli`) | none; plans on what `get-mem-pool` and `get-vms` said | create-vm, destroy-vm, attach-mem, detach-mem | check-then-act over RPC, several CLIs, rollback |
| RPC client (`resource_client.c`, `resource_mngr_rpc.py`) | none | connect, send, wait for the answer | may end while the server works for it |
| Utilities, scripts, tests | none | | |

How they interact. Clients and the CLI send one command per connection; the RPC
thread runs the handler to its end before it reads the next command. Handlers
call the VM manager, which calls the pool and the agent table. The monitor
thread reads the same VM table and uses the same agent sockets and perf events.
attach-mem and detach-mem make the RPC thread talk to QEMU in a QMP session per
command. SIGINT runs `handle_signal` on the main thread, which is the RPC thread.
Nothing is persisted: a manager that dies forgets every allocation.

What makes the components right:

* the pool: the search finds the lowest free window iff there is one and never
  reads outside the device; the counters are exact; a call touches the segments
  of one VM only;
* the VM manager: count, ids and flags of the table are consistent; running
  VMs, open perf events and connected agents are the same VMs; the pool's map
  and the lists of memory devices describe the same memory;
* the monitor: finds a socket, perf event or core set gone at no VM but one that
  is being stopped; does not wait for ever, nor keep shutdown waiting;
* shutdown: comes to its end and leaves nothing open but what it interrupted;
* the QEMU agent: a success answer can be relied on, a request is always
  answered, the memory plugged is the memory allocated;
* the RPC server: a request is handled at most once, as its client wrote it, and
  only its client gets the answer; no connection is forgotten; what a client left
  out is not taken from another;
* the configuration: the manager serves only with a pool cut as the file says;
* the admin CLI: memory in a running QEMU is held by its VM; a command that is
  over has left nothing behind; a command touches its own VM only; a request
  that can be placed on the channels is placed.

`PROJECT.json` lists every hazard with its line and the properties that cover
it; those without a property have a note that says what is missing.

## 2. Modules

    Segments            windows of segments (operators)
      SegmentSearch       the loop of find_free_segments
        SegmentSearchProofs
      MemoryPool          memory_pool.c
        MemoryPoolProofs
        VmManager           vm_manager.c and the agent table of guest_agent.c
          VmManagerProofs       (extends MemoryPoolProofs)
          ResourceManager     the RPC handlers
            ResourceManagerProofs   (extends VmManagerProofs)
            -- implements --> SegmentLease   the abstract lease specification
          RamryderCli         ramryder_cli, composed with VmManager and QEMUs
            ChannelPlan         its choice of memory channels (operators)
            RamryderCliProofs       (extends VmManagerProofs; covers ChannelPlan too)
    Config              the parser of elasticmm.conf (operators)
      RpcServer           start, RPC loop and clients
        RpcServerProofs
        -- implements --> RpcService         the abstract RPC service
    GuestMonitor        the monitor thread against the RPC thread, and the shutdown
      GuestMonitorProofs
    QemuHotplug         attach-mem and detach-mem against QEMU and its guest
      QemuHotplugProofs

Each `MC*` module gives the constants of the module it is named after.
Operations carry the names of the C functions. An operator marked as a *faulty
form* is a slip the code could have made. No specification uses it; substituted
for the correct definition it shows that a property can fail.

**SegmentSearch.** State: `allocated`, `request` (the call), `i`, `j` and
`result`, one action per branch of the two loops. `MemoryPool` uses the search by
its result (`FirstFreeWindow`); this module shows that the loop, which skips to
behind the allocated segment it hit, computes that result.

**MemoryPool.** `segments[n][k]` is the owner of segment *k* of device *n*, `-1`
for a free one (`allocated` and `used_vm_id` in one value: the code never sets
one without the other), and `used_segments[n]` the counter. Sizes and offsets are
in megabytes at the interface and converted as the code converts them, so
unaligned, zero and negative arguments take the code's error paths.
`release_segments` stops at the first segment that is not the caller's,
with those before it already free. `PoolSpec` calls the pool with any arguments,
as its test program does.

**VmManager.** `VMs`, `count`, `agents`, `agent_count` are the C tables. An
operation is an action with its return value as a parameter. Where the code
indexes the agent table with a VM id beyond it, the behaviour is undefined and
the model stops with `abort = "agent_index"`; a failed `BUG_ON` or assert stops it with
its own reason. `MaxMemdev` bounds the memdev indices of one VM life.

**ResourceManager.** One action per handler, with its argument checks; requests
also carry negative ids, nodes that do not exist, sizes of zero and malformed
lists. The states are those between two requests, as the RPC thread finishes one before
it reads the next. What can come in between, the monitor thread and SIGINT, is GuestMonitor's
subject.

**SegmentLease.** The promise to a client: leases of consecutive segments of one
device, disjoint, with ids never used twice in a VM's life, taken back as a
whole, all of a VM's when it is destroyed. ResourceManager's refinement mapping
turns the memory devices of live VMs into leases (`LeaseSpec`).

**Config.** The file is a sequence of lines of words, and a word is the set of the
numbers it stands for: one, or none if it does not parse. The parser is the fold
of `AfterLine` over the lines; the buffers of a line keep what the line before left
there, as on the stack of `memory_pool_load_config`. `Pool` is the number of segments of
each device, `PoolOutcome` how `memory_pool_init` ends: ready, an error, or the
division by a segment size that the file never gave.

**RpcServer.** One action per system call of `main` and `rpc_server_start`:
`InitPool`, `StartMonitor`, `Listen`, then `Accept`, `Recv`, `Dispatch`, `Send`.
`stack` holds `buffer`, `cmd` and `args`, of which only the first is cleared between
requests. Clients connect (as far as the backlog goes), send one command, wait, and
may be killed at any point; `send()` to one of these is the manager's SIGPIPE.
SIGINT comes at any place, before the monitor thread exists too. A handler is the entry it
makes in `handled`: ResourceManager says what handlers do. Clients may send an update
command with no arguments at all, as of `destroy-vm "$VM"` with an unset variable: `sscanf`
then leaves `args` as they were.

**RpcService.** The promise: a request is handled at most once, by its own command and with
its own arguments if it brought any, and answered to its client or to nobody. An update
without arguments acts on those of the last update handled before it: that is what the code
does, and finding 5 sets it against what the code means to do.

**ChannelPlan.** `split_memory`, `choose_allocations_for_tier` and its attach
variant as operators from what is free on the nodes to a plan, or none. A sort is the
enumeration of its keys in a strict order (`InOrder`), with the key itself to tell apart what
compares equal, as Python's sort is stable. `Placeable` is the
reference: some injective placement of the sizes fits.

**RamryderCli.** `cli[p]` is the command of operator *p*: its place, VM, plan and the
memory ids it was given. Each RPC is an action that performs the operation
of VmManager behind the handler, so that the commands of several operators
interleave as they do at the manager, and each of the script's decisions (`"success" in out`,
the `except` and `finally` blocks) is a choice of the next place. `qemu[vm]` is the
memory a QEMU was started with and its DIMMs. `left` records the VMs for
which the script's own design gives up cleaning: a killed command, a create-vm without a
free port, a detach-mem whose answer was a failure after the DIMM had gone. `given_up` are
the DIMMs that the rollback of attach-mem frees while they are plugged. Operators give any
command for any VM at any time. `crossed` records the VM ids for which this goes wrong by the
script's design: a destroy-vm given while create-vm is under way for the id, a command given
for an earlier VM of the id, and a create-vm interrupted by Ctrl-C between `Popen` and
`poll()`, whose `finally` block destroys the VM under its QEMU.

**GuestMonitor.** `rpc` and `monitor` are the program counters of the two
threads. A monitor walk tests a slot's flags in one step (`Check`) and uses what
they promise in later ones (`AskAgent`, `EnterRecv`, `Use`); start, stop and destroy are cut at
the places where another thread, or a signal handler, can see a difference. The sleep of
`vm_mngr_instance_stop` waits for nobody; `unfinished` says that the iteration in which
`running` was cleared is not over. SIGINT interrupts the RPC thread at any step, `cut`
keeps which, and what it was doing is not taken up again; `handle_signal` then waits in
`pthread_join`, and stops and destroys what the table shows.
`pending` counts the questions sent over a VM's socket whose answers no `recv()` has
returned. get-mem-info and the monitor both ask, and a `recv()` takes as many answers as it
pleases: a thread whose answer was taken waits on (`MonitorStarved`,
`RpcStarved`), and one whose socket is closed while it waits is `stuck` until QEMU
hangs up. A QEMU may end at any time; `send()` to its agent is then SIGPIPE.

**QemuHotplug.** `step` is the QMP command the handler is at; each command opens a
session, sends, and reads one message of `inbox`. QEMU executes commands on its
side, may refuse any, and may end at any point; the guest answers a `device_del` by
letting go of the DIMM or refusing, at any time, and QEMU then sends an event.
QEMU and the guest are external: their actions are modelled from what the four
commands need. A `send()` to a QEMU that has ended raises SIGPIPE (`died`).

## 3. What is checked

| Run | Instance | Shows |
|---|---|---|
| `segment_search` | every device of up to 7 segments in every allocation state, every request of up to 8 | the loop stays in bounds, ends, and returns the lowest free window or -1 |
| `memory_pool` | devices of 4 and 2 segments of 2 MB, one with an unusable rest; sizes and offsets from -1 to 8 MB; two VMs | exact counters after partial releases; one VM per call |
| `resource_manager` | three VM ids for two table entries, devices of two segments (and an unusable rest) and of one, two memory devices in a VM's life, 140 thousand states | table, agents and perf events in step; internal assertions never fail; the pool's map and the VMs' lists agree (`MemoryAccounted`); ResourceManager implements SegmentLease |
| `guest_monitor` | two VMs, 25 thousand states | the monitor finds something gone only at a VM stopped in the middle of its iteration; it and get-mem-info never both wait for answers that are gone, and a get-mem-info that waits in vain is given another chance; SIGINT at any step gets to `exit()` and leaves open only what it interrupted |
| `rpc_server` | three clients, a backlog of one, a query and an update with two arguments or none, six configuration files, 280 thousand states | RpcServer implements RpcService; every command sent is answered; the pool is cut as the file says |
| `ramryder_cli` | any two commands at a time for one VM id, a table with room for another, a local node of two segments and a CXL node of one, 470 thousand states; plans on all pools of three nodes with up to 4 MB free | memory in QEMUs is held, nothing is left over, one creator per VM, no placeable request is refused |
| `qemu_hotplug` | one boot device, two to plug, two unread messages | a success answer is true, successes leave nothing behind in QEMU, every request is answered |
| `stop_sleep` | as `guest_monitor` | finding 1 |
| `hotplug_response` | as `qemu_hotplug` | finding 2 |
| `hotplug_offset` | as `qemu_hotplug` | finding 3 |
| `minimal_config` | one client, a file with one device and no segment size | finding 4 |
| `stale_args` | two clients, a file the manager starts with | finding 5 |

*Why the bounds are enough.* Seven segments hold every pattern of free runs
around a request: runs before, between and after, too short or just long
enough. Devices of four segments give a hole between two allocations, and one that does not fit
although the free count would (`memory_pool`). Two table entries and three ids give a full table, a
refused create and a slot reused by another VM; a third entry adds no new case,
since each operation works on one slot and the first-free search is
distinguished by two. Two memory devices in a VM's life let an id be used again if it could,
and two VMs on three segments get each other's freed memory. Two memory devices in QEMU are needed for the event of one
to meet the command of the other; an unread message beyond the second changes
nothing because only the first is read. Three clients at a backlog of one are one
that is served, one that waits and one that cannot connect; two different
arguments tell a stale one from the right one. The six files put the segment
size before, behind and between the devices, make it or a device zero, leave the segment
size out, and put a short device line first and behind a long one. Two operators are a command
and one that crosses it. They work on one VM id, where three memory devices in
a VM's life and three segments let a plan become stale or fail at its second allocation,
and a freed segment be reused. get-vms may hide the VM (`ListedVms = 0`), so that two commands choose
its id; the table has a free entry, so that it is the id for which the second is refused. Commands for
different VMs meet only in the pool and in the choice of an id. What the bounds leave out is the subject of the proofs.

*Fairness.* `segment_search`: the loop runs. `guest_monitor`:
both threads are scheduled and guest agents answer (weak fairness of what a thread has begun);
the second is an assumption about the guest, since `recv()` in `send_guest_cmd` has no
timeout, and without it shutdown can hang. No request and no SIGINT has to come. Nothing is
assumed about who of two threads in `recv()` at one socket gets an answer: a get-mem-info may lose
every round to the monitor, and `AnotherAnswerComes` says only that there is always a next
round. `rpc_server`: the manager runs, and a client that has connected
sends its command or ends; `recv()` from a client that does neither blocks everybody.
The liveness properties of GuestMonitor end at what the code gives up: a
dead process, or a monitor whose answer was taken or whose socket was closed under it (`MonitorLost`).
`qemu_hotplug`: the RPC thread goes on, and a QEMU that runs executes
what it is sent; nothing is assumed of the guest.

*Deadlock* is not checked where the system really stops: after exit, after a failed
assertion, after SIGPIPE, and when the search has returned.

### Findings

1. `vm_mngr_instance_stop` clears `running` and sleeps one millisecond "to make
   sure guest monitor finishes the current iteration" (vm_manager.c:323-325). An
   iteration waits for the answer of every guest agent, one after the other, and nothing ties its
   length to a millisecond. `stop_sleep` shows a VM's perf events closed in the
   middle of one; the monitor then reads a closed descriptor, which is a `BUG_ON`,
   or asks a closed socket. `MonitorOnlyRacesStop` in `guest_monitor` shows that this is the only
   way: the VM at which the monitor finds something gone was always stopped in the
   middle of the iteration.
2. `send_qemu_cmd` takes the first message of a session for the reply
   (qemu_agent.c:120). When the guest finishes an earlier hot-unplug at that
   moment, the message is QEMU's event, and a command that succeeded is answered as failed;
   the comment at qemu_agent.c:160 says the response is
   `{"return": {}}` on success. `qemu_hotplug` shows the reverse does not
   happen: no failed command is answered as a success.
3. `rpc_handle_attach_mem` gives QEMU the device path and size of the allocated memory but not
   its offset (resource_manager.c:181-188), unlike the boot arguments, which carry
   it. Memory that does not begin at 0 of its device is therefore not the memory the VM is given.
4. `init_memory_resource` divides by a segment size that is zero unless the file sets it
   (memory_pool.c:294). The repository's README says that "the minimum required configuration is
   the `[devices]` section" (src/README.md:75); with such a file the manager dies of SIGFPE before it
   listens (`minimal_config`).
5. A command without arguments leaves `args` as the request before it wrote them
   (resource_manager.c:395), and its handler acts on them: `destroy-vm` alone destroys the VM that
   somebody named last, where the handler means to answer "Invalid args"
   (resource_manager.c:276). `stale_args` shows it; `ServiceSpec` shows that it goes no further
   than this: the arguments are those of the last update handled, and no query
   and no connection closed without a word is taken for a request.

Some exceptions that the passing properties name are worth a maintainer's attention,
though no document contradicts the code:

* `ShutdownJoins` has the exception `MonitorLost`: when a get-mem-info takes the monitor's
  answer, or a stop-vm closes its socket, SIGINT waits in
  `pthread_join` until that QEMU hangs up or a second SIGINT reaches the monitor thread.
* `ShutdownLeavesOnlyTheCut` names what stays open at `exit()`: the perf events and the agent of
  a VM whose start or stop SIGINT interrupted, and the table entry of a create-vm interrupted
  before it was counted.
* `QemuMemoryIsHeld` does not hold for the ids in `crossed` and the DIMMs in `given_up`. A destroy-vm between
  the alloc-mem and the launch of a create-vm, or Ctrl-C in the second after `Popen`, leaves a QEMU with
  memory the pool has taken back; so does the rollback of an attach-mem. Nothing in the manager
  ties a QEMU to its allocations.
* `find_qemu_pids_by_vmid` searches command lines for `-name RAMRYDER-VM-<id>`
  (ramryder_cli:123) with `pgrep -f`, which matches any part of a line. The name of VM 10
  begins like that of VM 1: `destroy-vm --vmid 1` kills the QEMUs of VMs 10 to 15 as well
  (`NameMatches` in RamryderCli), whose memory the manager goes on to hold.

## 4. What is proved

All proofs are for arbitrary constants, under the assumptions named in the
modules: device sizes and the segment size are positive (the configuration
parser rejects others), the VM table has at least one entry, VM ids are natural
numbers (handlers reject negative ones), sizes are integers, no command and no
argument is the empty string, a configuration file is a finite sequence of lines, and the VMs
of others that `ramryder_cli` sees and the nodes it plans with are finitely many.

* `SegmentSearchProofs`: `SearchTypes`, `SearchInBounds`, `FirstFitCorrect`. The invariant
  `LoopInv` says that no window that starts below `i` is free and that the `j`
  segments from `i` on are; skipping to behind an allocated segment is right because every
  window skipped contains it.
* `MemoryPoolProofs`: `PoolTypes`, `UsedSegmentsAlwaysExact`, `OneVmAtATime`. Types and exactness are
  proved together: that the counter is a natural number after `used_segments--`
  needs that it is a cardinality, and that it stays one needs the types of the
  segments. One lemma on reassigning a region carries all three operations. That a call
  changes the segments of one VM only is an action property: an allocation takes what was
  free, and a release gives back only what carries the caller's id, the part of it included
  that it frees before it fails.
* `VmManagerProofs`: no theorem of its own, but what every operation of the VM manager keeps,
  whoever calls it: `ManagerInv` (types, counters, `VmTableConsistent`,
  `AgentsMatchRunning`, `InternalAssertionsHold`), the agreement of pool and device lists, and `DevicesNumbered` (the
  memdev indices of a VM's devices are different and below its counter). The parts of `ManagerInv` are not
  inductive alone. The agent table follows the running VMs only because ids are
  unique (a stop of one of two VMs with the same id would close the
  other's agent); `count--` stays natural because `count` is the number of
  live slots; the `BUG_ON` behind the scan for a free slot cannot fire because a
  full table has `MAX_NUM_VM` live slots, and then `count` refuses. `DevicesFit` says that every
  device on a list lies inside its DAX device and begins and ends at segments. Without it
  the agreement could not be kept: `release_segments` gives up at the first segment it
  may not free, so a device with a foreign segment in it would stay on its list with holes. With it a
  release is whole (`FreeReleasesAll`). ResourceManager and RamryderCli both drive the VM manager,
  and their proofs rest on these lemmas.
* `ResourceManagerProofs`: `ManagerTypes`, `VmTableAlwaysConsistent`, `AgentsAlwaysMatch`,
  `NoInternalAssertionFails`, `MemoryAlwaysAccounted`, `LeasesImplemented`. Each request
  reduces to a lemma on an operation. A VM's segments vanish with its slot
  because its id has no second slot.
  `LeasesImplemented` is the refinement of SegmentLease step by step: an alloc-mem grants a lease on
  segments that no lease has (`MemoryAccounted`) with an id that the VM never had
  (`DevicesNumbered`), a free-mem takes back one lease as a whole (`FreeReleasesAll`), a
  destroy-vm all of a VM, and every other step, failed requests
  among them, changes no lease.
* `RamryderCliProofs`: `CliTypesAlways`, `QemuMemoryAlwaysHeld`, `NothingEverLeaked`,
  `OneCreatorAlways`, each for any number of operators, VMs and nodes, and any commands at
  the same time. The manager's part of a step is summed up as its effect on the VMs that exist
  (`Created`), the memory they hold (`HeldOf`) and the memory ids they were ever given
  (`IssuedOf`). The invariant of the commands, `VmInv`, is stated for each VM id that is not in `crossed` and
  has these parts. `Sound`: what a QEMU was started with and what is plugged into it was
  issued to its VM and is held, or given up. `InStep`: each command's memory ids fit its place; those of an
  attach-mem are not among those QEMU was started with, so
  that the rollback gives back no boot memory, and an id about to be freed by detach-mem is in QEMU
  no more. `Apart`: beside a create-vm that has its VM there is no other and no destroy-vm, and an id
  about to be plugged, or that a QEMU is started with, is nobody else's; this rests on ids not being used again in a VM's life. `AllAccounted`: memory that is
  in no QEMU is pending with a command, or belongs to a VM in `left`.
  Two create-vm commands may choose the same id; the manager accepts the first, and
  the second never enters the part that works on the VM. A command that would break this puts its
  id into `crossed` in the same step, and what it does later there touches no other id.

  `PlanAlwaysFound` says that the greedy choice of channels finds a
  plan whenever there is one, for any number of nodes and any sizes, and the theorems above
  use that what it finds is a plan. Sorts are strict orders enumerated, and the loop is
  a function on the sizes handled so far; a claim about either is proved by looking at the least place where it
  fails, as the natural numbers are well ordered. If the loop gives up at the
  *k*-th largest size, every node with room for it is among the fewer than *k* picked, while a
  placement would need *k* of them. `select_vmid` finds an id because there are more candidates than
  VMs to avoid.

* `GuestMonitorProofs`: `MonitorTypes`, `NeverBothWaitInVain`, `OnlyStopTakesFromMonitor`,
  `ShutdownLeavesLittle`. The first
  needs `PendingBound`: a socket has no more questions pending than there are threads
  that have asked on it and not taken an answer. This is an invariant because a thread
  takes an answer only after it has asked. For the second, `OneWaitsInVain` looks one step
  ahead, to a monitor that has asked and not yet entered `recv()`: its answer can
  be taken already there. Who takes both answers stops waiting, and a
  thread that begins to wait has just added a question. The other two share `LiveInv`. `RunningIsWhole`
  says that a VM that runs has all that the flag promises; `StoppedUnderMonitor`, that the VM the
  monitor works on runs, or was stopped in this iteration; `OpenOrBetween`, that
  what is open belongs to a VM that runs, or to the start or stop that the RPC thread is in
  or was in when SIGINT came; `EndsInOrder`, that the handler gets past `pthread_join` only
  without the monitor.
* `QemuHotplugProofs`: `HotplugTypes`, `SuccessesLeaveNothing`, `AttachSuccessIsTrue`,
  `DetachSuccessIsTrue`. `ReplyInv` says that a "return" that is waiting to be read was written
  when the command was executed, and `EffectInv` that its effect is still there: between
  the two only the guest could undo it in a QEMU that runs, and the guest gives up no DIMM
  whose removal was not asked for. `BackendInv` (a DIMM sits on its backend) is why
  `object-del` can only succeed once the guest has let go; `LeftoverInv` names the one
  backend that may be without use while a request is in progress.
* `RpcServerProofs`: `ServerTypes`, `ServiceImplemented`, the refinement of RpcService
  step by step, and `PoolAlwaysAsConfigured`. That a request is handled at most once rests on `BacklogInv`
  (the connections that wait are different clients, none of them served yet); that it
  is handled with the right arguments rests on `ConnectionInv` (in front of the handler,
  `cmd` is the command of the client accepted, and `args` its arguments if it has some) and
  `ArgsInv` (`args` otherwise holds what the last update acted on).
  For the pool, `ParseInv` says what the parser knows after each line: the segment size on the last
  line that gave one, and for every device line a device, in order, with the size on
  the line if the line is complete (a short one takes words of an earlier line, as the
  code does). A segment size of zero is an error before a device is cut by it, and
  a file with devices and without a segment size ends the manager before it listens.

Every safety property that a passing run checks is proved. Liveness under fairness (`Terminates`,
`ShutdownJoins`, `AnotherAnswerComes`, `EveryRequestAnswered`, `RequestsAnswered`) stays with TLC: the proof system does not
reach fairness and ENABLED. The models need no recursive operators; the library's induction
principles cannot be applied by the installed provers, which is why the proofs about loops
look for a least counterexample.

## 5. What is not modelled

* `get-mem-pool`, `get-node-info`, `get-num-nodes`, and the size of their answers: they
  report and change nothing. Of the 1024-byte limit, the models have that `get-vms` cuts
  off whole VMs (`ListedVms`); a cut inside the device list of a VM, and
  that of `get-mem-pool`, are left out.
* VM ids that are no index of the agent table: `abort` ends the model there, and
  get-mem-info is modelled for slots of the table only.
* The locks of the C library: `handle_signal` logs and frees memory, and hangs if SIGINT interrupted the
  RPC thread inside `malloc` or stdio.
* What a SIGINT in the middle of a request leaves of the pool: the memory map is in the process and
  ends with it.
* A client that stays connected and sends nothing: the fairness of `rpc_server` excludes it.
* A restart of the manager: nothing is persisted, so a new manager is `Init`, whatever
  QEMUs and allocations the old one had.
* The monitor's keys of the configuration file, among them an interval of zero.
* Performance metrics (EWMA, ratios): arithmetic on doubles. Modelled is only
  whether perf events are open when they are read.
* Uploads to InfluxDB, logging, PCM, the JSON of agents and QEMU: I/O and formatting.
* SSH, vCPU pinning, port forwarding and the parsing of sizes in `ramryder_cli`: nothing of
  it reaches the manager.
* That a device has at most `MAX_SEGMENTS` segments is not checked by the code; the
  models take the array to be as long as the device.
* In an AMD build there is no monitor thread: RpcServer has this build as
  `ArchAmd` (SIGINT then joins a thread that does not exist), GuestMonitor is the Intel build.
* Launch scripts, build files and third-party code.

## 6. Plan

Done: all components of the table in section 1 with the exceptions above, and the proofs of
section 4. To come, in this order:

1. `guest_monitor_load_config`, with the interval of zero.
2. A `get-vms` cut inside a VM, with the detach-mem that does not find its memory.
3. Lemmas that the liveness arguments rest on and that are safety properties: what each
   thread waits for, and that nobody else can take it away.
