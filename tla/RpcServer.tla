----------------------------- MODULE RpcServer -----------------------------
(***************************************************************************)
(* main() and rpc_server_start() of resource_manager.c, and the clients:   *)
(* resource_client.c and the ResourceClient of the admin tools.            *)
(*                                                                         *)
(* The manager reads its configuration, starts its monitor thread and      *)
(* serves one connection after the other: accept, recv, the handler, send, *)
(* close.  A client connects, sends one command and waits for the answer.  *)
(* Both may end at any time.  What the handlers do is ResourceManager's    *)
(* subject; here a handler that runs is an entry in handled, with the      *)
(* command and the arguments it acted on.                                  *)
(*                                                                         *)
(* cmd, args and buffer are arrays on the stack of rpc_server_start() and  *)
(* outlive a request: only buffer is cleared.                              *)
(***************************************************************************)
EXTENDS Config

CONSTANTS Client,       \* client processes, one connection each
          NoClient,     \* stands for no connection
          Query,        \* commands without arguments, as get-vms
          Update,       \* commands with arguments, as destroy-vm
          Args,         \* what the arguments say
          Garbage,      \* what args holds before the first command
          Backlog,      \* connections that may wait: listen(g_server_fd, 5)
          ArchAmd,      \* built with ARCH_AMD: without the monitor thread
          ConfigFile    \* the configuration files to start with

\* An empty string: no command, or a command without arguments.
None == ""

ASSUME ClientAssumption == NoClient \notin Client
ASSUME CommandAssumption == Query \cap Update = {}
ASSUME NoneAssumption == None \notin Query \cup Update \cup Args
ASSUME BacklogAssumption == Backlog \in Nat
ASSUME ConfigAssumption ==
    \A f \in ConfigFile :
        /\ f \in Seq(Line)
        /\ \A i \in DOMAIN f : /\ OneNumber(f[i].value)
                               /\ \A j \in DOMAIN f[i].words : OneNumber(f[i].words[j])
ASSUME ArchAssumption == ArchAmd \in BOOLEAN

VARIABLES server,   \* the manager process
          backlog,  \* connections nobody has accepted yet
          stack,    \* cmd, args and buffer of rpc_server_start
          handled,  \* the handler calls so far
          clients,  \* the client processes
          file,     \* the configuration file
          pool      \* g_mem_devs: the number of segments of each device

vars == <<server, backlog, stack, handled, clients, file, pool>>

\* What a client sends.  The arguments may be empty: destroy-vm "$VM".
Request == [cmd : Query, args : {None}] \cup [cmd : Update, args : Args \cup {None}]

\* What a handler may be called with.
Call == [cmd : Query, args : {None}] \cup [cmd : Update, args : Args \cup {Garbage}]

\* Nothing to read: the client closed its end without a word.
Nothing == [cmd |-> None, args |-> None]

Init ==
    /\ server = [pc |-> "pool", conn |-> NoClient, monitor |-> FALSE,
                 response |-> {}]
    /\ backlog = <<>>
    /\ stack = [buffer |-> Nothing, cmd |-> None, args |-> Garbage]
    /\ handled = <<>>
    /\ clients = [c \in Client |-> [pc |-> "idle", request |-> {}, answer |-> {}]]
    /\ file \in ConfigFile
    /\ pool = <<>>

-----------------------------------------------------------------------------
(* main(): the start.  SIGINT is handled from the beginning. *)

ServerStep(from, to) == server.pc = from /\ server' = [server EXCEPT !.pc = to]

\* memory_pool_init()
InitPool ==
    /\ server.pc = "pool"
    /\ \/ PoolOutcome(file) = "ready" /\ ServerStep("pool", "monitor") /\ pool' = Pool(file)
       \/ PoolOutcome(file) = "error" /\ ServerStep("pool", "exited") /\ UNCHANGED pool
       \/ PoolOutcome(file) = "sigfpe" /\ ServerStep("pool", "killed") /\ UNCHANGED pool
    /\ UNCHANGED <<backlog, stack, handled, clients, file>>

\* guest_monitor_server_start(): a failure ends the manager.
StartMonitor ==
    /\ \/ /\ server.pc = "monitor"
          /\ server' = [server EXCEPT !.pc = "listen", !.monitor = ~ArchAmd]
       \/ ~ArchAmd /\ ServerStep("monitor", "exited")
    /\ UNCHANGED <<backlog, stack, handled, clients, file, pool>>

\* socket(), bind(), listen() and the epoll instance.
Listen ==
    /\ \/ ServerStep("listen", "accept")
       \/ ServerStep("listen", "exited")
    /\ UNCHANGED <<backlog, stack, handled, clients, file, pool>>

-----------------------------------------------------------------------------
(* The loop of rpc_server_start() *)

Accept ==
    /\ server.pc = "accept"
    /\ backlog # <<>>
    /\ server' = [server EXCEPT !.pc = "recv", !.conn = Head(backlog)]
    /\ backlog' = Tail(backlog)
    /\ UNCHANGED <<stack, handled, clients, file, pool>>

\* There is something to read at this end, if only the end of the stream.
Readable(c) == clients[c].request # {} \/ clients[c].pc = "gone"

\* Faulty form: buffer is not cleared before recv().
RecvStale ==
    /\ server.pc = "recv"
    /\ Readable(server.conn)
    /\ LET line == IF clients[server.conn].request = {} THEN stack.buffer
                   ELSE CHOOSE r \in clients[server.conn].request : TRUE
       IN  IF line = Nothing
           THEN /\ stack' = [stack EXCEPT !.buffer = line]
                /\ server' = [server EXCEPT !.pc = "send", !.response = {}]
           ELSE /\ stack' = [buffer |-> line, cmd |-> line.cmd,
                             args |-> IF line.args = None THEN stack.args ELSE line.args]
                /\ server' = [server EXCEPT !.pc = "handle"]
    /\ UNCHANGED <<backlog, handled, clients, file, pool>>

\* Faulty form: calls recv() again when there was nothing to read.
RecvRetries ==
    /\ server.pc = "recv"
    /\ clients[server.conn].request # {}
    /\ LET line == CHOOSE r \in clients[server.conn].request : TRUE
       IN  stack' = [buffer |-> line, cmd |-> line.cmd,
                     args |-> IF line.args = None THEN stack.args ELSE line.args]
    /\ server' = [server EXCEPT !.pc = "handle"]
    /\ UNCHANGED <<backlog, handled, clients, file, pool>>

\* memset(), recv() and sscanf(): a command without arguments leaves args as
\* it was, an empty one is answered for at once.
Recv ==
    /\ server.pc = "recv"
    /\ Readable(server.conn)
    /\ LET line == IF clients[server.conn].request = {} THEN Nothing
                   ELSE CHOOSE r \in clients[server.conn].request : TRUE
       IN  IF line = Nothing
           THEN /\ stack' = [stack EXCEPT !.buffer = line]
                /\ server' = [server EXCEPT !.pc = "send", !.response = {}]
           ELSE /\ stack' = [buffer |-> line, cmd |-> line.cmd,
                             args |-> IF line.args = None THEN stack.args ELSE line.args]
                /\ server' = [server EXCEPT !.pc = "handle"]
    /\ UNCHANGED <<backlog, handled, clients, file, pool>>

\* What the handler of the command acts on.
Effective ==
    [cmd |-> stack.cmd, args |-> IF stack.cmd \in Update THEN stack.args ELSE None]

\* The rpc_handle_...() of the command.
Dispatch ==
    /\ server.pc = "handle"
    /\ handled' = Append(handled, [client |-> server.conn, request |-> Effective])
    /\ server' = [server EXCEPT !.pc = "send", !.response = {Effective}]
    /\ UNCHANGED <<backlog, stack, clients, file, pool>>

\* send() and close(); send() to a client that has closed its end raises
\* SIGPIPE.
Send ==
    /\ server.pc = "send"
    /\ \/ /\ clients[server.conn].pc = "gone"
          /\ server' = [server EXCEPT !.pc = "killed"]
          /\ UNCHANGED clients
       \/ /\ clients[server.conn].pc # "gone"
          /\ server' = [server EXCEPT !.pc = "accept", !.conn = NoClient]
          /\ clients' = [clients EXCEPT ![server.conn].answer = server.response]
    /\ UNCHANGED <<backlog, stack, handled, file, pool>>

-----------------------------------------------------------------------------
(* handle_signal(), as far as the RPC server goes *)

Ended == {"exited", "killed"}

\* rpc_server_stop() closes the listening socket, whatever was going on.
Signal ==
    /\ server.pc \notin Ended \cup {"stopping"}
    /\ server' = [server EXCEPT !.pc = "stopping"]
    /\ UNCHANGED <<backlog, stack, handled, clients, file, pool>>

\* guest_monitor_server_stop() joins the monitor thread: without one,
\* pthread_join() is given a thread id of zero and the manager crashes.
Stop ==
    /\ ServerStep("stopping", IF server.monitor THEN "exited" ELSE "killed")
    /\ UNCHANGED <<backlog, stack, handled, clients, file, pool>>

-----------------------------------------------------------------------------
(* The clients *)

ClientStep(c, from, to) ==
    clients[c].pc = from /\ clients' = [clients EXCEPT ![c].pc = to]

Listening == server.pc \in {"accept", "recv", "handle", "send"}

\* Faulty form: no limit to the connections that wait.
ConnectUnlimited(c) ==
    /\ Listening
    /\ ClientStep(c, "idle", "connected")
    /\ backlog' = Append(backlog, c)
    /\ UNCHANGED <<server, stack, handled, file, pool>>

\* connect() waits while the backlog is full, and fails without a server.
Connect(c) ==
    /\ \/ /\ Listening
          /\ Len(backlog) <= Backlog
          /\ ClientStep(c, "idle", "connected")
          /\ backlog' = Append(backlog, c)
       \/ /\ ~Listening
          /\ ClientStep(c, "idle", "failed")
          /\ UNCHANGED backlog
    /\ UNCHANGED <<server, stack, handled, file, pool>>

\* send_command(), ResourceClient.send(): the command in one piece.
SendCommand(c) ==
    /\ clients[c].pc = "connected"
    /\ \E r \in Request :
          clients' = [clients EXCEPT ![c].pc = "sent", ![c].request = {r}]
    /\ UNCHANGED <<server, backlog, stack, handled, file, pool>>

\* The answer is there, or nobody is left to give one.
ReceiveAnswer(c) ==
    /\ \/ clients[c].answer # {} /\ ClientStep(c, "sent", "answered")
       \/ /\ clients[c].answer = {}
          /\ server.pc \in Ended
          /\ ClientStep(c, "sent", "failed")
    /\ UNCHANGED <<server, backlog, stack, handled, file, pool>>

\* The client is killed while it waits; what it sent stays to be read.
Die(c) ==
    /\ clients[c].pc \in {"connected", "sent"}
    /\ clients[c].answer = {}
    /\ clients' = [clients EXCEPT ![c].pc = "gone"]
    /\ UNCHANGED <<server, backlog, stack, handled, file, pool>>

-----------------------------------------------------------------------------
Server ==
    \/ InitPool \/ StartMonitor \/ Listen
    \/ Accept \/ Recv \/ Dispatch \/ Send
    \/ Stop

ClientContinue(c) == SendCommand(c) \/ ReceiveAnswer(c)

Next ==
    \/ Server \/ Signal
    \/ \E c \in Client : Connect(c) \/ ClientContinue(c) \/ Die(c)

Spec == Init /\ [][Next]_vars

(***************************************************************************)
(* The manager keeps running, and so does a client that has connected: it  *)
(* sends its command, or it ends.  A client that is stopped in between     *)
(* holds up everybody, as recv() has no timeout.                           *)
(***************************************************************************)
FairSpec ==
    Spec /\ WF_vars(Server) /\ \A c \in Client : WF_vars(ClientContinue(c))

-----------------------------------------------------------------------------
(* Properties *)

TypeOK ==
    /\ server \in [pc : {"pool", "monitor", "listen", "accept", "recv", "handle",
                         "send", "stopping"} \cup Ended,
                   conn : Client \cup {NoClient}, monitor : BOOLEAN,
                   response : SUBSET Call]
    /\ backlog \in Seq(Client)
    /\ Len(backlog) <= Backlog + 1
    /\ stack \in [buffer : Request \cup {Nothing}, cmd : Query \cup Update \cup {None},
                  args : Args \cup {Garbage}]
    /\ handled \in Seq([client : Client, request : Call])
    /\ clients \in [Client ->
          [pc : {"idle", "connected", "sent", "answered", "failed", "gone"},
           request : SUBSET Request, answer : SUBSET Call]]

Service ==
    INSTANCE RpcService
    WITH asked <- [c \in Client |-> clients[c].request],
         answer <- [c \in Client |-> clients[c].answer],
         lost <- {c \in Client : clients[c].pc \in {"gone", "failed"}}

\* The RPC server implements the service, whoever hangs up when: a request is
\* handled at most once, by its own command and, if it brought arguments, with
\* them; an update without any acts on those of the last update before it, and
\* on nothing else the stack buffers may hold; nothing is handled for a client
\* that sent nothing, and a client gets the answer to its own request.
ServiceSpec == Service!Spec

\* Who sends destroy-vm without saying which VM is not taken to mean the VM of
\* somebody else's request: a handler is never called with arguments that its
\* client did not write.
OwnArguments ==
    [][\A a \in Args :
          Dispatch /\ Effective.args = a =>
              \E r \in clients[server.conn].request : r.args = a]_vars

\* rpc_server_start answers whoever has sent a command, as long as neither it
\* nor the manager ends: no connection is forgotten in the backlog.
EveryRequestAnswered ==
    \A c \in Client :
        clients[c].pc = "sent" ~> clients[c].pc \in {"answered", "failed", "gone"}

\* If the manager comes to serve requests, memory_pool_load_config has understood
\* its file: each device that the file describes has the number of segments that
\* fit into it, by the segment size that stands last in the file, before or
\* behind the device.
PoolAsConfigured ==
    Listening =>
        /\ Len(pool) = Cardinality(DevLines(file, Len(file)))
        /\ \A i \in DevLines(file, Len(file)), l \in SizeLines(file, Len(file)) :
              /\ Len(file[i].words) = 3
              /\ \A k \in SizeLines(file, Len(file)) : k <= l
              => \A size \in file[i].words[1], seg \in file[l].value :
                    LET n == pool[Cardinality(DevLines(file, i))]
                    IN  n * seg <= size /\ size < (n + 1) * seg

\* A file that describes its devices as it should, and is not too long.
DescribesDevices(f) ==
    /\ DevLines(f, Len(f)) # {}
    /\ Cardinality(DevLines(f, Len(f))) <= MAX_DEVICES
    /\ \A i \in DevLines(f, Len(f)) :
          /\ f[i].value # {} /\ Len(f[i].words) = 3
          /\ \A k \in 1 .. 3 : f[i].words[k] # {}
          /\ \A size \in f[i].words[1] : size > 0
    /\ \A i \in SizeLines(f, Len(f)) : \A n \in f[i].value : n > 0

\* memory_pool_init() does not end the manager on such a file: the devices are
\* all that a configuration needs.
DevicesSuffice ==
    [][server.pc = "pool" /\ server'.pc \in Ended => ~DescribesDevices(file)]_vars
=============================================================================
