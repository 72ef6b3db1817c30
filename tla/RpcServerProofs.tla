-------------------------- MODULE RpcServerProofs --------------------------
(***************************************************************************)
(* The RPC server implements RpcService for any clients, any commands and  *)
(* any backlog: a request is handled at most once, by its own command and  *)
(* with its own arguments if it has some, and its answer goes to its       *)
(* client.                                                                 *)
(*                                                                         *)
(* cmd and args outlive a request, but sscanf() writes cmd from each       *)
(* command and args from each that has some, and a handler that takes no   *)
(* arguments does not look at them: args always holds what the last update *)
(* acted on (ArgsInv).  A client is in the backlog or accepted at most     *)
(* once, because it connects once and the loop takes it off the backlog    *)
(* for good.                                                               *)
(*                                                                         *)
(* The last section is about the configuration: the parser's state after   *)
(* each line of a file of any length (ParseInv), and the pool made of it.  *)
(***************************************************************************)
EXTENDS RpcServer, FiniteSetTheorems, TLAPS

Handled(c) == \E i \in DOMAIN handled : handled[i].client = c

Updates(i) == handled[i].request.cmd \in Update

\* The last update that was handled acted on a.
LeftBehind(a) ==
    \/ /\ a = Garbage
       /\ \A i \in DOMAIN handled : ~Updates(i)
    \/ \E i \in DOMAIN handled :
          /\ Updates(i) /\ handled[i].request.args = a
          /\ \A j \in DOMAIN handled : j > i => ~Updates(j)

Serving == server.pc \in {"recv", "handle", "send"}

\* A client whose connection the server has not closed.
Open(c) == clients[c].pc \in {"connected", "sent", "gone"} /\ clients[c].answer = {}

ServerTyped ==
    server \in [pc : {"pool", "monitor", "listen", "accept", "recv", "handle",
                      "send", "stopping"} \cup Ended,
                conn : Client \cup {NoClient}, monitor : BOOLEAN,
                response : SUBSET Call]

ClientsTyped ==
    clients \in [Client ->
        [pc : {"idle", "connected", "sent", "answered", "failed", "gone"},
         request : SUBSET Request, answer : SUBSET Call]]

BacklogTyped == backlog \in Seq(Client) /\ Len(backlog) <= Backlog + 1

StackTyped ==
    stack \in [buffer : Request \cup {Nothing}, cmd : Query \cup Update \cup {None},
               args : Args \cup {Garbage}]

HandledTyped == handled \in Seq([client : Client, request : Call])

\* A client sends one command, after it has connected.
AskedOnce ==
    \A c \in Client :
        /\ clients[c].request = {} \/ \E r \in Request : clients[c].request = {r}
        /\ clients[c].pc = "idle" => ~Handled(c)
        /\ clients[c].pc \in {"idle", "connected"} =>
              clients[c].request = {} /\ clients[c].answer = {}

\* The connections that wait are different clients, none of them served yet.
BacklogInv ==
    /\ server.pc \in {"pool", "monitor", "listen"} => backlog = <<>>
    /\ Listening => \A i \in 1 .. Len(backlog) :
          /\ Open(backlog[i]) /\ ~Handled(backlog[i])
          /\ Serving => backlog[i] # server.conn
          /\ \A j \in 1 .. Len(backlog) : i # j => backlog[i] # backlog[j]

\* The request at hand is the one that the accepted client sent.
ConnectionInv ==
    Serving =>
        /\ server.conn \in Client /\ Open(server.conn)
        /\ server.pc \in {"recv", "handle"} => ~Handled(server.conn)
        /\ server.pc = "handle" =>
              /\ clients[server.conn].request = {stack.buffer}
              /\ stack.cmd = stack.buffer.cmd
        /\ server.pc = "send" =>
              \/ server.response = {} /\ clients[server.conn].pc = "gone"
              \/ /\ clients[server.conn].request # {}
                 /\ \E i \in DOMAIN handled : /\ handled[i].client = server.conn
                                              /\ server.response = {handled[i].request}

\* Between two handlers args is what the last update acted on; after sscanf() it
\* is that, or what the request brought.
ArgsInv ==
    server.pc \notin Ended \cup {"stopping"} =>
        IF server.pc = "handle" /\ stack.buffer.args # None
        THEN stack.args = stack.buffer.args
        ELSE LeftBehind(stack.args)

Typed == ServerTyped /\ ClientsTyped /\ BacklogTyped /\ StackTyped /\ HandledTyped

Inv == Typed /\ AskedOnce /\ BacklogInv /\ ConnectionInv /\ ArgsInv

-----------------------------------------------------------------------------
\* At the start nobody has connected.
LEMMA InitInv == Init => Inv
  <1> SUFFICES ASSUME Init PROVE Inv
    OBVIOUS
  <1>1. ServerTyped /\ StackTyped /\ HandledTyped /\ BacklogTyped
    BY BacklogAssumption DEF Init, ServerTyped, StackTyped, HandledTyped, BacklogTyped
  <1>2. ClientsTyped
    BY DEF Init, ClientsTyped
  <1>3. AskedOnce
    BY DEF Init, AskedOnce, Handled
  <1>4. BacklogInv /\ ConnectionInv
    BY DEF Init, BacklogInv, ConnectionInv, Serving, Listening
  <1>5. ArgsInv
    BY DEF Init, ArgsInv, LeftBehind
  <1> QED
    BY <1>1, <1>2, <1>3, <1>4, <1>5 DEF Inv, Typed

\* The start and the end of the manager touch no connection.
LEMMA StartInv ==
    ASSUME Inv, InitPool \/ StartMonitor \/ Listen \/ Signal \/ Stop
    PROVE  Inv'
  <1>1. /\ UNCHANGED <<backlog, stack, handled, clients>>
        /\ server'.pc \in {"monitor", "listen", "accept", "stopping"} \cup Ended
        /\ server'.pc \in {"monitor", "listen", "accept"} =>
              server.pc \in {"pool", "monitor", "listen"}
        /\ ServerTyped'
    BY DEF Inv, Typed, ServerTyped, InitPool, StartMonitor, Listen, Signal, Stop,
           ServerStep, Ended
  <1>2. Typed'
    BY <1>1 DEF Inv, Typed, ClientsTyped, BacklogTyped, StackTyped, HandledTyped
  <1>3. AskedOnce'
    BY <1>1 DEF Inv, AskedOnce, Handled
  <1>4. BacklogInv'
    BY <1>1 DEF Inv, BacklogInv, Listening, Ended
  <1>5. ConnectionInv'
    BY <1>1 DEF ConnectionInv, Serving, Ended
  <1>6. ArgsInv'
    BY <1>1 DEF Inv, ArgsInv, LeftBehind, Updates, Ended
  <1> QED
    BY <1>2, <1>3, <1>4, <1>5, <1>6 DEF Inv

\* The accepted client leaves the backlog.
LEMMA AcceptInv == ASSUME Inv, Accept PROVE Inv'
  <1>1. /\ server.pc = "accept" /\ backlog # <<>>
        /\ server'.pc = "recv" /\ server'.conn = Head(backlog)
        /\ backlog' = Tail(backlog)
        /\ UNCHANGED <<stack, handled, clients>>
    BY DEF Accept, Inv, Typed, ServerTyped
  <1>2. /\ backlog \in Seq(Client) /\ Len(backlog) \in Nat /\ Len(backlog) >= 1
        /\ Head(backlog) = backlog[1] /\ backlog[1] \in Client
        /\ Tail(backlog) \in Seq(Client) /\ Len(Tail(backlog)) = Len(backlog) - 1
        /\ \A i \in 1 .. Len(Tail(backlog)) : Tail(backlog)[i] = backlog[i + 1]
    BY <1>1 DEF Inv, Typed, BacklogTyped
  <1>3. \A i \in 1 .. Len(backlog) :
            /\ Open(backlog[i]) /\ ~Handled(backlog[i])
            /\ \A j \in 1 .. Len(backlog) : i # j => backlog[i] # backlog[j]
    BY <1>1 DEF Inv, BacklogInv, Listening
  <1>4. ServerTyped'
    BY <1>1, <1>2 DEF Inv, Typed, ServerTyped, Accept
  <1>5. BacklogTyped'
    BY <1>1, <1>2, BacklogAssumption DEF Inv, Typed, BacklogTyped
  <1>6. Typed'
    BY <1>1, <1>4, <1>5 DEF Inv, Typed, ClientsTyped, StackTyped, HandledTyped
  <1>7. AskedOnce'
    BY <1>1 DEF Inv, AskedOnce, Handled
  <1>8. BacklogInv'
    <2> SUFFICES ASSUME NEW i \in 1 .. Len(backlog')
                 PROVE  /\ Open(backlog[i])' /\ ~Handled(backlog[i])'
                        /\ backlog'[i] # server'.conn
                        /\ \A j \in 1 .. Len(backlog') : i # j => backlog'[i] # backlog'[j]
      BY <1>1 DEF BacklogInv
    <2>1. backlog'[i] = backlog[i + 1] /\ i + 1 \in 1 .. Len(backlog)
          /\ i + 1 # 1 /\ 1 \in 1 .. Len(backlog)
      BY <1>1, <1>2
    <2>2. Open(backlog[i])' /\ ~Handled(backlog[i])'
      BY <1>1, <1>3, <2>1 DEF Open, Handled
    <2>3. backlog'[i] # server'.conn
      BY <1>1, <1>2, <1>3, <2>1
    <2>4. ASSUME NEW j \in 1 .. Len(backlog'), i # j PROVE backlog'[i] # backlog'[j]
      <3>1. backlog'[j] = backlog[j + 1] /\ j + 1 \in 1 .. Len(backlog) /\ i + 1 # j + 1
        BY <1>1, <1>2, <2>4
      <3> QED
        BY <1>3, <2>1, <3>1
    <2> QED
      BY <2>2, <2>3, <2>4
  <1>9. ConnectionInv'
    <2>1. Open(Head(backlog)) /\ ~Handled(Head(backlog)) /\ Head(backlog) \in Client
      BY <1>2, <1>3
    <2> QED
      BY <1>1, <2>1 DEF ConnectionInv, Open, Handled
  <1>10. ArgsInv'
    BY <1>1 DEF Inv, ArgsInv, LeftBehind, Updates, Ended
  <1> QED
    BY <1>6, <1>7, <1>8, <1>9, <1>10 DEF Inv

\* What sscanf() leaves in cmd is what the client wrote, and so with args if the
\* client wrote some.
LEMMA RecvInv == ASSUME Inv, Recv PROVE Inv'
  <1>1. /\ server.pc = "recv" /\ server'.conn = server.conn
        /\ UNCHANGED <<backlog, handled, clients>>
        /\ server.conn \in Client /\ Open(server.conn) /\ ~Handled(server.conn)
    BY DEF Recv, Inv, Typed, ServerTyped, ConnectionInv, Serving
  <1>2. /\ Serving' /\ Listening /\ Serving
        /\ server'.pc \in {"handle", "send"}
    BY <1>1 DEF Recv, Inv, Typed, ServerTyped, Serving, Listening
  <1>3. AskedOnce' /\ BacklogInv'
    <2>1. AskedOnce'
      BY <1>1 DEF Inv, AskedOnce, Handled
    <2>2. BacklogInv /\ BacklogInv'
      BY <1>1, <1>2 DEF Inv, BacklogInv, Handled, Open
    <2> QED
      BY <2>1, <2>2
  <1>6. LeftBehind(stack.args) /\ (stack'.args = stack.args => LeftBehind(stack.args)')
    BY <1>1 DEF Inv, ArgsInv, Ended, LeftBehind, Updates
  <1>4. CASE clients[server.conn].request = {}
    <2>1. /\ stack' = [stack EXCEPT !.buffer = Nothing]
          /\ server' = [server EXCEPT !.pc = "send", !.response = {}]
          /\ clients[server.conn].pc = "gone"
      BY <1>4 DEF Recv, Readable
    <2>2. Typed'
      BY <1>1, <2>1 DEF Inv, Typed, ServerTyped, ClientsTyped, BacklogTyped, StackTyped,
         HandledTyped
    <2>3. ConnectionInv'
      BY <1>1, <2>1 DEF ConnectionInv, Inv, Typed, ServerTyped, Open
    <2>4. ArgsInv'
      BY <1>6, <2>1 DEF ArgsInv, Inv, Typed, ServerTyped, StackTyped
    <2> QED
      BY <1>3, <2>2, <2>3, <2>4 DEF Inv
  <1>5. CASE clients[server.conn].request # {}
    <2>1. PICK r \in Request : clients[server.conn].request = {r}
      BY <1>1, <1>5 DEF Inv, AskedOnce
    <2>2. (CHOOSE x \in clients[server.conn].request : TRUE) = r
      BY <2>1
    <2>3. \/ r.cmd \in Query /\ r.args = None
          \/ r.cmd \in Update /\ r.args \in Args \cup {None}
      BY DEF Request
    <2>4. r # Nothing /\ r = [cmd |-> r.cmd, args |-> r.args]
      BY <2>3, NoneAssumption DEF Nothing, Request
    <2>5. /\ stack' = [buffer |-> r, cmd |-> r.cmd,
                       args |-> IF r.args = None THEN stack.args ELSE r.args]
          /\ server' = [server EXCEPT !.pc = "handle"]
      BY <1>5, <2>2, <2>4 DEF Recv
    <2>6. ArgsInv'
      BY <1>6, <2>5 DEF ArgsInv, Inv, Typed, ServerTyped
    <2>7. Typed'
      BY <1>1, <2>3, <2>5 DEF Inv, Typed, ServerTyped, ClientsTyped, BacklogTyped, StackTyped,
         HandledTyped
    <2>8. ConnectionInv'
      BY <1>1, <2>1, <2>5 DEF ConnectionInv, Inv, Typed, ServerTyped, Open, Handled
    <2> QED
      BY <1>3, <2>6, <2>7, <2>8 DEF Inv
  <1> QED
    BY <1>4, <1>5

\* Another client is unaffected by a call of a handler.
LEMMA HandledGrows ==
    ASSUME HandledTyped, NEW e, handled' = Append(handled, e), NEW c
    PROVE  /\ Handled(c)' <=> Handled(c) \/ e.client = c
           /\ \E i \in DOMAIN handled' : handled'[i] = e
  <1>1. /\ DOMAIN handled = 1 .. Len(handled) /\ Len(handled) \in Nat
        /\ DOMAIN handled' = 1 .. (Len(handled) + 1)
        /\ \A i \in 1 .. Len(handled) : handled'[i] = handled[i]
        /\ handled'[Len(handled) + 1] = e
    BY DEF HandledTyped
  <1> QED
    BY <1>1 DEF Handled

\* An update leaves behind what it acted on, another command what was there.
LEMMA LeftGrows ==
    ASSUME HandledTyped, NEW c, handled' = Append(handled, [client |-> c, request |-> Effective]),
           stack' = stack,
           stack.cmd \notin Update => LeftBehind(stack.args)
    PROVE  LeftBehind(stack.args)'
  <1>0. PICK n \in Nat : n = Len(handled) + 1
    BY DEF HandledTyped
  <1>1. /\ DOMAIN handled = 1 .. Len(handled) /\ Len(handled) \in Nat
        /\ DOMAIN handled' = 1 .. n
        /\ \A i \in 1 .. Len(handled) : handled'[i] = handled[i]
        /\ handled'[n].request = Effective
    BY <1>0 DEF HandledTyped
  <1>2. CASE stack.cmd \in Update
    <2>1. Updates(n)' /\ handled'[n].request.args = stack.args
      BY <1>1, <1>2 DEF Updates, Effective
    <2>2. n \in DOMAIN handled' /\ \A j \in DOMAIN handled' : ~(j > n)
      BY <1>0, <1>1
    <2> QED
      BY <2>1, <2>2 DEF LeftBehind
  <1>3. CASE stack.cmd \notin Update
    <2>1. ~Updates(n)' /\ \A i \in 1 .. Len(handled) : Updates(i)' <=> Updates(i)
      BY <1>1, <1>3 DEF Updates, Effective
    <2>2. LeftBehind(stack.args)
      BY <1>3
    <2>3. CASE stack.args = Garbage /\ \A i \in 1 .. Len(handled) : ~Updates(i)
      <3>1. \A i \in 1 .. n : ~Updates(i)'
        BY <1>0, <1>1, <2>1, <2>3
      <3> QED
        BY <1>1, <2>3, <3>1 DEF LeftBehind
    <2>4. ASSUME NEW i \in 1 .. Len(handled), Updates(i), handled[i].request.args = stack.args,
                 \A j \in 1 .. Len(handled) : j > i => ~Updates(j)
          PROVE  LeftBehind(stack.args)'
      <3>1. i \in 1 .. n /\ Updates(i)' /\ handled'[i].request.args = stack'.args
        BY <1>0, <1>1, <2>1, <2>4
      <3>2. \A j \in 1 .. n : j > i => ~Updates(j)'
        BY <1>0, <1>1, <2>1, <2>4
      <3> QED
        BY <1>1, <3>1, <3>2 DEF LeftBehind
    <2> QED
      BY <1>1, <2>2, <2>3, <2>4 DEF LeftBehind
  <1> QED
    BY <1>2, <1>3

\* The handler runs for a client that had not been served.
LEMMA DispatchInv == ASSUME Inv, Dispatch PROVE Inv'
  <1> DEFINE e == [client |-> server.conn, request |-> Effective]
  <1>1. /\ server.pc = "handle" /\ server'.conn = server.conn /\ server'.pc = "send"
        /\ server'.response = {Effective}
        /\ handled' = Append(handled, e)
        /\ UNCHANGED <<backlog, stack, clients>>
    BY DEF Dispatch, Inv, Typed, ServerTyped
  <1>2. /\ server.conn \in Client /\ Open(server.conn)
        /\ clients[server.conn].request = {stack.buffer} /\ stack.cmd = stack.buffer.cmd
    BY <1>1 DEF Inv, ConnectionInv, Serving
  <1>3. Effective \in Call
    <2>1. stack.buffer \in Request /\ stack.args \in Args \cup {Garbage}
      BY <1>2 DEF Inv, Typed, ClientsTyped, StackTyped
    <2> QED
      BY <1>2, <2>1 DEF Effective, Call, Request
  <1>4. \A c \in Client : Handled(c)' <=> Handled(c) \/ server.conn = c
    BY <1>1, HandledGrows DEF Inv, Typed
  <1>5. Typed'
    <2>1. ServerTyped'
      BY <1>3 DEF Dispatch, Inv, Typed, ServerTyped
    <2>2. HandledTyped'
      BY <1>1, <1>2, <1>3 DEF Inv, Typed, HandledTyped
    <2> QED
      BY <1>1, <2>1, <2>2 DEF Inv, Typed, ClientsTyped, BacklogTyped, StackTyped
  <1>6. AskedOnce'
    BY <1>1, <1>2, <1>4 DEF Inv, AskedOnce, Open
  <1>7. BacklogInv'
    <2>1. \A i \in 1 .. Len(backlog) : backlog[i] \in Client
      BY DEF Inv, Typed, BacklogTyped
    <2> QED
      BY <1>1, <1>4, <2>1 DEF Inv, BacklogInv, Listening, Serving, Open
  <1>8. ConnectionInv'
    <2>1. PICK i \in DOMAIN handled' : handled'[i] = e
      BY <1>1, HandledGrows DEF Inv, Typed
    <2>2. handled'[i].client = server.conn /\ server'.response = {handled'[i].request}
      BY <1>1, <2>1
    <2> QED
      BY <1>1, <1>2, <2>2 DEF ConnectionInv, Open
  <1>9. ArgsInv'
    <2>0. stack.cmd \notin Update => LeftBehind(stack.args)
      <3>1. stack.buffer \in Request
        BY <1>2 DEF Inv, Typed, ClientsTyped
      <3> QED
        BY <1>1, <1>2, <3>1 DEF Inv, ArgsInv, Request, Ended
    <2>1. LeftBehind(stack.args)'
      BY <1>1, <2>0, LeftGrows DEF Inv, Typed
    <2> QED
      BY <1>1, <2>1 DEF ArgsInv
  <1> QED
    BY <1>5, <1>6, <1>7, <1>8, <1>9 DEF Inv

\* The answer goes to the client whose request was handled.
LEMMA SendInv == ASSUME Inv, Send PROVE Inv'
  <1>1. /\ server.pc = "send" /\ UNCHANGED <<backlog, stack, handled>>
        /\ server.conn \in Client /\ Open(server.conn) /\ server.response \subseteq Call
    BY DEF Send, Inv, ConnectionInv, Serving, Typed, ServerTyped
  <1>2. CASE /\ clients[server.conn].pc = "gone"
             /\ server' = [server EXCEPT !.pc = "killed"]
             /\ UNCHANGED clients
    <2>1. Typed'
      BY <1>1, <1>2 DEF Inv, Typed, ServerTyped, ClientsTyped, BacklogTyped, StackTyped,
         HandledTyped, Ended
    <2>2. AskedOnce'
      BY <1>1, <1>2 DEF Inv, AskedOnce, Handled
    <2>3. BacklogInv' /\ ConnectionInv' /\ ArgsInv'
      BY <1>2 DEF Inv, Typed, ServerTyped, BacklogInv, ConnectionInv, ArgsInv, Serving,
         Listening, Ended
    <2> QED
      BY <2>1, <2>2, <2>3 DEF Inv
  <1>3. CASE /\ clients[server.conn].pc # "gone"
             /\ server' = [server EXCEPT !.pc = "accept", !.conn = NoClient]
             /\ clients' = [clients EXCEPT ![server.conn].answer = server.response]
    <2>1. Typed'
      <3>1. ServerTyped'
        BY <1>3 DEF Inv, Typed, ServerTyped
      <3>2. ClientsTyped'
        BY <1>1, <1>3 DEF Inv, Typed, ClientsTyped
      <3> QED
        BY <1>1, <3>1, <3>2 DEF Inv, Typed, BacklogTyped, StackTyped, HandledTyped
    <2>2. clients[server.conn].pc = "sent"
      <3>1. clients[server.conn].request # {}
        BY <1>1, <1>3 DEF Inv, ConnectionInv, Serving
      <3> QED
        BY <1>1, <1>3, <3>1 DEF Inv, AskedOnce, Open
    <2>3. \A c \in Client :
              /\ clients'[c].pc = clients[c].pc /\ clients'[c].request = clients[c].request
              /\ c # server.conn => clients'[c].answer = clients[c].answer
      BY <1>1, <1>3 DEF Inv, Typed, ClientsTyped
    <2>4. AskedOnce'
      BY <1>1, <2>2, <2>3 DEF Inv, AskedOnce, Handled
    <2>5. BacklogInv'
      <3>1. server'.pc = "accept"
        BY <1>3 DEF Inv, Typed, ServerTyped
      <3>2. \A i \in 1 .. Len(backlog) : backlog[i] \in Client
        BY DEF Inv, Typed, BacklogTyped
      <3> QED
        BY <1>1, <2>3, <3>1, <3>2 DEF Inv, BacklogInv, Listening, Serving, Open, Handled
    <2>6. ConnectionInv'
      BY <1>3 DEF Inv, Typed, ServerTyped, ConnectionInv, Serving
    <2>7. ArgsInv'
      BY <1>1, <1>3 DEF Inv, Typed, ServerTyped, ArgsInv, LeftBehind, Updates, Ended
    <2> QED
      BY <2>1, <2>4, <2>5, <2>6, <2>7 DEF Inv
  <1> QED
    BY <1>2, <1>3 DEF Send

\* A client that goes on: where it is, and what becomes of its request.
LEMMA ClientInv ==
    ASSUME Inv, NEW c \in Client,
           Connect(c) \/ SendCommand(c) \/ ReceiveAnswer(c) \/ Die(c)
    PROVE  Inv'
  <1> USE DEF ClientStep
  <1>0. /\ UNCHANGED <<server, stack, handled>>
        /\ clients[c] \in [pc : {"idle", "connected", "sent", "answered", "failed", "gone"},
                           request : SUBSET Request, answer : SUBSET Call]
        /\ \A d \in Client : d # c => clients'[d] = clients[d]
    BY DEF Inv, Typed, ClientsTyped, Connect, SendCommand, ReceiveAnswer, Die
  <1>1. Typed'
    <2>1. ClientsTyped'
      BY <1>0 DEF Inv, Typed, ClientsTyped, Connect, SendCommand, ReceiveAnswer, Die
    <2>2. BacklogTyped'
      <3>1. CASE UNCHANGED backlog
        BY <3>1 DEF Inv, Typed, BacklogTyped
      <3>2. CASE Len(backlog) <= Backlog /\ backlog' = Append(backlog, c)
        BY <3>2, BacklogAssumption DEF Inv, Typed, BacklogTyped
      <3> QED
        BY <3>1, <3>2 DEF Connect, SendCommand, ReceiveAnswer, Die
    <2> QED
      BY <1>0, <2>1, <2>2 DEF Inv, Typed, ServerTyped, StackTyped, HandledTyped
  <1>2. AskedOnce'
    <2>1. /\ clients'[c].request = {} \/ \E r \in Request : clients'[c].request = {r}
          /\ clients'[c].pc # "idle"
          /\ clients'[c].pc = "connected" =>
                clients'[c].request = {} /\ clients'[c].answer = {}
      BY <1>0 DEF Inv, Typed, ClientsTyped, AskedOnce, Connect, SendCommand, ReceiveAnswer, Die
    <2> QED
      BY <1>0, <2>1 DEF Inv, AskedOnce, Handled
  \* An open connection stays open as long as the server listens.
  <1>3. ASSUME NEW d \in Client, Listening, Open(d)
        PROVE  Open(d)' /\ (clients[d].request # {} => clients'[d].request = clients[d].request)
               /\ (clients[d].pc = "gone" => clients'[d].pc = "gone")
    <2>1. CASE d # c
      BY <1>0, <1>3, <2>1 DEF Open
    <2>2. CASE d = c
      BY <1>0, <1>3, <2>2
      DEF Inv, Typed, ClientsTyped, AskedOnce, Open, Listening, Ended, Connect, SendCommand,
          ReceiveAnswer, Die
    <2> QED
      BY <2>1, <2>2
  <1>4. \A i \in 1 .. Len(backlog) : backlog[i] \in Client
    BY DEF Inv, Typed, BacklogTyped
  <1>5. ConnectionInv'
    <2> SUFFICES ASSUME Serving PROVE ConnectionInv'
      BY <1>0 DEF ConnectionInv, Serving
    <2>1. Listening
      BY DEF Serving, Listening
    <2>2. ConnectionInv
      BY DEF Inv
    <2> QED
      BY <1>0, <1>3, <2>1, <2>2 DEF ConnectionInv, Serving, Handled
  <1>6. BacklogInv'
    <2>1. CASE UNCHANGED backlog
      BY <1>0, <1>3, <1>4, <2>1 DEF Inv, BacklogInv, Listening, Serving, Handled
    <2>2. CASE Listening /\ clients[c].pc = "idle" /\ backlog' = Append(backlog, c)
               /\ clients' = [clients EXCEPT ![c].pc = "connected"]
      <3>1. /\ Len(backlog) \in Nat /\ Len(backlog') = Len(backlog) + 1
            /\ \A i \in 1 .. Len(backlog) : backlog'[i] = backlog[i]
            /\ backlog'[Len(backlog) + 1] = c
        BY <2>2 DEF Inv, Typed, BacklogTyped
      <3>2. Open(c)' /\ ~Handled(c) /\ (Serving => c # server.conn)
        BY <1>0, <2>2 DEF Inv, Typed, ClientsTyped, AskedOnce, ConnectionInv, Open
      <3>3. \A i \in 1 .. Len(backlog) :
                /\ Open(backlog[i]) /\ ~Handled(backlog[i]) /\ backlog[i] # c
                /\ Serving => backlog[i] # server.conn
                /\ \A j \in 1 .. Len(backlog) : i # j => backlog[i] # backlog[j]
        BY <2>2 DEF Inv, BacklogInv, Open
      <3>4. ASSUME NEW i \in 1 .. Len(backlog')
            PROVE  /\ Open(backlog[i])' /\ ~Handled(backlog[i])'
                   /\ Serving => backlog'[i] # server.conn
        <4>1. CASE i = Len(backlog) + 1
          BY <1>0, <3>1, <3>2, <4>1 DEF Open, Handled
        <4>2. CASE i \in 1 .. Len(backlog)
          <5>1. backlog'[i] = backlog[i] /\ Open(backlog[i])' /\ backlog[i] \in Client
            BY <1>0, <1>3, <1>4, <2>2, <3>1, <3>3, <4>2 DEF Open
          <5> QED
            BY <1>0, <3>3, <4>2, <5>1 DEF Open, Handled
        <4> QED
          BY <3>1, <4>1, <4>2
      <3>5. ASSUME NEW i \in 1 .. Len(backlog'), NEW j \in 1 .. Len(backlog'), i # j
            PROVE  backlog'[i] # backlog'[j]
        BY <3>1, <3>3, <3>5
      <3>6. server.pc \notin {"pool", "monitor", "listen"}
        BY <2>2 DEF Listening
      <3> QED
        BY <1>0, <3>4, <3>5, <3>6 DEF BacklogInv, Listening, Serving
    <2> QED
      BY <2>1, <2>2 DEF Connect, SendCommand, ReceiveAnswer, Die
  <1>7. ArgsInv'
    BY <1>0 DEF Inv, ArgsInv, LeftBehind, Updates
  <1> QED
    BY <1>1, <1>2, <1>5, <1>6, <1>7 DEF Inv

\* Every step keeps the invariant.
LEMMA NextInv == Inv /\ [Next]_vars => Inv'
  <1> SUFFICES ASSUME Inv, [Next]_vars PROVE Inv'
    OBVIOUS
  <1>1. CASE Server \/ Signal
    BY <1>1, StartInv, AcceptInv, RecvInv, DispatchInv, SendInv DEF Server
  <1>2. CASE \E c \in Client : Connect(c) \/ ClientContinue(c) \/ Die(c)
    BY <1>2, ClientInv DEF ClientContinue
  <1>3. CASE UNCHANGED vars
    BY <1>3 DEF vars, Inv, Typed, ServerTyped, ClientsTyped, BacklogTyped, StackTyped,
       HandledTyped, AskedOnce, BacklogInv, ConnectionInv, ArgsInv, Handled, Open,
       Serving, Listening, LeftBehind, Updates
  <1> QED
    BY <1>1, <1>2, <1>3 DEF Next

\* The server, its stack and the clients keep their types: a handler is called
\* with a command some client could have written, and with arguments one could
\* have written or what was on the stack at the start.
THEOREM ServerTypes == Spec => []TypeOK
  <1>1. Inv => TypeOK
    BY DEF Inv, Typed, ServerTyped, ClientsTyped, BacklogTyped, StackTyped, HandledTyped,
       TypeOK
  <1> QED
    BY InitInv, NextInv, <1>1, PTL DEF Spec

-----------------------------------------------------------------------------
(* The refinement *)

\* WasHandled of the service is Handled.
LEMMA SameHandled == \A c : Service!WasHandled(c) <=> Handled(c)
  BY DEF Service!WasHandled, Handled

\* And LeftOver is LeftBehind.
LEMMA SameLeft == \A a : Service!LeftOver(a) <=> LeftBehind(a)
  BY DEF Service!LeftOver, Service!IsUpdate, LeftBehind, Updates

\* A step of a client is one of the service, or none that it sees.
LEMMA ClientRefines ==
    ASSUME Inv, NEW c \in Client,
           Connect(c) \/ SendCommand(c) \/ ReceiveAnswer(c) \/ Die(c)
    PROVE  [Service!Next]_(Service!vars)
  <1> DEFINE asked == [d \in Client |-> clients[d].request]
             answer == [d \in Client |-> clients[d].answer]
             lost == {d \in Client : clients[d].pc \in {"gone", "failed"}}
  <1>1. UNCHANGED handled
    BY DEF Connect, SendCommand, ReceiveAnswer, Die
  <1>2. clients[c].pc \in {"idle", "connected"} =>
            clients[c].request = {} /\ clients[c].answer = {}
    BY DEF Inv, AskedOnce
  <1>3. ASSUME NEW new \in {"connected", "answered", "failed", "gone"},
               clients' = [clients EXCEPT ![c].pc = new],
               clients[c].pc \notin {"gone", "failed"}
        PROVE  /\ asked' = asked /\ answer' = answer
               /\ lost' = IF new \in {"gone", "failed"} THEN lost \cup {c} ELSE lost
    BY <1>3 DEF Inv, Typed, ClientsTyped
  <1>4. CASE \E new \in {"connected", "answered"} :
                clients' = [clients EXCEPT ![c].pc = new]
                /\ clients[c].pc \notin {"gone", "failed"}
    BY <1>1, <1>3, <1>4 DEF Service!vars
  <1>5. CASE /\ \E new \in {"failed", "gone"} : clients' = [clients EXCEPT ![c].pc = new]
             /\ clients[c].pc \notin {"gone", "failed"} /\ clients[c].answer = {}
    <2>1. Service!GiveUp(c)
      BY <1>1, <1>3, <1>5 DEF Service!GiveUp
    <2> QED
      BY <2>1 DEF Service!Next
  <1>6. CASE SendCommand(c)
    <2>1. PICK r \in Request :
             clients' = [clients EXCEPT ![c].pc = "sent", ![c].request = {r}]
      BY <1>6 DEF SendCommand
    <2>2. clients[c].pc = "connected" /\ clients[c].request = {}
      BY <1>2, <1>6 DEF SendCommand
    <2>3. /\ asked' = [asked EXCEPT ![c] = {r}]
          /\ answer' = answer /\ lost' = lost
      BY <2>1, <2>2 DEF Inv, Typed, ClientsTyped
    <2>4. Service!Ask(c, r)
      BY <1>1, <2>2, <2>3 DEF Service!Ask
    <2> QED
      BY <2>4 DEF Service!Next
  <1> QED
    BY <1>2, <1>4, <1>5, <1>6 DEF Connect, ReceiveAnswer, Die, ClientStep

\* A handler call is Handle of the service, an answer sent is Answer.
LEMMA ServerRefines ==
    ASSUME Inv, Server \/ Signal
    PROVE  [Service!Next]_(Service!vars)
  <1>1. CASE Dispatch
    <2>1. /\ server.conn \in Client /\ ~Handled(server.conn)
          /\ clients[server.conn].request = {stack.buffer}
          /\ stack.cmd = stack.buffer.cmd
          /\ stack.buffer.args # None => stack.args = stack.buffer.args
          /\ stack.buffer.args = None => LeftBehind(stack.args)
      BY <1>1 DEF Dispatch, Inv, ConnectionInv, ArgsInv, Serving, Ended
    <2>2. /\ handled' = Append(handled, [client |-> server.conn, request |-> Effective])
          /\ clients' = clients
      BY <1>1 DEF Dispatch
    <2> DEFINE r == stack.buffer
    <2>4. r \in Request /\ stack.args \in Args \cup {Garbage}
      BY <2>1 DEF Inv, Typed, ClientsTyped, StackTyped
    <2>5. Effective.cmd = r.cmd /\ Effective = [cmd |-> r.cmd, args |-> Effective.args]
      BY <2>1 DEF Effective
    <2>6. Effective.args \in Args \cup {Garbage, None}
      BY <2>4 DEF Effective
    <2>7. Service!ActsOn(r, Effective.args)
      <3>1. CASE r.cmd \in Update /\ r.args = None
        BY <2>1, <3>1, SameLeft DEF Service!ActsOn, Effective
      <3>2. CASE r.cmd \in Update /\ r.args # None
        BY <2>1, <3>2 DEF Service!ActsOn, Effective
      <3>3. CASE r.cmd \notin Update
        BY <2>1, <2>4, <3>3 DEF Service!ActsOn, Effective, Request
      <3> QED
        BY <3>1, <3>2, <3>3
    <2>3. Service!Handle(server.conn)
      <3>1. /\ [c \in Client |-> clients[c].request][server.conn] = {r}
            /\ UNCHANGED clients
        BY <2>1, <2>2
      <3> QED
        BY <2>1, <2>2, <2>5, <2>6, <2>7, <3>1, SameHandled DEF Service!Handle
    <2> QED
      BY <2>1, <2>3 DEF Service!Next
  <1>2. CASE Send
    <2>1. CASE UNCHANGED <<clients, handled>>
      BY <2>1 DEF Service!vars
    <2>2. CASE /\ clients[server.conn].pc # "gone"
               /\ clients' = [clients EXCEPT ![server.conn].answer = server.response]
      <3>1. /\ server.conn \in Client /\ handled' = handled
            /\ \E i \in DOMAIN handled : /\ handled[i].client = server.conn
                                         /\ server.response = {handled[i].request}
            /\ clients[server.conn].pc \in {"connected", "sent"}
            /\ clients[server.conn].answer = {}
        BY <1>2, <2>2 DEF Send, Inv, ConnectionInv, Serving, Open
      <3> PICK c \in Client : c = server.conn
        BY <3>1
      <3>2. Service!Answer(c)
        <4> DEFINE asked == [d \in Client |-> clients[d].request]
                   answer == [d \in Client |-> clients[d].answer]
                   lost == {d \in Client : clients[d].pc \in {"gone", "failed"}}
        <4>1. asked' = asked /\ lost' = lost
          BY <2>2, <3>1 DEF Inv, Typed, ClientsTyped
        <4>2. answer' = [answer EXCEPT ![c] = server.response]
          BY <2>2, <3>1 DEF Inv, Typed, ClientsTyped
        <4>3. answer[c] = {} /\ c \notin lost
          BY <3>1
        <4> QED
          BY <3>1, <4>1, <4>2, <4>3 DEF Service!Answer
      <3> QED
        BY <3>2 DEF Service!Next
    <2> QED
      BY <1>2, <2>1, <2>2 DEF Send
  <1>3. CASE UNCHANGED <<clients, handled>>
    BY <1>3 DEF Service!vars
  <1> QED
    BY <1>1, <1>2, <1>3 DEF Server, Signal, InitPool, StartMonitor, Listen, Accept, Recv, Stop

\* rpc_server_start keeps what RpcService promises: a request is handled at
\* most once, by its command and with the arguments its client wrote, or with
\* those of the last update if it wrote none, and nobody else gets its answer,
\* whoever hangs up and whenever SIGINT comes.
THEOREM ServiceImplemented == Spec => ServiceSpec
  <1>1. Init => Service!Init
    BY DEF Init, Service!Init
  <1>2. Inv /\ [Next]_vars => [Service!Next]_(Service!vars)
    <2> SUFFICES ASSUME Inv, [Next]_vars PROVE [Service!Next]_(Service!vars)
      OBVIOUS
    <2>1. CASE Server \/ Signal
      BY <2>1, ServerRefines
    <2>2. CASE \E c \in Client : Connect(c) \/ ClientContinue(c) \/ Die(c)
      BY <2>2, ClientRefines DEF ClientContinue
    <2>3. CASE UNCHANGED vars
      BY <2>3 DEF vars, Service!vars
    <2> QED
      BY <2>1, <2>2, <2>3 DEF Next
  <1> QED
    BY InitInv, NextInv, <1>1, <1>2, PTL DEF Spec, ServiceSpec, Service!Spec

-----------------------------------------------------------------------------
(* The configuration *)

\* The least of some natural numbers: they are well ordered.
LEMMA LeastNat ==
    ASSUME NEW T \in SUBSET Nat, T # {}
    PROVE  \E x \in T : \A y \in T : x <= y
  <1> DEFINE R == OpToRel(<, Nat)
  <1>1. IsWellFoundedOn(R, Nat)
    BY NatLessThanWellFounded
  <1>2. \A x, y \in Nat : <<y, x>> \in R <=> y < x
    BY Zenon DEF OpToRel
  <1> HIDE DEF R
  <1>3. \E x \in T : \A y \in T : ~(<<y, x>> \in R)
    BY <1>1, WFMin
  <1>4. PICK x \in T : \A y \in T : ~(<<y, x>> \in R)
    BY <1>3
  <1>5. ASSUME NEW y \in T PROVE x <= y
    <2>1. x \in Nat /\ y \in Nat
      OBVIOUS
    <2>2. ~(<<y, x>> \in R)
      BY <1>4
    <2>3. ~(y < x)
      BY Zenon, <1>2, <2>1, <2>2
    <2>. QED
      BY <2>1, <2>3
  <1>. QED
    BY <1>5

\* The parser after each line of a file.
ParseRun(after, f) ==
    after = [i \in 0 .. Len(f) |-> IF i = 0 THEN Fresh ELSE AfterLine(after[i - 1], f[i])]

\* The loop of memory_pool_load_config is what its recursive definition says.
LEMMA ParseLoop ==
    ASSUME NEW f, Len(f) \in Nat
    PROVE  \E after : ParseRun(after, f) /\ memory_pool_load_config(f) = after[Len(f)]
  <1> DEFINE n == Len(f)
             Loop(m) == \E a : a = [i \in 0 .. m |-> IF i = 0 THEN Fresh
                                                    ELSE AfterLine(a[i - 1], f[i])]
             T == {m \in Nat : ~Loop(m)}
  <1>1. T = {}
    <2>1. SUFFICES ASSUME T # {} PROVE FALSE
      OBVIOUS
    <2>2. PICK m \in T : \A i \in T : m <= i
      <3>1. T \in SUBSET Nat
        OBVIOUS
      <3> HIDE DEF T
      <3>. QED
        BY <2>1, <3>1, LeastNat
    <2>3. m \in Nat /\ ~Loop(m)
      OBVIOUS
    <2>4. m # 0
      <3>1. ASSUME m = 0 PROVE FALSE
        <4> DEFINE a == [i \in 0 .. 0 |-> Fresh]
        <4>1. a = [i \in 0 .. 0 |-> IF i = 0 THEN Fresh ELSE AfterLine(a[i - 1], f[i])]
          OBVIOUS
        <4> HIDE DEF a
        <4>. QED
          BY <2>3, <3>1, <4>1
      <3>. QED
        BY <3>1
    <2>5. Loop(m - 1)
      <3>1. m - 1 \in Nat /\ ~(m <= m - 1)
        BY <2>3, <2>4
      <3>2. m - 1 \notin T
        BY <2>2, <3>1
      <3>. QED
        BY <3>1, <3>2
    <2>6. PICK a : a = [i \in 0 .. (m - 1) |-> IF i = 0 THEN Fresh
                                              ELSE AfterLine(a[i - 1], f[i])]
      BY <2>5
    <2> DEFINE b == [i \in 0 .. m |-> IF i < m THEN a[i] ELSE AfterLine(a[m - 1], f[m])]
    <2>7. ASSUME NEW i \in 0 .. m
          PROVE  b[i] = IF i = 0 THEN Fresh ELSE AfterLine(b[i - 1], f[i])
      <3>1. CASE i = 0
        <4>1. b[i] = a[0] /\ 0 \in 0 .. (m - 1)
          BY <2>3, <2>4, <3>1
        <4>2. a[0] = Fresh
          BY <2>6, <4>1
        <4>. QED
          BY <3>1, <4>1, <4>2
      <3>2. CASE i # 0 /\ i < m
        <4>1. i \in 0 .. (m - 1) /\ b[i] = a[i] /\ b[i - 1] = a[i - 1]
          BY <2>3, <2>7, <3>2
        <4>2. a[i] = AfterLine(a[i - 1], f[i])
          BY <2>6, <3>2, <4>1
        <4>. QED
          BY <3>2, <4>1, <4>2
      <3>3. CASE i = m
        <4>1. b[i] = AfterLine(a[m - 1], f[m]) /\ b[i - 1] = a[m - 1]
          BY <2>3, <2>4, <3>3
        <4>. QED
          BY <2>4, <3>3, <4>1
      <3>. QED
        BY <2>3, <2>7, <3>1, <3>2, <3>3
    <2>8. b = [i \in 0 .. m |-> IF i = 0 THEN Fresh ELSE AfterLine(b[i - 1], f[i])]
      <3>1. b = [i \in 0 .. m |-> b[i]]
        OBVIOUS
      <3> HIDE DEF b
      <3>. QED
        BY <2>7, <3>1
    <2> HIDE DEF b
    <2>. QED
      BY <2>3, <2>8
  <1>2. Loop(n)
    BY <1>1
  <1> DEFINE F == CHOOSE a : a = [i \in 0 .. n |-> IF i = 0 THEN Fresh
                                                  ELSE AfterLine(a[i - 1], f[i])]
  <1>3. F = [i \in 0 .. n |-> IF i = 0 THEN Fresh ELSE AfterLine(F[i - 1], f[i])]
    BY <1>2, Zenon
  <1>4. memory_pool_load_config(f) = F[n]
    BY Zenon DEF memory_pool_load_config
  <1> HIDE DEF F
  <1>5. ParseRun(F, f)
    BY <1>3, Zenon DEF ParseRun
  <1>. QED
    BY <1>4, <1>5

Device == [size_mb : Int, tier_id : Int, dax_id : Int]

\* What the parser knows after i lines: the segment size of the last line that gives
\* one, and a device for each device line, of the size on it if its words are there.
ParseInv(f, i, c) ==
    /\ c \in [failed : BOOLEAN, segment_size_mb : Int, devs : Seq(Device),
              words : [1 .. 3 -> Word]]
    /\ ~c.failed =>
          /\ c.segment_size_mb >= 0
          /\ Len(c.devs) = Cardinality(DevLines(f, i))
          /\ \A l \in SizeLines(f, i) :
                (\A k \in SizeLines(f, i) : k <= l) =>
                    c.segment_size_mb \in f[l].value /\ c.segment_size_mb > 0
          /\ \A j \in DevLines(f, i) :
                Len(f[j].words) = 3 =>
                    /\ c.devs[Cardinality(DevLines(f, j))].size_mb \in f[j].words[1]
                    /\ c.devs[Cardinality(DevLines(f, j))].size_mb > 0

\* A word that parses stands for a number on it.
LEMMA NumberType ==
    ASSUME NEW w \in Word
    PROVE  Number(w) \in Int /\ (w # {} => Number(w) \in w)
  <1>1. CASE w = {}
    BY <1>1 DEF Number
  <1>2. CASE w # {}
    <2>1. Number(w) \in w
      BY <1>2, Zenon DEF Number
    <2>. QED
      BY <2>1 DEF Word
  <1>. QED
    BY <1>1, <1>2

\* The lines of a kind up to the next line.
LEMMA LinesGrow ==
    ASSUME NEW f, NEW i \in Nat \ {0}
    PROVE  /\ IsFiniteSet(DevLines(f, i - 1))
           /\ Cardinality(DevLines(f, i - 1)) \in Nat
           /\ f[i].key = "dev" =>
                 /\ DevLines(f, i) = DevLines(f, i - 1) \cup {i}
                 /\ Cardinality(DevLines(f, i)) = Cardinality(DevLines(f, i - 1)) + 1
           /\ f[i].key # "dev" => DevLines(f, i) = DevLines(f, i - 1)
           /\ SizeLines(f, i) = IF f[i].key = "segment_size_mb" THEN SizeLines(f, i - 1) \cup {i}
                                ELSE SizeLines(f, i - 1)
  <1>1. IsFiniteSet(1 .. (i - 1))
    <2>1. 1 \in Int /\ i - 1 \in Int
      OBVIOUS
    <2>. QED
      BY <2>1, FS_Interval
  <1>2. DevLines(f, i - 1) \in SUBSET (1 .. (i - 1))
    BY DEF DevLines
  <1>3. IsFiniteSet(DevLines(f, i - 1)) /\ Cardinality(DevLines(f, i - 1)) \in Nat
    BY <1>1, <1>2, FS_Subset, FS_CardinalityType
  <1>4. 1 .. i = (1 .. (i - 1)) \cup {i} /\ i \notin 1 .. (i - 1)
    OBVIOUS
  <1>5. f[i].key = "dev" => DevLines(f, i) = DevLines(f, i - 1) \cup {i}
    BY <1>4 DEF DevLines
  <1>6. i \notin DevLines(f, i - 1)
    BY <1>2, <1>4
  <1>7. f[i].key # "dev" => DevLines(f, i) = DevLines(f, i - 1)
    BY <1>4 DEF DevLines
  <1>8. SizeLines(f, i) = IF f[i].key = "segment_size_mb" THEN SizeLines(f, i - 1) \cup {i}
                          ELSE SizeLines(f, i - 1)
    BY <1>4 DEF SizeLines
  <1>9. ASSUME f[i].key = "dev"
        PROVE  Cardinality(DevLines(f, i)) = Cardinality(DevLines(f, i - 1)) + 1
    BY <1>3, <1>5, <1>6, <1>9, FS_AddElement
  <1>. QED
    BY <1>3, <1>5, <1>7, <1>8, <1>9

\* The device lines up to a device line are at least one and no more than those up
\* to a later line.
LEMMA LineNumber ==
    ASSUME NEW f, NEW i \in Nat, NEW j \in DevLines(f, i)
    PROVE  Cardinality(DevLines(f, j)) \in 1 .. Cardinality(DevLines(f, i))
  <1>1. j \in 1 .. i /\ f[j].key = "dev"
    BY DEF DevLines
  <1>2. j \in Nat \ {0}
    BY <1>1
  <1>3. /\ Cardinality(DevLines(f, j - 1)) \in Nat
        /\ Cardinality(DevLines(f, j)) = Cardinality(DevLines(f, j - 1)) + 1
    BY <1>1, <1>2, LinesGrow
  <1>4. IsFiniteSet(1 .. i)
    BY FS_Interval
  <1>5. DevLines(f, i) \in SUBSET (1 .. i)
    BY DEF DevLines
  <1>6. IsFiniteSet(DevLines(f, i))
    BY <1>4, <1>5, FS_Subset
  <1>7. DevLines(f, j) \in SUBSET DevLines(f, i)
    BY <1>1 DEF DevLines
  <1>8. /\ Cardinality(DevLines(f, i)) \in Nat
        /\ Cardinality(DevLines(f, j)) <= Cardinality(DevLines(f, i))
    BY <1>6, <1>7, FS_Subset, FS_CardinalityType
  <1>. QED
    BY <1>3, <1>8

\* One round of the loop.
LEMMA ParseLine ==
    ASSUME NEW f \in Seq(Line), NEW i \in 1 .. Len(f), NEW c, ParseInv(f, i - 1, c)
    PROVE  ParseInv(f, i, AfterLine(c, f[i]))
  <1> DEFINE line == f[i]
             s == Scanned(c, line)
             next == AfterLine(c, line)
             Parser == [failed : BOOLEAN, segment_size_mb : Int, devs : Seq(Device),
                        words : [1 .. 3 -> Word]]
  <1>1. i \in Nat \ {0} /\ line \in Line
    OBVIOUS
  <1>2. c \in Parser
    BY DEF ParseInv
  <1>3. line.value \in Word /\ line.words \in Seq(Word)
    BY <1>1 DEF Line
  <1>4. /\ s \in Parser /\ s.failed = c.failed /\ s.segment_size_mb = c.segment_size_mb
        /\ s.devs = c.devs
        /\ Len(line.words) = 3 => s.words[1] = line.words[1]
    <2> DEFINE w == [k \in 1 .. 3 |-> IF k <= Len(line.words) THEN line.words[k]
                                     ELSE c.words[k]]
    <2>1. s = [c EXCEPT !.words = w]
      BY DEF Scanned
    <2>2. w \in [1 .. 3 -> Word]
      <3>1. ASSUME NEW k \in 1 .. 3 PROVE w[k] \in Word
        <4>1. c.words[k] \in Word
          BY <1>2
        <4>2. k <= Len(line.words) => line.words[k] \in Word
          BY <1>3
        <4>. QED
          BY <4>1, <4>2
      <3>. QED
        BY <3>1
    <2>3. Len(line.words) = 3 => w[1] = line.words[1]
      OBVIOUS
    <2> HIDE DEF w, s
    <2>. QED
      BY <1>2, <2>1, <2>2, <2>3
  <1> DEFINE D == DevLines(f, i)
             d == DevLines(f, i - 1)
             Z == SizeLines(f, i)
             z == SizeLines(f, i - 1)
  <1>5. /\ IsFiniteSet(d) /\ Cardinality(d) \in Nat
        /\ line.key = "dev" => D = d \cup {i} /\ Cardinality(D) = Cardinality(d) + 1
        /\ line.key # "dev" => D = d
        /\ Z = IF line.key = "segment_size_mb" THEN z \cup {i} ELSE z
    BY <1>1, LinesGrow
  <1>6. ~c.failed =>
          /\ c.segment_size_mb >= 0
          /\ Len(c.devs) = Cardinality(d)
          /\ \A l \in z : (\A k \in z : k <= l) =>
                             c.segment_size_mb \in f[l].value /\ c.segment_size_mb > 0
          /\ \A j \in d : Len(f[j].words) = 3 =>
                /\ c.devs[Cardinality(DevLines(f, j))].size_mb \in f[j].words[1]
                /\ c.devs[Cardinality(DevLines(f, j))].size_mb > 0
    BY DEF ParseInv
  <1>7. ParseInv(f, i, next) <=>
          /\ next \in Parser
          /\ ~next.failed =>
              /\ next.segment_size_mb >= 0
              /\ Len(next.devs) = Cardinality(D)
              /\ \A l \in Z : (\A k \in Z : k <= l) =>
                                 next.segment_size_mb \in f[l].value /\ next.segment_size_mb > 0
              /\ \A j \in D : Len(f[j].words) = 3 =>
                    /\ next.devs[Cardinality(DevLines(f, j))].size_mb \in f[j].words[1]
                    /\ next.devs[Cardinality(DevLines(f, j))].size_mb > 0
    BY DEF ParseInv
  <1>8. \A k \in z : k \in Nat /\ k < i
    BY <1>1 DEF SizeLines
  <1>9. \A j \in d : Cardinality(DevLines(f, j)) \in 1 .. Cardinality(d)
    <2>1. i - 1 \in Nat
      BY <1>1
    <2>. QED
      BY <2>1, LineNumber
  <1>10. CASE c.failed
    <2>1. next = c
      BY <1>10 DEF AfterLine
    <2> HIDE DEF next
    <2>. QED
      BY <1>2, <1>7, <1>10, <2>1 DEF next
  <1>11. CASE ~c.failed /\ line.key = "segment_size_mb"
    <2> DEFINE v == Number(line.value)
    <2>1. next = [s EXCEPT !.segment_size_mb = v, !.failed = v <= 0]
      BY <1>11 DEF AfterLine, SetSegmentSize
    <2>2. v \in Int /\ (line.value # {} => v \in line.value)
      BY <1>3, NumberType
    <2>3. v > 0 => v \in line.value
      BY <2>2 DEF Number
    <2> HIDE DEF v, next, s
    <2> DEFINE low == v <= 0
    <2>4. low \in BOOLEAN /\ next = [s EXCEPT !.segment_size_mb = v, !.failed = low]
      BY <2>1
    <2>5. ~low => v > 0
      BY <2>2
    <2> HIDE DEF low
    <2>6. /\ next \in Parser /\ next.segment_size_mb = v /\ next.failed = low
          /\ next.devs = c.devs
      BY <1>4, <2>2, <2>4
    <2>7. D = d /\ Z = z \cup {i}
      BY <1>5, <1>11
    <2> HIDE DEF D, d, Z, z
    <2>8. ASSUME NEW l \in Z, \A k \in Z : k <= l PROVE l = i
      <3>1. i \in Z /\ i <= l
        BY <2>7, <2>8
      <3>2. l = i \/ (l \in Nat /\ l < i)
        BY <1>8, <2>7
      <3>. QED
        BY <1>1, <3>1, <3>2
    <2>9. ASSUME ~low
          PROVE  /\ next.segment_size_mb >= 0
                 /\ Len(next.devs) = Cardinality(D)
                 /\ \A l \in Z : (\A k \in Z : k <= l) =>
                                    next.segment_size_mb \in f[l].value /\ next.segment_size_mb > 0
      <3>1. v >= 0 /\ v > 0 /\ v \in f[i].value
        BY <2>2, <2>3, <2>5, <2>9
      <3>. QED
        BY <1>6, <1>11, <2>6, <2>7, <2>8, <3>1
    <2>. QED
      BY <1>6, <1>7, <1>11, <2>6, <2>7, <2>9 DEF next
  <1>12. CASE ~c.failed /\ line.key = "dev"
    <2> DEFINE full == \/ Len(s.devs) >= MAX_DEVICES
                       \/ line.value = {} \/ \E k \in 1 .. 3 : s.words[k] = {}
                       \/ Number(s.words[1]) <= 0
               dev == [size_mb |-> Number(s.words[1]), tier_id |-> Number(s.words[2]),
                       dax_id |-> Number(s.words[3])]
    <2>1. next = IF full THEN [s EXCEPT !.failed = TRUE]
                 ELSE [s EXCEPT !.devs = Append(s.devs, dev)]
      BY <1>12 DEF AfterLine, AddDevice
    <2>2. \A k \in 1 .. 3 : Number(s.words[k]) \in Int
                            /\ (s.words[k] # {} => Number(s.words[k]) \in s.words[k])
      BY <1>4, NumberType
    <2>3. dev \in Device /\ dev.size_mb = Number(s.words[1])
      BY <2>2 DEF Device
    <2>4. ~full => dev.size_mb \in s.words[1] /\ dev.size_mb > 0
      BY <2>2, <2>3
    <2> HIDE DEF full, dev, next, s
    <2>5. CASE full
      <3>1. next \in Parser /\ next.failed
        BY <1>4, <2>1, <2>5
      <3>. QED
        BY <1>7, <3>1 DEF next
    <2>6. CASE ~full
      <3>1. Append(c.devs, dev) \in Seq(Device)
        BY <1>2, <2>3
      <3>2. /\ Len(Append(c.devs, dev)) = Len(c.devs) + 1
            /\ \A k \in 1 .. Len(c.devs) : Append(c.devs, dev)[k] = c.devs[k]
            /\ Append(c.devs, dev)[Len(c.devs) + 1] = dev
        BY <1>2, <2>3
      <3>3. /\ next \in Parser /\ ~next.failed
            /\ next.devs = Append(c.devs, dev)
            /\ next.segment_size_mb = c.segment_size_mb
        BY <1>4, <1>12, <2>1, <2>6, <3>1
      <3>4. D = d \cup {i} /\ Cardinality(D) = Cardinality(d) + 1 /\ Z = z
        BY <1>5, <1>12
      <3>5. Len(c.devs) = Cardinality(d) /\ Cardinality(d) \in Nat
        BY <1>5, <1>6, <1>12
      <3> HIDE DEF d, Z, z
      <3>6. ASSUME NEW j \in D, Len(f[j].words) = 3
            PROVE  /\ next.devs[Cardinality(DevLines(f, j))].size_mb \in f[j].words[1]
                   /\ next.devs[Cardinality(DevLines(f, j))].size_mb > 0
        <4>1. CASE j = i
          <5>1. Cardinality(DevLines(f, j)) = Len(c.devs) + 1
            BY <3>4, <3>5, <4>1
          <5>2. next.devs[Cardinality(DevLines(f, j))] = dev
            BY <3>2, <3>3, <5>1
          <5>3. s.words[1] = f[j].words[1]
            BY <1>4, <3>6, <4>1
          <5>. QED
            BY <2>4, <2>6, <5>2, <5>3
        <4>2. CASE j \in d
          <5>1. Cardinality(DevLines(f, j)) \in 1 .. Len(c.devs)
            BY <1>9, <3>5, <4>2
          <5>2. next.devs[Cardinality(DevLines(f, j))] = c.devs[Cardinality(DevLines(f, j))]
            BY <3>2, <3>3, <5>1
          <5>. QED
            BY <1>6, <1>12, <3>6, <4>2, <5>2
        <4>. QED
          BY <3>4, <4>1, <4>2
      <3> HIDE DEF D
      <3>7. Len(next.devs) = Cardinality(D)
        BY <3>2, <3>3, <3>4, <3>5
      <3>. QED
        BY <1>6, <1>7, <1>12, <3>3, <3>4, <3>6, <3>7 DEF next
    <2>. QED
      BY <2>5, <2>6
  <1>13. CASE ~c.failed /\ line.key # "segment_size_mb" /\ line.key # "dev"
    <2>1. next = s
      BY <1>13 DEF AfterLine
    <2>2. D = d /\ Z = z
      BY <1>5, <1>13
    <2> HIDE DEF next, s, D, d, Z, z
    <2>. QED
      BY <1>4, <1>6, <1>7, <1>13, <2>1, <2>2 DEF next
  <1>14. c.failed \in BOOLEAN
    BY <1>2
  <1>. QED
    BY <1>10, <1>11, <1>12, <1>13, <1>14

\* The parser has read the whole file.
LEMMA ParseFile ==
    ASSUME NEW f \in Seq(Line)
    PROVE  ParseInv(f, Len(f), memory_pool_load_config(f))
  <1> DEFINE n == Len(f)
  <1>1. n \in Nat
    OBVIOUS
  <1>2. PICK after : ParseRun(after, f) /\ memory_pool_load_config(f) = after[n]
    BY <1>1, ParseLoop
  <1>3. \A i \in 0 .. n : after[i] = IF i = 0 THEN Fresh ELSE AfterLine(after[i - 1], f[i])
    BY <1>2 DEF ParseRun
  <1> DEFINE T == {i \in 0 .. n : ~ParseInv(f, i, after[i])}
  <1>4. ParseInv(f, 0, Fresh)
    <2>1. DevLines(f, 0) = {} /\ SizeLines(f, 0) = {}
      BY DEF DevLines, SizeLines
    <2>2. [k \in 1 .. 3 |-> {}] \in [1 .. 3 -> Word]
      BY DEF Word
    <2>3. << >> \in Seq(Device) /\ Len(<< >>) = 0
      OBVIOUS
    <2>4. Cardinality({}) = 0
      BY FS_EmptySet
    <2> DEFINE w == [k \in 1 .. 3 |-> {}]
    <2>5. w \in [1 .. 3 -> Word] /\ Fresh = [failed |-> FALSE, segment_size_mb |-> 0,
                                            devs |-> << >>, words |-> w]
      BY <2>2 DEF Fresh
    <2> HIDE DEF w
    <2>6. Fresh \in [failed : BOOLEAN, segment_size_mb : Int, devs : Seq(Device),
                    words : [1 .. 3 -> Word]]
      BY <2>3, <2>5
    <2>7. Fresh.segment_size_mb = 0 /\ Fresh.devs = << >>
      BY <2>5
    <2>8. Len(Fresh.devs) = Cardinality(DevLines(f, 0))
      BY <2>1, <2>3, <2>4, <2>7
    <2>. QED
      BY <2>1, <2>6, <2>7, <2>8 DEF ParseInv
  <1>5. T = {}
    <2>1. SUFFICES ASSUME T # {} PROVE FALSE
      OBVIOUS
    <2>2. PICK m \in T : \A i \in T : m <= i
      <3>1. T \in SUBSET Nat
        BY <1>1
      <3> HIDE DEF T
      <3>. QED
        BY <2>1, <3>1, LeastNat
    <2>3. m \in 0 .. n /\ ~ParseInv(f, m, after[m])
      OBVIOUS
    <2>4. m # 0
      BY <1>1, <1>3, <1>4, <2>3
    <2>5. m - 1 \in 0 .. n /\ m \in 1 .. n /\ ~(m <= m - 1)
      BY <1>1, <2>3, <2>4
    <2>6. ParseInv(f, m - 1, after[m - 1])
      BY <2>2, <2>5
    <2>7. after[m] = AfterLine(after[m - 1], f[m])
      BY <1>3, <2>3, <2>4
    <2> HIDE DEF T
    <2>8. ParseInv(f, m, AfterLine(after[m - 1], f[m]))
      BY <2>5, <2>6, ParseLine
    <2>. QED
      BY <2>3, <2>7, <2>8
  <1>6. n \in 0 .. n /\ n \notin T
    BY <1>1, <1>5
  <1>. QED
    BY <1>2, <1>6

\* The segments that fit into a device.
LEMMA SegmentsFit ==
    ASSUME NEW size \in Nat, NEW seg \in Nat \ {0}
    PROVE  LET n == size \div seg
           IN  n * seg <= size /\ size < (n + 1) * seg
  <1> DEFINE n == size \div seg
  <1>1. n \in Int /\ size % seg \in 0 .. (seg - 1) /\ size = seg * n + (size % seg)
    OBVIOUS
  <1> DEFINE r == size % seg
             p == n * seg
  <1>2. seg * n = p /\ (n + 1) * seg = p + seg /\ p \in Int
    BY <1>1
  <1>3. p <= size /\ size < p + seg
    <2>1. r \in 0 .. (seg - 1) /\ size = p + r
      BY <1>1, <1>2
    <2> HIDE DEF p, r, n
    <2>. QED
      BY <1>2, <2>1
  <1>. QED
    BY <1>2, <1>3

\* What a pool is when it is as its file says.
AsConfigured(f, p) ==
    /\ Len(p) = Cardinality(DevLines(f, Len(f)))
    /\ \A i \in DevLines(f, Len(f)), l \in SizeLines(f, Len(f)) :
          /\ Len(f[i].words) = 3
          /\ \A k \in SizeLines(f, Len(f)) : k <= l
          => \A size \in f[i].words[1], seg \in f[l].value :
                LET n == p[Cardinality(DevLines(f, i))]
                IN  n * seg <= size /\ size < (n + 1) * seg

\* memory_pool_init() makes the pool of a file that it takes.
LEMMA PoolRight ==
    ASSUME NEW f \in ConfigFile, PoolOutcome(f) = "ready"
    PROVE  AsConfigured(f, Pool(f))
  <1> DEFINE c == memory_pool_load_config(f)
             N == Len(f)
  <1>1. /\ f \in Seq(Line)
        /\ \A i \in DOMAIN f : /\ OneNumber(f[i].value)
                               /\ \A j \in DOMAIN f[i].words : OneNumber(f[i].words[j])
    BY ConfigAssumption
  <1>2. ParseInv(f, N, c)
    BY <1>1, ParseFile
  <1>3. /\ c \in [failed : BOOLEAN, segment_size_mb : Int, devs : Seq(Device),
                  words : [1 .. 3 -> Word]]
        /\ ~c.failed
    <2>1. c \in [failed : BOOLEAN, segment_size_mb : Int, devs : Seq(Device),
                 words : [1 .. 3 -> Word]]
      BY <1>2 DEF ParseInv
    <2>2. c.failed => PoolOutcome(f) = "error"
      BY DEF PoolOutcome
    <2>. QED
      BY <2>1, <2>2
  <1>4. /\ Len(c.devs) = Cardinality(DevLines(f, N))
        /\ \A l \in SizeLines(f, N) :
              (\A k \in SizeLines(f, N) : k <= l) =>
                  c.segment_size_mb \in f[l].value /\ c.segment_size_mb > 0
        /\ \A j \in DevLines(f, N) :
              Len(f[j].words) = 3 =>
                  /\ c.devs[Cardinality(DevLines(f, j))].size_mb \in f[j].words[1]
                  /\ c.devs[Cardinality(DevLines(f, j))].size_mb > 0
    BY <1>2, <1>3 DEF ParseInv
  <1>5. Pool(f) = [d \in 1 .. Len(c.devs) |-> c.devs[d].size_mb \div c.segment_size_mb]
    BY DEF Pool
  <1> HIDE DEF c
  <1>6. Len(Pool(f)) = Len(c.devs)
    BY <1>3, <1>5
  <1>7. ASSUME NEW i \in DevLines(f, N), NEW l \in SizeLines(f, N),
               Len(f[i].words) = 3, \A k \in SizeLines(f, N) : k <= l,
               NEW size \in f[i].words[1], NEW seg \in f[l].value
        PROVE  LET n == Pool(f)[Cardinality(DevLines(f, i))]
               IN  n * seg <= size /\ size < (n + 1) * seg
    <2> DEFINE d == Cardinality(DevLines(f, i))
    <2>1. i \in 1 .. N /\ l \in 1 .. N /\ N \in Nat
      BY <1>1 DEF DevLines, SizeLines
    <2>2. d \in 1 .. Len(c.devs)
      BY <1>4, <2>1, LineNumber
    <2>3. /\ c.devs[d].size_mb \in f[i].words[1] /\ c.devs[d].size_mb > 0
          /\ c.segment_size_mb \in f[l].value /\ c.segment_size_mb > 0
      BY <1>4, <1>7
    <2>4. OneNumber(f[l].value) /\ OneNumber(f[i].words[1])
      <3>1. i \in DOMAIN f /\ l \in DOMAIN f
        BY <1>1, <2>1
      <3>2. f[i].words \in Seq(Word)
        <4>1. f[i] \in Line
          BY <1>1, <2>1
        <4>. QED
          BY <4>1 DEF Line
      <3>3. 1 \in DOMAIN f[i].words
        BY <1>7, <3>2
      <3>. QED
        BY <1>1, <3>1, <3>3
    <2>5. size = c.devs[d].size_mb /\ seg = c.segment_size_mb
      BY <1>7, <2>3, <2>4 DEF OneNumber
    <2>6. size \in Nat /\ seg \in Nat \ {0}
      <3>1. c.devs[d] \in Device
        BY <1>3, <2>2
      <3>2. c.devs[d].size_mb \in Int /\ c.segment_size_mb \in Int
        BY <1>3, <3>1 DEF Device
      <3>. QED
        BY <2>3, <2>5, <3>2
    <2>7. Pool(f)[d] = size \div seg
      BY <1>5, <2>2, <2>5
    <2>8. LET n == size \div seg IN n * seg <= size /\ size < (n + 1) * seg
      BY <2>6, SegmentsFit
    <2>. QED
      BY <2>7, <2>8
  <1>. QED
    BY <1>4, <1>6, <1>7 DEF AsConfigured

\* The manager leaves memory_pool_init() only with the pool of its file.
PoolInv ==
    /\ file \in ConfigFile
    /\ server \in [pc : {server.pc}, conn : {server.conn}, monitor : {server.monitor},
                   response : {server.response}]
    /\ server.pc \in {"monitor", "listen", "accept", "recv", "handle", "send"} =>
          PoolOutcome(file) = "ready" /\ pool = Pool(file)

LEMMA PoolInvNext ==
    ASSUME PoolInv, [Next]_vars
    PROVE  PoolInv'
  <1> USE DEF PoolInv
  <1>1. CASE InitPool
    BY <1>1 DEF InitPool, ServerStep
  <1>2. CASE StartMonitor
    BY <1>2 DEF StartMonitor, ServerStep
  <1>3. CASE Listen
    BY <1>3 DEF Listen, ServerStep
  <1>4. CASE Accept
    BY <1>4 DEF Accept
  <1>5. CASE Recv
    BY <1>5 DEF Recv
  <1>6. CASE Dispatch
    BY <1>6 DEF Dispatch
  <1>7. CASE Send
    BY <1>7 DEF Send
  <1>8. CASE Signal
    BY <1>8 DEF Signal
  <1>9. CASE Stop
    BY <1>9 DEF Stop, ServerStep
  <1>10. ASSUME NEW c \in Client, Connect(c) \/ ClientContinue(c) \/ Die(c)
         PROVE  UNCHANGED <<server, file, pool>>
    BY <1>10 DEF Connect, ClientContinue, SendCommand, ReceiveAnswer, Die
  <1>11. CASE UNCHANGED <<server, file, pool>>
    BY <1>11
  <1>12. CASE UNCHANGED vars
    BY <1>11, <1>12 DEF vars
  <1>. QED
    BY <1>1, <1>2, <1>3, <1>4, <1>5, <1>6, <1>7, <1>8, <1>9, <1>10, <1>11, <1>12
    DEF Next, Server

\* memory_pool_load_config and init_memory_resource: once the manager listens,
\* every device of its file is in the pool with the segments that fit into it,
\* wherever the segment size stands in the file and however long the file is.
THEOREM PoolAlwaysAsConfigured == Spec => []PoolAsConfigured
  <1>1. Init => PoolInv
    BY DEF Init, PoolInv
  <1>2. PoolInv => PoolAsConfigured
    <2>1. ASSUME PoolInv, Listening
          PROVE  AsConfigured(file, pool)
      BY <2>1, PoolRight DEF PoolInv, Listening
    <2>. QED
      BY <2>1, Zenon DEF AsConfigured, PoolAsConfigured
  <1>3. PoolInv /\ [Next]_vars => PoolInv'
    BY PoolInvNext
  <1>. QED
    BY <1>1, <1>2, <1>3, PTL DEF Spec
=============================================================================
