----------------------------- MODULE RpcService -----------------------------
(***************************************************************************)
(* What the RPC server promises, without sockets, queues or buffers: a     *)
(* request is handled at most once, by the command its client wrote, and   *)
(* only its client gets the answer.  A client may be left without one.     *)
(* An update that comes without arguments acts on those of the last update *)
(* handled before it.                                                      *)
(***************************************************************************)
EXTENDS Integers, Sequences

CONSTANTS Client, Request, Update, Args,
          None,     \* no arguments
          Garbage   \* what stands for arguments before the first update

VARIABLES asked,    \* asked[c]: the request of client c, as a set of at most one
          handled,  \* the calls of handlers so far, each with its client
          answer,   \* answer[c]: the call whose answer c was given, as a set
          lost      \* clients that will get no answer

vars == <<asked, handled, answer, lost>>

Init ==
    /\ asked = [c \in Client |-> {}]
    /\ handled = <<>>
    /\ answer = [c \in Client |-> {}]
    /\ lost = {}

WasHandled(c) == \E i \in DOMAIN handled : handled[i].client = c

Ask(c, r) ==
    /\ asked[c] = {}
    /\ c \notin lost
    /\ asked' = [asked EXCEPT ![c] = {r}]
    /\ UNCHANGED <<handled, answer, lost>>

IsUpdate(i) == handled[i].request.cmd \in Update

\* The last update that was handled acted on a.
LeftOver(a) ==
    \/ /\ a = Garbage
       /\ \A i \in DOMAIN handled : ~IsUpdate(i)
    \/ \E i \in DOMAIN handled :
          /\ IsUpdate(i) /\ handled[i].request.args = a
          /\ \A j \in DOMAIN handled : j > i => ~IsUpdate(j)

\* Its own arguments, or what is left over if it needs some and has none.
ActsOn(r, a) ==
    IF r.cmd \in Update /\ r.args = None THEN LeftOver(a) ELSE a = r.args

Handle(c) ==
    /\ ~WasHandled(c)
    /\ \E r \in asked[c], a \in Args \cup {Garbage, None} :
          /\ ActsOn(r, a)
          /\ handled' = Append(handled, [client |-> c,
                                         request |-> [cmd |-> r.cmd, args |-> a]])
    /\ UNCHANGED <<asked, answer, lost>>

Answer(c) ==
    /\ answer[c] = {}
    /\ c \notin lost
    /\ \E i \in DOMAIN handled :
          /\ handled[i].client = c
          /\ answer' = [answer EXCEPT ![c] = {handled[i].request}]
    /\ UNCHANGED <<asked, handled, lost>>

GiveUp(c) ==
    /\ answer[c] = {}
    /\ c \notin lost
    /\ lost' = lost \cup {c}
    /\ UNCHANGED <<asked, handled, answer>>

Next ==
    \E c \in Client :
        (\E r \in Request : Ask(c, r)) \/ Handle(c) \/ Answer(c) \/ GiveUp(c)

Spec == Init /\ [][Next]_vars
=============================================================================
