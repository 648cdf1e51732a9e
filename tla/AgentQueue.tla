------------------------------ MODULE AgentQueue ------------------------------
(***************************************************************************)
(* The redis queue between the backend and one agent, and the listen loops *)
(* that drain it: RedisAgentQueue (facade/consumers/agent_queue.py), its   *)
(* producers (AgentConsumer.broadcast, transport.deliver_to_agent) and     *)
(* RegisteredSession.listen_for_tasks (facade/consumers/agent_protocol.py).*)
(*                                                                         *)
(* Every message carries its own uuid, so payloads are distinct and lrem   *)
(* by value removes one message.  Several loops may run at once: a fenced  *)
(* connection drains until its next heartbeat.                             *)
(***************************************************************************)
EXTENDS Sequences, SequencesExt, Integers, FiniteSets

CONSTANTS
    Messages,    \* what producers may push, each once
    Loops,       \* the connections whose loops drain the queue, each once
    Stable       \* the connections whose worker, redis link and peer never fail

ASSUME StableAssumption == Stable \subseteq Loops

VARIABLES
    queue,       \* {agent}_my_queue, its head is popped next
    processing,  \* {agent}_processing
    order,       \* history: messages in the order they were pushed
    loop,        \* where each listen loop stands
    holding,     \* the message a loop has popped, as a set of at most one
    peer,        \* the client still reads from the socket
    received,    \* per connection, the messages its client has received
    acked        \* history: messages removed from the processing list

queueVars == <<queue, processing, order, loop, holding, peer, received, acked>>

LoopStates == {"new", "popping", "sending", "acking", "stopped"}

QueueTypeOK ==
    /\ queue \in Seq(Messages)
    /\ order \in Seq(Messages)
    /\ processing \subseteq Messages
    /\ acked \subseteq Messages
    /\ loop \in [Loops -> LoopStates]
    /\ holding \in [Loops -> SUBSET Messages]
    /\ peer \in [Loops -> BOOLEAN]
    /\ received \in [Loops -> Seq(Messages)]

QueueInit ==
    /\ queue = <<>>
    /\ processing = {}
    /\ order = <<>>
    /\ loop = [c \in Loops |-> "new"]
    /\ holding = [c \in Loops |-> {}]
    /\ peer = [c \in Loops |-> TRUE]
    /\ received = [c \in Loops |-> <<>>]
    /\ acked = {}

\* lpush by a backend mutation, a reconcile or a signal handler.
Push(m) ==
    /\ m \notin Range(order)
    /\ queue' = Append(queue, m)
    /\ order' = Append(order, m)
    /\ UNCHANGED <<processing, loop, holding, peer, received, acked>>

\* on_register spawns the listen loop.
Start(c) ==
    /\ loop[c] = "new"
    /\ loop' = [loop EXCEPT ![c] = "popping"]
    /\ UNCHANGED <<queue, processing, order, holding, peer, received, acked>>

\* A mutant of Pop: the message is read, and leaves the queue only with its ack.
PopByReading(c) ==
    /\ loop[c] = "popping"
    /\ queue # <<>>
    /\ holding' = [holding EXCEPT ![c] = {Head(queue)}]
    /\ processing' = processing \cup {Head(queue)}
    /\ loop' = [loop EXCEPT ![c] = "sending"]
    /\ UNCHANGED <<queue, order, peer, received, acked>>

\* A mutant of Pop: the newest message is taken first.
PopNewest(c) ==
    /\ loop[c] = "popping"
    /\ queue # <<>>
    /\ holding' = [holding EXCEPT ![c] = {Last(queue)}]
    /\ processing' = processing \cup {Last(queue)}
    /\ queue' = Front(queue)
    /\ loop' = [loop EXCEPT ![c] = "sending"]
    /\ UNCHANGED <<order, peer, received, acked>>

\* blmove: one atomic move into the processing list, and the reply arrives.
Pop(c) ==
    /\ loop[c] = "popping"
    /\ queue # <<>>
    /\ holding' = [holding EXCEPT ![c] = {Head(queue)}]
    /\ processing' = processing \cup {Head(queue)}
    /\ queue' = Tail(queue)
    /\ loop' = [loop EXCEPT ![c] = "sending"]
    /\ UNCHANGED <<order, peer, received, acked>>

\* The frame is written to the socket.  If the client is gone, nobody reads it,
\* and nothing tells the loop.
Send(c) ==
    /\ loop[c] = "sending"
    /\ received' = [received EXCEPT ![c] = IF peer[c] THEN @ \o SetToSeq(holding[c]) ELSE @]
    /\ loop' = [loop EXCEPT ![c] = "acking"]
    /\ UNCHANGED <<queue, processing, order, holding, peer, acked>>

\* A mutant of Ack: the whole processing list is dropped, as if it belonged to
\* this connection alone.
AckAll(c) ==
    /\ loop[c] = "acking"
    /\ processing' = {}
    /\ acked' = acked \cup processing
    /\ holding' = [holding EXCEPT ![c] = {}]
    /\ loop' = [loop EXCEPT ![c] = "popping"]
    /\ UNCHANGED <<queue, order, peer, received>>

\* A mutant of Ack: the loop returns after its first message.
AckAndReturn(c) ==
    /\ loop[c] = "acking"
    /\ processing' = processing \ holding[c]
    /\ acked' = acked \cup holding[c]
    /\ holding' = [holding EXCEPT ![c] = {}]
    /\ loop' = [loop EXCEPT ![c] = "stopped"]
    /\ UNCHANGED <<queue, order, peer, received>>

\* lrem by value, and the loop goes back to its pop.
Ack(c) ==
    /\ loop[c] = "acking"
    /\ processing' = processing \ holding[c]
    /\ acked' = acked \cup holding[c]
    /\ holding' = [holding EXCEPT ![c] = {}]
    /\ loop' = [loop EXCEPT ![c] = "popping"]
    /\ UNCHANGED <<queue, order, peer, received>>

\* stop_executing or shutdown cancels the loop, redis or the socket raises in it,
\* or the worker dies: the loop ends at the await it stands at, for good.
Stop(c) ==
    /\ c \notin Stable
    /\ loop[c] \in {"popping", "sending", "acking"}
    /\ loop' = [loop EXCEPT ![c] = "stopped"]
    /\ holding' = [holding EXCEPT ![c] = {}]
    /\ UNCHANGED <<queue, processing, order, peer, received, acked>>

\* The same, when redis has already moved a message whose reply the cancelled
\* call never sees.
StopInPop(c) ==
    /\ c \notin Stable
    /\ loop[c] = "popping"
    /\ queue # <<>>
    /\ processing' = processing \cup {Head(queue)}
    /\ queue' = Tail(queue)
    /\ loop' = [loop EXCEPT ![c] = "stopped"]
    /\ UNCHANGED <<order, holding, peer, received, acked>>

\* The client vanishes; the server does not notice before a heartbeat times out.
PeerVanishes(c) ==
    /\ c \notin Stable
    /\ peer[c]
    /\ loop[c] # "stopped"
    /\ peer' = [peer EXCEPT ![c] = FALSE]
    /\ UNCHANGED <<queue, processing, order, loop, holding, received, acked>>

QueueNext ==
    \/ \E m \in Messages : Push(m)
    \/ \E c \in Loops : \/ Start(c) \/ Pop(c) \/ Send(c) \/ Ack(c)
                        \/ Stop(c) \/ StopInPop(c) \/ PeerVanishes(c)

QueueSpec == QueueInit /\ [][QueueNext]_queueVars

\* A stable connection registers, and its loop keeps running.
QueueFairSpec ==
    /\ QueueSpec
    /\ \A c \in Stable : /\ WF_queueVars(Start(c))
                         /\ WF_queueVars(Pop(c))
                         /\ WF_queueVars(Send(c))
                         /\ WF_queueVars(Ack(c))

-----------------------------------------------------------------------------
(* Properties.                                                              *)

Delivered == UNION {Range(received[c]) : c \in Loops}

(***************************************************************************)
(* Two loops that drain the same queue, a fenced one and its successor,    *)
(* never hand the same message to a client twice (blmove is atomic and     *)
(* nothing puts a popped message back): delivery is at most once.          *)
(***************************************************************************)
AtMostOnce ==
    /\ \A c \in Loops : IsInjective(received[c])
    /\ \A c, d \in Loops : Range(received[c]) \cap Range(received[d]) # {} => c = d

(***************************************************************************)
(* A client sees its messages in the order in which the backend pushed     *)
(* them (lpush and blmove from the right), so a Cancel never overtakes the *)
(* Assign it belongs to on one connection, however many loops compete.     *)
(***************************************************************************)
Before(m, n) == \E i, j \in DOMAIN order : i < j /\ order[i] = m /\ order[j] = n

ArrivesInOrder ==
    \A c \in Loops : \A i, j \in DOMAIN received[c] :
        i < j => Before(received[c][i], received[c][j])

(***************************************************************************)
(* A message a loop has popped and not acked yet is in the processing list *)
(* and no longer in the queue: no ack of another loop on the shared        *)
(* per-agent list drops it (ack removes by value, never the whole list).   *)
(***************************************************************************)
HeldIsRecorded ==
    \A c \in Loops : holding[c] \subseteq processing \ Range(queue)

(***************************************************************************)
(* With one connection whose loop keeps running, no message waits in the   *)
(* queue forever, whatever the other loops do (pop blocks, and is entered  *)
(* again after every ack).                                                 *)
(***************************************************************************)
NothingWaitsForever ==
    \A m \in Messages : (m \in Range(queue)) ~> (m \notin Range(queue))
=============================================================================
