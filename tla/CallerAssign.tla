----------------------------- MODULE CallerAssign -----------------------------
(***************************************************************************)
(* An agent assigns dependent work over its sockets: the AssignRequest     *)
(* branch of message_router.py, _caller_assign_sync (persist_backend.py),  *)
(* assign and _assign_higher_order (backend.py), and the way results come  *)
(* back: publish_task_event (transport.py), channel_TaskEventCreatedEvent  *)
(* (async_consumer.py), and for a HookAgent hook_intake (http_intake.py)   *)
(* and deliver_to_hook (hooks.py).                                         *)
(*                                                                         *)
(* One caller, whose client resends a reference on another line when it    *)
(* had no answer.  Each statement of the synchronous path autocommits, and *)
(* requests of different sockets, or by HTTP, run in different threads.    *)
(* A socket dispatches frames and channel events one at a time; HTTP       *)
(* requests and POSTs wait for nothing.                                    *)
(***************************************************************************)
EXTENDS Integers, Sequences, SequencesExt, FiniteSets

CONSTANTS
    Sockets,       \* the caller's connections
    Hooks,         \* the caller's HookAgents
    Requests,      \* AssignRequests, each sent at most once
    Line,          \* [Requests -> Sockets \cup Hooks], where a request is sent
    Reference,     \* [Requests -> references], the idempotency key
    Wrapped,       \* references whose implementation is higher-order
    Hooked,        \* references whose executing agent is a HookAgent
    Story          \* the event kinds an executing agent reports, in order

References == {Reference[q] : q \in Requests}
Lines      == Sockets \cup Hooks

\* The kinds with a message to the caller; UNASSIGN has none.
ExecutionEvents ==
    {"PROGRESS", "YIELD", "LOG", "FAILED", "CRITICAL", "DISCONNECTED", "COMPLETED", "BOUND",
     "QUEUED", "STARTED", "DELEGATE", "CANCELLING", "CANCELLED", "INTERRUPTING", "INTERRUPTED",
     "PAUSING", "PAUSED", "RESUMING", "RESUMED"}

ASSUME RequestsAssumption ==
    /\ Sockets \cap Hooks = {}
    /\ Line \in [Requests -> Lines]
    /\ Wrapped \subseteq References /\ Hooked \subseteq References
    /\ "uuid4" \notin References
    /\ Story \in Seq(ExecutionEvents \cup {"UNASSIGN"})

VARIABLES
    rows,      \* Task rows by primary key: reference, parent row, creator, witnesses, events
    pushed,    \* the rows whose Assign was handed to the transport of their agent
    lost,      \* the rows whose Assign was POSTed in vain
    pc,        \* where the handler of a request stands
    row,       \* the row a handler created or found, 0 for none
    created,   \* the row is the handler's own
    mirrors,   \* the TaskEvents that wait in each socket's channel
    posting,   \* the TaskEvents on their way to the caller's HookAgent
    log        \* what the client has received on each line

vars == <<rows, pushed, lost, pc, row, created, mirrors, posting, log>>

Steps == {"unsent", "lookup", "resolve", "lower", "mint", "push",
          "answer", "refuse", "over", "dead"}
TaskEvents == [task : DOMAIN rows, kind : Range(Story)]

TypeOK ==
    /\ \A i \in DOMAIN rows : rows[i].maker \in Requests /\ rows[i].parent \in 0 .. i - 1
    /\ lost \subseteq pushed /\ pushed \subseteq DOMAIN rows
    /\ pc \in [Requests -> Steps]
    /\ row \in [Requests -> 0 .. Len(rows)]
    /\ created \in [Requests -> BOOLEAN]
    /\ \A k \in Sockets : Range(mirrors[k]) \subseteq TaskEvents
    /\ posting \subseteq TaskEvents
    /\ DOMAIN log = Lines

Init ==
    /\ rows = <<>>
    /\ pushed = {}
    /\ lost = {}
    /\ pc = [q \in Requests |-> "unsent"]
    /\ row = [q \in Requests |-> 0]
    /\ created = [q \in Requests |-> FALSE]
    /\ mirrors = [k \in Sockets |-> <<>>]
    /\ posting = {}
    /\ log = [k \in Lines |-> <<>>]

\* A handler that has not returned; its socket takes nothing else meanwhile.
Running(q) == pc[q] \notin {"unsent", "over", "dead"}
Busy(k)    == \E q \in Requests : Line[q] = k /\ Running(q)
\* No worker died with a request of this socket, and the socket with it.
Up(k)      == \A q \in Requests : Line[q] = k => pc[q] # "dead"

\* models.Task.objects.filter(caller=caller, reference=reference).
Matching(ref) == {i \in DOMAIN rows : rows[i].ref = ref}

\* models.Task.objects.create.  The witnesses, kept for the properties, are the
\* requests that were already past their lookup.
NewRow(q, ref, parent) ==
    Append(rows, [ref |-> ref, parent |-> parent, maker |-> q, events |-> 0,
                  witnesses |-> {p \in Requests : Running(p) /\ pc[p] # "lookup"}])

Goto(q, step) == pc' = [pc EXCEPT ![q] = step]

\* The consumer of a socket dispatches an AssignRequest.
Receive(q) ==
    /\ pc[q] = "unsent"
    /\ Line[q] \in Sockets /\ Up(Line[q]) /\ ~Busy(Line[q])
    /\ Goto(q, "lookup")
    /\ UNCHANGED <<rows, pushed, lost, row, created, mirrors, posting, log>>

\* hook_intake: a HookAgent posts an AssignRequest, whatever else it has posted; it is
\* turned away if the agent is gone or blocked, the signature is not its own, or the
\* message cannot be parsed.
HookIntake(q) ==
    /\ pc[q] = "unsent" /\ Line[q] \in Hooks
    /\ \E step \in {"lookup", "refuse"} : Goto(q, step)
    /\ UNCHANGED <<rows, pushed, lost, row, created, mirrors, posting, log>>

\* A mutant of Lookup: only what this very connection has assigned is known.
LookupOwnSocket(q) ==
    LET mine == {i \in Matching(Reference[q]) : Line[rows[i].maker] = Line[q]} IN
    /\ pc[q] = "lookup"
    /\ row' = [row EXCEPT ![q] = IF mine = {} THEN 0 ELSE Min(mine)]
    /\ Goto(q, IF mine = {} THEN "resolve" ELSE "answer")
    /\ UNCHANGED <<rows, pushed, lost, created, mirrors, posting, log>>

\* _caller_assign_sync: the oldest task of that reference is the answer.
Lookup(q) ==
    LET known == Matching(Reference[q]) IN
    /\ pc[q] = "lookup"
    /\ row' = [row EXCEPT ![q] = IF known = {} THEN 0 ELSE Min(known)]
    /\ Goto(q, IF known = {} THEN "resolve" ELSE "answer")
    /\ UNCHANGED <<rows, pushed, lost, created, mirrors, posting, log>>

\* No parent, no such action, no available implementation, a dependency that
\* cannot be resolved, hooks (HookInputModel objects, which the JSON column of
\* Task.hooks cannot store): an exception before anything is written.
Reject(q) ==
    /\ pc[q] = "resolve"
    /\ Goto(q, "refuse")
    /\ UNCHANGED <<rows, pushed, lost, row, created, mirrors, posting, log>>

\* The task row, or the wrapper's.
Create(q) ==
    /\ pc[q] = "resolve"
    /\ rows' = NewRow(q, Reference[q], 0)
    /\ row' = [row EXCEPT ![q] = Len(rows')]
    /\ created' = [created EXCEPT ![q] = TRUE]
    /\ Goto(q, IF Reference[q] \in Wrapped THEN "lower" ELSE "mint")
    /\ UNCHANGED <<pushed, lost, mirrors, posting, log>>

\* _assign_higher_order: the child that runs for the wrapper, under a fresh reference.
CreateLower(q) ==
    /\ pc[q] = "lower"
    /\ rows' = NewRow(q, "uuid4", row[q])
    /\ Goto(q, "mint")
    /\ UNCHANGED <<pushed, lost, row, created, mirrors, posting, log>>

\* A mutant of Mint: the refusal of the mint is not one the router expects.
MintUncaught(q) ==
    /\ pc[q] = "mint"
    /\ \E step \in {"push", "over"} : Goto(q, step)
    /\ UNCHANGED <<rows, pushed, lost, row, created, mirrors, posting, log>>

\* mint_token_for_task, which refuses a root that is no accountable human.
Mint(q) ==
    /\ pc[q] = "mint"
    /\ \E step \in {"push", "refuse"} : Goto(q, step)
    /\ UNCHANGED <<rows, pushed, lost, row, created, mirrors, posting, log>>

\* The row whose Assign goes out: the task itself, or the wrapper's child.
Executing(i) ==
    IF \E j \in DOMAIN rows : rows[j].parent = i
    THEN CHOOSE j \in DOMAIN rows : rows[j].parent = i
    ELSE i

\* deliver_to_agent: into the queue, or a POST whose failure is logged and not raised.
DeliverToAgent(i) ==
    /\ pushed' = pushed \cup {i}
    /\ \/ lost' = lost
       \/ /\ Reference[rows[i].maker] \in Hooked
          /\ lost' = lost \cup {i}

\* A mutant of Push: the wrapper, which no agent runs, is what goes out.
PushWrapper(q) ==
    /\ pc[q] = "push"
    /\ DeliverToAgent(row[q])
    /\ Goto(q, "answer")
    /\ UNCHANGED <<rows, row, created, mirrors, posting, log>>

\* AgentConsumer.broadcast.
Push(q) ==
    /\ pc[q] = "push"
    /\ DeliverToAgent(Executing(row[q]))
    /\ Goto(q, "answer")
    /\ UNCHANGED <<rows, row, created, mirrors, posting, log>>

\* The AssignResponse: a task, created now or found, or an error and no task.
Answer(q) ==
    /\ pc[q] \in {"answer", "refuse"}
    /\ log' = [log EXCEPT ![Line[q]] =
          Append(@, IF pc[q] = "refuse" THEN [kind |-> "refused", request |-> q, task |-> 0]
                    ELSE [kind |-> IF created[q] THEN "created" ELSE "found",
                          request |-> q, task |-> row[q]])]
    /\ Goto(q, "over")
    /\ UNCHANGED <<rows, pushed, lost, row, created, mirrors, posting>>

\* The messages that mirror an event of kind k of task i: one, or none.
BuildExecutionEvent(i, k) ==
    IF k \in ExecutionEvents
    THEN <<[kind |-> k, request |-> rows[i].maker, task |-> i]>>
    ELSE <<>>

\* The executing agent reports the next event of its story, once the report before it
\* was handled.  publish_task_event: the event joins the channel of every socket of the
\* caller's group, and then is POSTed to a HookAgent of the caller, if there is one.
Event(i) ==
    /\ i \in pushed \ lost /\ rows[i].events < Len(Story)
    /\ \A e \in posting : e.task # i
    /\ LET k == Story[rows[i].events + 1] IN
       /\ mirrors' = [c \in Sockets |-> Append(mirrors[c], [task |-> i, kind |-> k])]
       /\ posting' = posting \cup (IF Hooks = {} THEN {} ELSE {[task |-> i, kind |-> k]})
    /\ rows' = [rows EXCEPT ![i].events = @ + 1]
    /\ UNCHANGED <<pushed, lost, pc, row, created, log>>

\* deliver_to_hook: one attempt, of which a failure is logged.
DeliverToHook(e) ==
    /\ posting' = posting \ {e}
    /\ LET hook == CHOOSE h \in Hooks : TRUE IN
       log' \in {log, [log EXCEPT ![hook] = @ \o BuildExecutionEvent(e.task, e.kind)]}
    /\ UNCHANGED <<rows, pushed, lost, pc, row, created, mirrors>>

\* A mutant of Forward: mirrors are sent while a handler of the socket waits.
ForwardAtOnce(k) ==
    /\ mirrors[k] # <<>> /\ Up(k)
    /\ LET e == Head(mirrors[k]) IN
       log' = [log EXCEPT ![k] = @ \o BuildExecutionEvent(e.task, e.kind)]
    /\ mirrors' = [mirrors EXCEPT ![k] = Tail(@)]
    /\ UNCHANGED <<rows, pushed, lost, pc, row, created, posting>>

\* channel_TaskEventCreatedEvent: the mirror goes down the socket between two frames.
Forward(k) ==
    /\ mirrors[k] # <<>> /\ Up(k) /\ ~Busy(k)
    /\ LET e == Head(mirrors[k]) IN
       log' = [log EXCEPT ![k] = @ \o BuildExecutionEvent(e.task, e.kind)]
    /\ mirrors' = [mirrors EXCEPT ![k] = Tail(@)]
    /\ UNCHANGED <<rows, pushed, lost, pc, row, created, posting>>

\* The worker dies with the request.
Crash(q) ==
    /\ Running(q)
    /\ Goto(q, "dead")
    /\ UNCHANGED <<rows, pushed, lost, row, created, mirrors, posting, log>>

Handle(q) ==
    \/ Lookup(q) \/ Reject(q) \/ Create(q) \/ CreateLower(q) \/ Mint(q)
    \/ Push(q) \/ Answer(q)

Next ==
    \/ \E q \in Requests : Receive(q) \/ HookIntake(q) \/ Handle(q) \/ Crash(q)
    \/ \E i \in DOMAIN rows : Event(i)
    \/ \E e \in posting : DeliverToHook(e)
    \/ \E k \in Sockets : Forward(k)

Spec == Init /\ [][Next]_vars

\* A handler that began goes on, unless its worker dies.
FairSpec == Spec /\ \A q \in Requests : WF_vars(Handle(q))

-----------------------------------------------------------------------------
(* Properties.                                                              *)

Responses(k) == {n \in DOMAIN log[k] : log[k][n].kind \in {"created", "found", "refused"}}

(***************************************************************************)
(* Idempotency holds for a resend that comes after the first request wrote *)
(* its row (_caller_assign_sync): two tasks have one reference only if     *)
(* both handlers had looked for it before either wrote.                    *)
(***************************************************************************)
DuplicatesOverlap ==
    \A i, j \in DOMAIN rows :
        i < j /\ rows[i].ref = rows[j].ref /\ rows[i].ref \in References =>
            rows[j].maker \in rows[i].witnesses

(***************************************************************************)
(* The client can map its reference to a task before that task's events    *)
(* arrive (AssignResponse, channel_TaskEventCreatedEvent): on the socket   *)
(* of a request the response comes before any mirror of a task it created, *)
(* however fast the executing agent is.  A HookAgent has no such promise:  *)
(* the events are POSTed while the HTTP response is on its way.            *)
(***************************************************************************)
EventsFollowResponse ==
    \A k \in Sockets : \A n \in DOMAIN log[k] \ Responses(k) :
        Line[log[k][n].request] = k =>
            \E m \in Responses(k) : m < n /\ log[k][m].request = log[k][n].request

(***************************************************************************)
(* A bad request is refused and never disappears                           *)
(* (route_from_agent_message): every request that is dispatched is         *)
(* answered, unless its worker dies.                                       *)
(***************************************************************************)
EveryRequestAnswered ==
    \A q \in Requests : (pc[q] = "lookup") ~>
        (pc[q] = "dead" \/ \E n \in Responses(Line[q]) : log[Line[q]][n].request = q)

(***************************************************************************)
(* A task the client was told of is on its way (_caller_assign_sync): the  *)
(* response "created" means that the Assign of the task, or of the child   *)
(* that runs for it, was handed to the agent's transport, and that the     *)
(* agent has it unless it is a HookAgent's; "found" may name a task whose  *)
(* Assign was not, but only if the request that wrote it is still at work, *)
(* died, or was refused its token and told so.                             *)
(***************************************************************************)
TellsOf(q, kind) ==
    \E n \in Responses(Line[q]) : log[Line[q]][n].kind = kind /\ log[Line[q]][n].request = q

AnsweredIsDispatched ==
    \A q \in Requests :
        /\ TellsOf(q, "created") =>
              Executing(row[q]) \in (IF Reference[q] \in Hooked THEN pushed ELSE pushed \ lost)
        /\ TellsOf(q, "found") /\ Executing(row[q]) \notin pushed =>
              LET p == rows[row[q]].maker IN
              p # q /\ (Running(p) \/ pc[p] = "dead" \/ TellsOf(p, "refused"))
=============================================================================
