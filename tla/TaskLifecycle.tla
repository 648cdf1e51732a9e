---------------------------- MODULE TaskLifecycle ----------------------------
(***************************************************************************)
(* Task rows, their event log and the handlers that race on them:          *)
(* facade/persist_backend.py (reports of agents, the progress lease, the   *)
(* reconcile of an orphaned executor, the unfolding onto a higher-order    *)
(* wrapper) and RedisControllBackend._request_control (facade/backend.py). *)
(*                                                                         *)
(* A run is one invocation of a handler.  Handlers of one socket run one   *)
(* after the other, but an agent may report over two sockets (a displaced  *)
(* one and its successor) or by HTTP, and the sweeps of several workers,   *)
(* the timers and the mutations run beside them, so any two runs may       *)
(* interleave.  A step is the code between two awaits: one read, one       *)
(* create, one save, or one transaction under a row lock.                  *)
(***************************************************************************)
EXTENDS Integers, FiniteSets

CONSTANTS
    Tasks, NoTask,
    Wrappers,      \* tasks of higher-order implementations
    Parent,        \* [Tasks -> Tasks \cup {NoTask}], Task.parent
    Runs,          \* handler invocations, each used once
    Mortal,        \* the runs whose worker may die or whose timer is cancelled
    Policies,      \* the retry policies tasks may have, see Policy
    Reports,       \* terminal reports that agents send
    Confirms,      \* non-terminal confirmations that agents send
    Notes,         \* LOG, PROGRESS and YIELD
    Controls,      \* instructions that callers give
    Sweeps         \* TRUE if the agent may be found lost and swept

Terminal     == {"COMPLETED", "CANCELLED", "INTERRUPTED", "FAILED", "CRITICAL"}
Confirmation == {"STARTED", "PAUSED", "RESUMED"}
Note         == {"LOG", "PROGRESS", "YIELD"}
Requested    == {"CANCELLING", "INTERRUPTING", "PAUSING", "RESUMING"}
Kinds        == Terminal \cup Confirmation \cup Note \cup Requested \cup {"QUEUED", "DISCONNECTED"}
Control      == {"CANCEL", "INTERRUPT", "PAUSE", "RESUME"}
Instructs    == {"ASSIGN"} \cup Control

\* How an orphaned task is retried: physical effects never, idempotent actions
\* freely if a new Assign can be built (a caller, an implementation and a token),
\* everything else not automatically.
Policy == {"physical", "idempotent", "unmintable", "plain"}

ASSUME TasksAssumption ==
    /\ NoTask \notin Tasks
    /\ Wrappers \subseteq Tasks
    /\ Parent \in [Tasks -> Tasks \cup {NoTask}]
    /\ \A t \in Tasks : Parent[t] # t
ASSUME RunsAssumption == Mortal \subseteq Runs
ASSUME KindsAssumption ==
    /\ Policies \subseteq Policy
    /\ Reports \subseteq Terminal
    /\ Confirms \subseteq Confirmation
    /\ Notes \subseteq Note
    /\ Controls \subseteq Control
    /\ Sweeps \in BOOLEAN

VARIABLES
    policy,      \* the retry policy of each task
    done,        \* Task.is_done
    latest,      \* Task.latest_event_kind
    instruct,    \* Task.latest_instruct_kind
    events,      \* how many TaskEvents of each kind each task has
    assigns,     \* how many Assigns of each task were pushed again
    op,          \* which handler a run executes
    pc,          \* where it stands
    task,        \* the task it works on
    kind,        \* the event kind, or the instruction, it carries
    todo,        \* the tasks a loop has left
    seen         \* the latest_event_kind a sweep loaded

rows  == <<done, latest, instruct, events, assigns>>
frame == <<op, pc, task, kind, todo, seen>>
vars  == <<policy, rows, frame>>

Ops   == {"none", "report", "silent", "confirm", "note", "sweep", "control"}
Steps == {"idle", "read", "emitted", "unfold", "unfolded", "sweeping", "claimed",
          "push", "instructing", "over", "dead"}

TypeOK ==
    /\ policy \in [Tasks -> Policy]
    /\ done \in [Tasks -> BOOLEAN]
    /\ latest \in [Tasks -> Kinds]
    /\ instruct \in [Tasks -> Instructs]
    /\ events \in [Tasks -> [Kinds -> Nat]]
    /\ assigns \in [Tasks -> Nat]
    /\ op \in [Runs -> Ops]
    /\ pc \in [Runs -> Steps]
    /\ task \in [Runs -> Tasks \cup {NoTask}]
    /\ kind \in [Runs -> Kinds \cup Instructs \cup {"NONE"}]
    /\ todo \in [Runs -> SUBSET Tasks]
    /\ seen \in [Runs -> [Tasks -> Kinds]]

\* Tasks as assign leaves them; the Assign that started them was broadcast, but
\* a wrapper's never is.
Init ==
    /\ policy \in [Tasks -> Policies]
    /\ done = [t \in Tasks |-> FALSE]
    /\ latest = [t \in Tasks |-> "STARTED"]
    /\ instruct = [t \in Tasks |-> "ASSIGN"]
    /\ events = [t \in Tasks |-> [k \in Kinds |-> 0]]
    /\ assigns = [t \in Tasks |-> 0]
    /\ op = [r \in Runs |-> "none"]
    /\ pc = [r \in Runs |-> "idle"]
    /\ task = [r \in Runs |-> NoTask]
    /\ kind = [r \in Runs |-> "NONE"]
    /\ todo = [r \in Runs |-> {}]
    /\ seen = [r \in Runs |-> [t \in Tasks |-> "STARTED"]]

-----------------------------------------------------------------------------
\* Task.parent is a wrapper, so events of t are mirrored onto it.
Unfolds(t) == Parent[t] \in Wrappers
\* Task.root: set for the lower task of a wrapper, and for no other task.
Root(t)    == IF Unfolds(t) THEN Parent[t] ELSE NoTask
\* What an agent knows and may report on.
Executed   == Tasks \ Wrappers

Goto(r, step) == pc' = [pc EXCEPT ![r] = step]

Begin(r, o, t, k, step) ==
    /\ pc[r] = "idle"
    /\ op' = [op EXCEPT ![r] = o]
    /\ task' = [task EXCEPT ![r] = t]
    /\ kind' = [kind EXCEPT ![r] = k]
    /\ Goto(r, step)

\* models.TaskEvent.objects.acreate(task=t, kind=k).
Emit(t, k) == events' = [events EXCEPT ![t][k] = @ + 1]

-----------------------------------------------------------------------------
(* Reports of agents.                                                       *)

\* A mutant of BeginReport: the dedup looks at the latest event, and takes an
\* executor that was given up for lost for a finished one.
BeginReportByKind(r, t, k) ==
    /\ k \in Reports
    /\ Begin(r, "report", t, k,
             IF latest[t] \in Terminal \cup {"DISCONNECTED"} THEN "over" ELSE "read")
    /\ UNCHANGED <<policy, rows, todo, seen>>

\* on_agent_done, _cancelled, _interrupted, _error, _critical up to their read:
\* a task that is done returns at once, and the router acks either way.
BeginReport(r, t, k) ==
    /\ k \in Reports
    /\ Begin(r, "report", t, k, IF done[t] THEN "over" ELSE "read")
    /\ UNCHANGED <<policy, rows, todo, seen>>

\* reconcile_silent_physical_op: the progress lease of a physical task ran out.
BeginSilent(r, t) ==
    /\ "PROGRESS" \in Notes
    /\ policy[t] = "physical"
    /\ events[t]["PROGRESS"] > 0
    /\ Begin(r, "silent", t, "CRITICAL", IF done[t] THEN "over" ELSE "read")
    /\ UNCHANGED <<policy, rows, todo, seen>>

\* _on_nonterminal_confirm up to its read.
BeginConfirm(r, t, k) ==
    /\ k \in Confirms
    /\ Begin(r, "confirm", t, k, IF done[t] THEN "over" ELSE "read")
    /\ UNCHANGED <<policy, rows, todo, seen>>

\* A mutant of EmitReport: nothing is recorded for a task given up for lost.
EmitReportIfKnown(r) ==
    /\ pc[r] = "read"
    /\ IF latest[task[r]] = "DISCONNECTED" THEN UNCHANGED events ELSE Emit(task[r], kind[r])
    /\ Goto(r, "emitted")
    /\ UNCHANGED <<policy, done, latest, instruct, assigns, op, task, kind, todo, seen>>

\* The event comes first, and nothing looks at the row again.
EmitReport(r) ==
    /\ pc[r] = "read"
    /\ Emit(task[r], kind[r])
    /\ Goto(r, "emitted")
    /\ UNCHANGED <<policy, done, latest, instruct, assigns, op, task, kind, todo, seen>>

\* A mutant of SaveReport: a confirmation saves the whole row it read.
SaveWholeReport(r) ==
    /\ pc[r] = "emitted"
    /\ latest' = [latest EXCEPT ![task[r]] = kind[r]]
    /\ done' = [done EXCEPT ![task[r]] = (op[r] # "confirm")]
    /\ Goto(r, IF op[r] = "report" /\ Unfolds(task[r]) THEN "unfold" ELSE "over")
    /\ UNCHANGED <<policy, instruct, events, assigns, op, task, kind, todo, seen>>

\* A mutant of SaveReport: a cancelled or failed child is not unfolded.
SaveReportUnfoldingSuccess(r) ==
    /\ pc[r] = "emitted"
    /\ latest' = [latest EXCEPT ![task[r]] = kind[r]]
    /\ done' = [done EXCEPT ![task[r]] = @ \/ op[r] # "confirm"]
    /\ Goto(r, IF op[r] = "report" /\ Unfolds(task[r]) /\ kind[r] = "COMPLETED"
               THEN "unfold" ELSE "over")
    /\ UNCHANGED <<policy, instruct, events, assigns, op, task, kind, todo, seen>>

\* asave(update_fields=[...]): is_done is written by terminal reports only, and
\* only reports go on to _unfold_to_higher_order.
SaveReport(r) ==
    /\ pc[r] = "emitted"
    /\ latest' = [latest EXCEPT ![task[r]] = kind[r]]
    /\ done' = [done EXCEPT ![task[r]] = @ \/ op[r] # "confirm"]
    /\ Goto(r, IF op[r] = "report" /\ Unfolds(task[r]) THEN "unfold" ELSE "over")
    /\ UNCHANGED <<policy, instruct, events, assigns, op, task, kind, todo, seen>>

\* on_agent_log, on_agent_progress, on_agent_yield: an event and no row write.
TakeNote(r, t, k) ==
    /\ k \in Notes
    /\ Begin(r, "note", t, k, IF k = "YIELD" /\ Unfolds(t) THEN "unfold" ELSE "over")
    /\ Emit(t, k)
    /\ UNCHANGED <<policy, done, latest, instruct, assigns, todo, seen>>

\* _unfold_to_higher_order: the same kind on the wrapper, whatever its state.
UnfoldEvent(r) ==
    /\ pc[r] = "unfold"
    /\ Emit(Parent[task[r]], kind[r])
    /\ Goto(r, "unfolded")
    /\ UNCHANGED <<policy, done, latest, instruct, assigns, op, task, kind, todo, seen>>

UnfoldSave(r) ==
    /\ pc[r] = "unfolded"
    /\ latest' = [latest EXCEPT ![Parent[task[r]]] = kind[r]]
    /\ done' = [done EXCEPT ![Parent[task[r]]] = @ \/ kind[r] \in Terminal]
    /\ Goto(r, "over")
    /\ UNCHANGED <<policy, instruct, events, assigns, op, task, kind, todo, seen>>

-----------------------------------------------------------------------------
(* The reconcile of a lost executor.                                        *)

\* reconcile_orphaned_executor_work: the agent is not live; load its open tasks.
BeginSweep(r) ==
    /\ Sweeps
    /\ pc[r] = "idle"
    /\ op' = [op EXCEPT ![r] = "sweep"]
    /\ todo' = [todo EXCEPT ![r] = {t \in Tasks : ~done[t]}]
    /\ seen' = [seen EXCEPT ![r] = latest]
    /\ Goto(r, "sweeping")
    /\ UNCHANGED <<policy, rows, task, kind>>

\* The branch _fail_and_cascade_inflight takes, from the row the sweep loaded.
SweepKind(r, t) ==
    CASE policy[t] = "physical" -> "CRITICAL"
      [] policy[t] = "idempotent" /\ seen[r][t] # "QUEUED" -> "QUEUED"
      [] OTHER -> "DISCONNECTED"

\* A mutant of SweepLoses: the claim trusts the row the sweep loaded.
SweepLosesOnSeen(r, t) ==
    SweepKind(r, t) # "CRITICAL" /\ seen[r][t] = SweepKind(r, t)

\* _claim_task_transition_sync returns False: done, or already in that kind.
SweepLoses(r, t) ==
    done[t] \/ (SweepKind(r, t) # "CRITICAL" /\ latest[t] = SweepKind(r, t))

SweepSkip(r, t) ==
    /\ pc[r] = "sweeping"
    /\ t \in todo[r]
    /\ SweepLoses(r, t)
    /\ todo' = [todo EXCEPT ![r] = @ \ {t}]
    /\ UNCHANGED <<policy, rows, op, pc, task, kind, seen>>

\* _claim_task_transition_sync under the row lock.
SweepClaim(r, t) ==
    /\ pc[r] = "sweeping"
    /\ t \in todo[r]
    /\ ~SweepLoses(r, t)
    /\ latest' = [latest EXCEPT ![t] = SweepKind(r, t)]
    /\ done' = [done EXCEPT ![t] = @ \/ SweepKind(r, t) = "CRITICAL"]
    /\ task' = [task EXCEPT ![r] = t]
    /\ kind' = [kind EXCEPT ![r] = SweepKind(r, t)]
    /\ todo' = [todo EXCEPT ![r] = @ \ {t}]
    /\ Goto(r, "claimed")
    /\ UNCHANGED <<policy, instruct, events, assigns, op, seen>>

\* The event of a claim that was won.
SweepEmit(r) ==
    /\ pc[r] = "claimed"
    /\ Emit(task[r], kind[r])
    /\ Goto(r, IF kind[r] = "QUEUED" THEN "push" ELSE "sweeping")
    /\ UNCHANGED <<policy, done, latest, instruct, assigns, op, task, kind, todo, seen>>

\* AgentConsumer.broadcast of the rebuilt Assign.
SweepPush(r) ==
    /\ pc[r] = "push"
    /\ assigns' = [assigns EXCEPT ![task[r]] = @ + 1]
    /\ Goto(r, "sweeping")
    /\ UNCHANGED <<policy, done, latest, instruct, events, op, task, kind, todo, seen>>

EndSweep(r) ==
    /\ pc[r] = "sweeping"
    /\ todo[r] = {}
    /\ Goto(r, "over")
    /\ UNCHANGED <<policy, rows, op, task, kind, todo, seen>>

-----------------------------------------------------------------------------
(* Instructions of callers.                                                 *)

RequestKind(i) ==
    CASE i = "CANCEL" -> "CANCELLING" [] i = "INTERRUPT" -> "INTERRUPTING"
      [] i = "PAUSE" -> "PAUSING"     [] i = "RESUME" -> "RESUMING"

\* _request_control: a done task is refused; an interrupt also collects the open
\* tasks whose root is the target.
BeginControl(r, t, i) ==
    /\ i \in Controls
    /\ Begin(r, "control", t, i, IF done[t] THEN "over" ELSE "instructing")
    /\ todo' = [todo EXCEPT ![r] =
          IF done[t] THEN {}
          ELSE {t} \cup {u \in Tasks : i = "INTERRUPT" /\ Root(u) = t /\ ~done[u]}]
    /\ UNCHANGED <<policy, rows, seen>>

\* One target: latest_instruct_kind, the -ING event and the message to its agent.
Instruct(r, t) ==
    /\ pc[r] = "instructing"
    /\ t \in todo[r]
    /\ instruct' = [instruct EXCEPT ![t] = kind[r]]
    /\ Emit(t, RequestKind(kind[r]))
    /\ todo' = [todo EXCEPT ![r] = @ \ {t}]
    /\ Goto(r, IF todo[r] = {t} THEN "over" ELSE "instructing")
    /\ UNCHANGED <<policy, done, latest, assigns, op, task, kind, seen>>

\* The worker dies, or GraceScheduler.cancel throws CancelledError into the
\* await the handler stands at: what was written stays.
Crash(r) ==
    /\ r \in Mortal
    /\ pc[r] \notin {"idle", "over", "dead"}
    /\ Goto(r, "dead")
    /\ UNCHANGED <<policy, rows, op, task, kind, todo, seen>>

-----------------------------------------------------------------------------
Continue(r) ==
    \/ EmitReport(r) \/ SaveReport(r) \/ UnfoldEvent(r) \/ UnfoldSave(r)
    \/ SweepEmit(r) \/ SweepPush(r) \/ EndSweep(r)
    \/ \E t \in Tasks : SweepSkip(r, t) \/ SweepClaim(r, t) \/ Instruct(r, t)

Step(r) ==
    \/ \E t \in Executed :
          \/ \E k \in Terminal : BeginReport(r, t, k)
          \/ \E k \in Confirmation : BeginConfirm(r, t, k)
          \/ \E k \in Note : TakeNote(r, t, k)
          \/ BeginSilent(r, t)
    \/ \E t \in Tasks, i \in Instructs : BeginControl(r, t, i)
    \/ BeginSweep(r)
    \/ Continue(r)
    \/ Crash(r)

Next == \E r \in Runs : Step(r)

Spec == Init /\ [][Next]_vars

-----------------------------------------------------------------------------
(* Properties.                                                              *)

(***************************************************************************)
(* A finished task is never reopened, whatever handler read it before it   *)
(* finished and writes after: every save names its fields, and no run that *)
(* is late (a confirmation, a sweep, an unfolding) takes is_done back.     *)
(***************************************************************************)
DoneIsFinal == [][\A t \in Tasks : done[t] => done'[t]]_vars

(***************************************************************************)
(* An agent retries a terminal report until it is acked, and the router    *)
(* acks when the handler returns: an acked report leaves the task done, in *)
(* every interleaving with sweeps, so no answer is acked and forgotten.    *)
(***************************************************************************)
AckedIsDone ==
    \A r \in Runs : op[r] = "report" /\ pc[r] \in {"unfold", "unfolded", "over"} => done[task[r]]

(***************************************************************************)
(* Callers learn that a task is over from its events: a done task has a    *)
(* terminal event, or a sweep holds the claim and is about to write it, or *)
(* it died right there.  (Reports write the event before is_done, sweeps   *)
(* after; a wrapper is finished by the unfolding of its child.)            *)
(***************************************************************************)
HasTerminalEvent(t) == \E k \in Terminal : events[t][k] > 0

DoneHasTerminalEvent ==
    \A t \in Tasks : done[t] =>
        \/ HasTerminalEvent(t)
        \/ \E r \in Runs : /\ op[r] = "sweep" /\ pc[r] \in {"claimed", "dead"}
                           /\ task[r] = t /\ kind[r] = "CRITICAL"

(***************************************************************************)
(* Concurrent sweeps share the work (_claim_task_transition_sync).  While  *)
(* nobody but sweeps has touched the tasks, and none of them died: a task  *)
(* has at most one CRITICAL event, sweeps that all loaded the task before  *)
(* its requeue requeue it once between them, and each requeue is one       *)
(* QUEUED event and at most one Assign.  It is not once per loss: a sweep  *)
(* that loads the task QUEUED (a later one, the periodic reconcile) writes *)
(* it off as DISCONNECTED, and one that loaded it earlier may requeue it   *)
(* again, so that between two requeues lies a write-off.                   *)
(***************************************************************************)
Claimed(t, k) ==
    events[t][k] + Cardinality({r \in Runs : /\ op[r] = "sweep" /\ pc[r] = "claimed"
                                             /\ task[r] = t /\ kind[r] = k})

SweepsClaimOnce ==
    (\A r \in Runs : op[r] \in {"none", "sweep"} /\ pc[r] # "dead") => \A t \in Tasks :
        /\ Claimed(t, "CRITICAL") <= 1
        /\ (\A r \in Runs : op[r] = "sweep" => seen[r][t] # "QUEUED") => Claimed(t, "QUEUED") <= 1
        /\ Claimed(t, "QUEUED") <= Claimed(t, "DISCONNECTED") + 1
        /\ assigns[t] <= events[t]["QUEUED"]

(***************************************************************************)
(* What happens to the child happens to the wrapper                        *)
(* (_unfold_to_higher_order): once an agent has reported the end of a      *)
(* child, the wrapper its caller watches is done, or a report on the child *)
(* is on its way there or died on it.  (The ends that only the server      *)
(* writes, CRITICAL of a sweep or of the progress lease, do not unfold.)   *)
(***************************************************************************)
Reported(t) == \E k \in Terminal \ {"CRITICAL"} : events[t][k] > 0

ReportReachesWrapper ==
    \A t \in Executed : Unfolds(t) /\ Reported(t) =>
        \/ done[Parent[t]]
        \/ \E r \in Runs : /\ op[r] = "report" /\ task[r] = t
                           /\ pc[r] \in {"emitted", "unfold", "unfolded", "dead"}
=============================================================================
