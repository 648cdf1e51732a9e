# A TLA+ verification of rekuest-server-next

rekuest is a broker between *callers*, who assign work, and *agents*, which execute
it. Agents hold a websocket (or a webhook) to a Django/Channels server; the state is
in PostgreSQL rows, the work for an agent in a redis list, the events for callers in
the channel layer. Any number of server workers run the same code. This directory
holds models of the parts where those workers, sockets, timers and mutations meet,
the TLC configurations that check them, and TLAPS proofs of the central properties.
`PROJECT.json` maps every definition to the source lines it stands for.

## 1. Inventory

| Component | State | Operations | Interacts with |
|---|---|---|---|
| Write-lease (`persist_backend.py`, `liveness.py`) | `Agent.connected`, `last_seen`, `lease_epoch`, `active_connection_id` | claim, renew, release, revoke | sockets, reaper |
| Agent socket (`agent_protocol.py`, `async_consumer.py`) | the session, its listen loop and heartbeat loop, group memberships | register, beat, time out, displace, disconnect | lease, queue, router |
| Agent mutations (`backend.py`, `mutations/agent.py`) | whole `Agent` rows | block, unblock, pin, update, ensure, implement, delete | overwrite lease columns |
| Executor queue (`agent_queue.py`) | a list and a processing list per agent | push, pop (blmove), ack (lrem) | listen loops, every producer |
| Tasks (`persist_backend.py`, `backend.py`) | `Task.is_done`, `latest_event_kind`, `latest_instruct_kind`, the `TaskEvent` log | reports, confirmations, notes, sweep, progress lease, unfold, control | queue, timers, callers |
| Grace timers (`grace.py`) | asyncio tasks by key | schedule, cancel | disconnect, progress, auto-interrupt |
| Caller protocol (`_caller_assign_sync`, `backend.assign`) | `Task` rows by `(caller, reference)` | lookup, create, mint, push, answer, mirror events | tasks, queue, channels |
| State log (`logic.py`, `queries/state.py`, `subscriptions/state.py`) | `Session`, `Snapshot`, `Patch` rows | init, snapshot, patch, replay, watch | channels |
| Control requests (`on_caller_cancel`, `_auto_interrupt`) | an escalation timer per task and worker | check owner, instruct, arm, escalate | timers, reports, sweeps |
| Locks (`on_agent_lock`, `on_agent_unlock`) | `Lock.hold_by` | acquire, release | tasks |
| Dependency resolution (`build_dependency_dict`, `auto_resolve`, `mutations/resolution.py`) | `Resolution` and `ResolvedDependency` rows | resolve, create, update, delete | matching, assign |
| Higher-order implementations (`higher_order.py`, `set_higher_order`) | `Implementation.higher_order_for` and its config | validate, link; map arguments, dependencies, returns | registration, assign, unfold |
| Registration (`implement_agent`, `mutations/implementation.py`) | `Action`, `ArgPort`, `ReturnPort`, `Implementation`, `Dependency` rows | upsert, rebuild ports, reap; pin, delete | matching, resolution |
| Matching (`managers.py`, `descriptors.py`) | none: demands against ports | compile demands to SQL | queries, resolution |
| Provenance (`provenance/`) | keys | mint, verify | assign, requeue |
| Webhooks (`hooks.py`, `http_intake.py`) | none | sign, post, route | assign, tasks |
| Datalayer (`datalayer/`, `threed_model.py`) | store rows, S3 objects, STS sessions | request upload, finish, access, delete | clients, S3, STS |
| GraphQL surface, catalogue, settings | rows, configuration | CRUD | - |

**What is hard here.** Handlers of one socket are serial, but nothing else is: a
displaced socket and its successor, HTTP intake, GraphQL threads, timers and the
sweeps of every worker run beside each other; each awaits several times between a
read and a write; workers die anywhere; close frames, displacement messages and
answers are lost or late. What makes each part correct:

* lease: one owner per token; a revoke sticks; an abandoned agent is freed;
* queue: once, in order, and nothing waits while somebody drains;
* tasks: a finished task stays finished, is announced, and no acked report is lost;
  concurrent sweeps claim an orphan once; a wrapper follows its child;
* timers and control: the registry of timers names live ones; a cancel with a window is
  not forgotten;
* callers: a reference names one task, a response precedes the events, every request
  is answered;
* state: a replay is a value that was once there, a watcher misses nothing;
* datalayer: credentials reach what they were issued for and expire, rows describe what
  was uploaded and go with their objects;
* registry: an agent has what it declared last, an action the ports of its definition;
* higher-order: a call through wrappers ends, and the child gets what it demands;
* resolution: it ends, and what it stores or passes on meets the demand.

`PROJECT.json` lists the hazards line by line.

## 2. Modules

| Module | Models |
|---|---|
| `FencedLease` | the abstract lease: grant, refresh, depart, expire |
| `AgentLease` | one `Agent` row and the sockets competing for it; implements `FencedLease` |
| `AgentRowSave` | extends `AgentLease` with the mutations that save whole rows |
| `AgentQueue` | the redis lists of one agent and the loops draining them |
| `TaskLifecycle` | a tree of tasks and the handlers that race on it |
| `GraceScheduler` | the timers of one key |
| `AutoInterrupt` | extends `GraceScheduler` with the control requests for one task that arm it |
| `CallerAssign` | the assign requests of one caller over sockets and over HTTP |
| `StateLog` | the state history of one agent, its readers and watchers |
| `Datalayer` | stores, their objects and the credentials clients hold |
| `Registry` | overlapping registrations of the agents of one app |
| `HigherOrder` | the links between implementations and the projection of a call |
| `Matching` | demands against actions and states, as operators |
| `Resolution` | extends `Matching` with `auto_resolve`, `build_dependency_dict` and the calls of a task |
| `AgentProofs` | theorems about `AgentLease`, `AgentRowSave` and `AgentQueue` |
| `CallerProofs` | theorems about `GraceScheduler`, `AutoInterrupt` and `CallerAssign` |
| `<module>Proofs` | theorems about `TaskLifecycle`, `StateLog`, `Datalayer`, `Registry`, `HigherOrder`, `Resolution` |
| `MC*` | instances for TLC |

An action is one database statement, one transaction under a row lock, or the code
between two awaits; a handler that awaits between read and write is as many actions
as it has such steps. `pc` (or `loop`, `state`) is where a handler stands. Operators
introduced by "A mutant of" are deliberately wrong variants; no specification uses
them, they show that each property can fail.

### AgentLease

`connected`, `age`, `lease_epoch`, `active_connection_id` are the row. Only the
distance from `last_seen` to now is ever compared, and only with `AGENT_STALE_AFTER`,
so the clock is the variable `age`, which stops one tick past the window. `held` is
the token of a `RegisteredSession`; `draining` and `beat` are its two loops; `inbox`
and `displace` are the frames and the channel event waiting for the consumer.
`Claim`, `Renew` and `Revoke` are single transactions. `Disconnect` (read and guard)
and `ReleaseWrite` (save) are two steps because `on_agent_disconnected` takes no
lock. `Crash` loses a worker without a disconnect, `AbortRegister` is an exception
after the claim was committed. `Activate` reaches any subset of the group, since a
`group_send` is best effort.

### AgentRowSave

`ReadRow` and `SaveRow` are a mutation's `get` and `save()`: all columns go back as
they were read. It is the same lease protocol beside them.

### AgentQueue

`Pop` is blmove, so it is atomic; `StopInPop` is the case in which redis has moved a
message whose reply a cancelled call never sees. `Stop` is every end of a loop: cancel,
exception, death. `Stable` connections never stop and are what liveness is about.

### TaskLifecycle

A *run* is one invocation of a handler. `policy` abstracts the implementation's effect
class, the action's idempotence and whether an `Assign` can be rebuilt. Events are
counted per kind. `SaveReport` models `asave(update_fields=...)`. `SweepClaim` is
`_claim_task_transition_sync` under its lock, and the branch is chosen from the row
the sweep *loaded* (`seen`). A `Mortal` run may die at any await, which also stands
for a timer cancelled inside its action.

### GraceScheduler

All steps run on one event loop. Cancelling a sleeping timer ends it at once; one
inside its action unwinds later, and its `finally` pops the key.

### AutoInterrupt

A timer is named by the request that schedules it. `Request` is the ownership and
`is_done` check, `Instruct` the instruction, `Arm` the return to the event loop: a
terminal report may come between any two. The escalation runs in a thread of
`sync_to_async`, which a cancel of the awaiting timer does not stop; so `Look` and
`Escalate` go on after `Cancel`, while `End` of a timer that was not cancelled waits for
them. `SettleHere` and `SettleElsewhere` are a terminal report or a sweep in the worker
that holds the timer and in another one, `Close` and `LeaveOpen` its two ends.

### CallerAssign

The lookup, the create, the mint and the push autocommit one by one. A socket is
`Busy` while a handler runs, so mirrored events wait behind it. `Crash` loses the
worker with the request. Requests with hooks are refused before anything is written:
`Task.hooks` is a JSON column and is given `HookInputModel` objects. A caller in `Hooks`
sends by HTTP (`HookIntake`) and gets its events as POSTs: nothing orders those behind
the answer, and a POST that fails is dropped (`DeliverToHook`, `DeliverToAgent`).

### StateLog

The log is the three tables merged in the order of their timestamps. A value is the
sequence of the patch rows applied to the initial value, so two values are equal only when
the same patches were applied in the same order. A replay is one query for the
session, then per state one for the snapshot and one for the patches; `Patches` is the
filter of that query, by state and bound, and `Select` applies it to the part of the log
after the snapshot.

### Datalayer

`row`, `kind`, `populated` and `info` are the columns of a store, `object` what S3 has
under its key, `creds` the sessions that S3 still accepts, each with its scope, its
actions and the ticks it has left. The two systems have no common transaction, so a call
is a sequence of steps, one per statement or request, and its worker may die between
them. Clients put and delete with the credentials they hold whenever they like. `file`
is the 3D model that refers to a store and is deleted with it.

### Registry

`implement_agent` runs in one transaction under READ COMMITTED, and `tx` is what an agent
has written and not yet committed. A step reads committed rows and its own
(`SeesAction`, `SeesImpl`, `SeesPorts`); it waits where another transaction has written
what it wants (`WaitsFor`), a cycle of waits ends one of them (`Deadlock`), and
`Commit` checks the foreign keys. The maps that the code fills once at the start
(`action_map`, `implementation_map`) are in `tx` and grow stale there. An action that an
interface moves away from is deleted in three steps, as the statements are: `CountUsers`,
`CollectUsers`, which is Django's collector looking for what CASCADE takes along, and
`DropAction`, which deletes those of the collected rows that are still there (`Doomed`).
Among them may be rows of the registration itself, committed or just saved
(`TakenFromItself`). A definition carries whether its
qualifiers go together, and `Malformed` are the hashes of those whose descriptors do not
compile: the first fail in `UpsertFails`, before the action is touched, the second in
`RebuildRelationalPorts`, and both abort the transaction. A row is named by
the registration that inserted it, because a key that was deleted and made again is
another row to whoever holds the old one. Users pin (`PinRead`, `PinSave`: a whole-row
save) and delete.

### HigherOrder

An implementation row is written whole by `set_higher_order` and by registrations, each
of which read it before. `link` and `reg` are the rows as they were read; `overlapped`,
`revived` and `raced` record which rows were written between such a read and its save.
`BuildLowerArgs` and `BuildLowerDependencies` say for each slot of the lower
implementation where its value comes from.

### Matching and Resolution

`Matching` has both matchers of `managers.py`: the relational one for actions and the
JSON one for states, with their different counting of positions, the descriptors with the
lax semantics of `jsonb_path_match`, and the dimension of a quantity, which the relational
matcher compares and the JSON one leaves aside. `Resolution` unrolls the recursion of
`auto_resolve` into `stack` and `visited`, one action per query or so, and
`build_dependency_dict` into one action per slot of the dependency dict; `Call` is a task
that calls an agent of its dict later.

What they read is in `reg`: which Implementation rows are there, the action and the
dependencies of each, the Action rows, the states of each agent. Registrations rewrite all
of it in place between any two steps. `Register` declares an implementation again: its
action's row is rewritten, it may turn to another action, its dependencies are upserted by
key, and the action it leaves is deleted where nobody else implements it, with the
implementation and its resolutions, after which the implementation is saved again.
`RegisterStates` declares an agent's states again, `Drop` removes an implementation that no
resolution has chosen. Users create, update and delete resolutions beside all that, and
`auto_resolve` may run again. Nothing in the code keeps a resolution up to date, so
`aside` remembers the resolutions that a user changed, that a run left unfinished, or that
rest on what was declared again; `anew` remembers the implementations declared again since
the assignment began. `Registry` has the transaction of a registration in detail, and here
it is one step.

## 3. Runs

All bounds are in the `.cfg` files. Deadlock checking is off throughout: sockets,
requests, runs and timers are finite in number, so every behaviour may stop.

| Run | Shows | Bounds |
|---|---|---|
| `lease` | `TokensFence`, `NoResurrection`, `OnlyOwnerRenews`; the lease implements `FencedLease`; fenced and closed sockets stop draining, an abandoned agent is freed | 2 sockets (incumbent and successor), window 1, one queued beat |
| `row_save` | a rolled-back row names a claimed epoch and heals; a socket that no longer matches stops | 2 sockets, one save |
| `queue` | at most once, in order, recorded; nothing waits while one loop runs | 3 loops, one of them stable, 3 messages |
| `task_racing` | `DoneIsFinal`, `AckedIsDone`, `DoneHasTerminalEvent`, `SweepsClaimOnce`, `ReportReachesWrapper` | a wrapper and its child, 3 handlers of any kind, each mortal, all policies; handlers symmetric |
| `auto_interrupt` | `RegisteredIsLive`; `CancelEscalates` | 3 cancels of the caller, with or without a window, a stranger's, and one report or sweep here or in another worker |
| `assign` | duplicates need overlap; on a socket the response precedes the events; what is answered is dispatched unless its creator failed or its POST was lost; every request is answered | a reference sent on a socket and by HTTP, a higher-order one behind it on the socket |
| `state` | a replay is of one moment at every bound; a watcher misses one stretch | 2 sessions, symmetric, 1 state, 2 patches and a snapshot each |
| `datalayer` | `CredentialsAreBounded`, `PopulatedZarrWasUploaded`, `StoresDoNotDrift`; uploads end | 1 store of any kind, 2 calls, 2 contents (one an array), 1 model, 2 credentials, sessions of 1 tick, with and without the unscoped fallback |
| `registry` | `RegisteredIsDeclared`, `PortsMatchDefinition`, `LoneRegistrationLands` | 2 agents, symmetric, 2 interfaces, 2 actions in 2 versions of one, one definition with qualifiers that contradict each other and one with a malformed descriptor, one registration each, one pin or deletion |
| `higher_order` | `WrappersEnd`, `ChildIsComplete`, `NoLostUpdate` | 2 implementations of one agent, symmetric, 2 requests, 2 registrations or deletions, 3 configs, 1 task |
| `resolution` | `ResolutionMeetsDemands`, `CallsMeetTheirSlot`, `EntersOnce` | 2 agents of 5 and 3 implementations, two of which meet one demand on one agent (2 preferred), a ring of dependencies that prefers 0, a state demand for a dimension the state does not have; 1 top-level resolution, 1 edit, 1 drop, 1 call, and 1 declaration: an implementation turned to another action (whose old one stays or falls), an action with other ports and a new dependency, the root with a maximum of 0 or a minimum above the maximum, or an agent's states |

The modules state their type invariants too. The runs do not repeat them: most
are proved (section 5), and the others say less than the properties above.

The bounds are the smallest in which every action fires and the races named above
have all their participants: a third sweep and a third cancel are there because two do
not reach the sequences of section 4 or their near misses. For the lease
the proofs of section 5 cover every number of sockets; two suffice for the liveness
properties, which speak of one socket and whoever displaced it. One state suffices in
`state` because states are read and written independently of each other, each with its
own snapshot and patches. In `resolution` one declaration and one drop meet every step of
a run of `auto_resolve` with nested resolutions; two of them, or a second top-level run,
take longer than is worth while, and the proofs of section 5 cover any number. One store suffices in `datalayer` because keys are fresh
uuids and policies name one key.

**Fairness.** Weak fairness only, of steps the server takes by itself: a handler that
began goes on unless its worker dies, a queued frame is dispatched, the heartbeat loop
wakes up and `wait_for` ends, the reaper sweeps, the event loop wakes sleepers, time
passes. The thread of an escalation gets it only while its timer is not cancelled: a
thread that was never started is abandoned with its timer. `UploadsEnd` needs nothing
but the clock. Nothing is assumed of clients, of a disconnect, or of messages between
workers.

## 4. Where code and text disagree

One is a run that TLC must refute:

* `lease_release_race`: the release is not under the row lock. A departing socket reads
  itself as active, the successor claims, the release marks it disconnected
  (`persist_backend.py:84`).

The models contain further behaviours that a text rules out. They have no run of their
own; the property in parentheses is what does hold, and is checked.

* Displacement and bad frames close the socket without `stop_executing`, so the loop
  drains on until the heartbeat stops it (`ClosedStopsDraining`).
* `block`, `unblock`, `pin_agent` and `update_agent` save whole rows and take
  `lease_epoch` back, which `models/agent.py:68` calls monotonic
  (`ConnectedHasClaimant`, `RolledBackIsHealed`).
* The dedup of terminal reports is check-then-act, so two overlapping reports write two
  terminal events (`messages.py:135`: "dedups terminal reports by task id";
  `AckedIsDone`, `DoneIsFinal`).
* One loss may be requeued more than once. A sweep that loads the task after its requeue
  (the reconcile command runs periodically, `reconcile_tasks.py:49`) does not take the
  requeue branch and writes DISCONNECTED, and a sweep that had loaded it before then finds
  the row not QUEUED and claims it again: two Assigns
  (`tests/agent/test_reclaim_grace.py:207`: "only ONE requeue may result";
  `persist_backend.py:277`: "must not pile duplicate Assigns into the queue").
  `SweepsClaimOnce` says what holds: sweeps that all loaded the task before its requeue
  requeue it once, and between two requeues lies a write-off.
* The progress lease finishes a child without unfolding it onto its wrapper
  (`docs/design/task-lifecycle.md:116`; `ReportReachesWrapper`), and a sweep requeues a
  virtual wrapper like a real task (`backend.py:353`: "never broadcast to an agent").
* The processing list of a queue is written and never read (`agent_queue.py:62-64`: "leaves
  the message recoverable rather than lost"; `HeldIsRecorded`).
* `_request_control` finds descendants by `root_id`, and only the child of a wrapper has one
  (`backend.py:144-145`: "for every still-running descendant").
* The `finally` of a timer that was cancelled inside its action pops the key of its
  successor, which the next `cancel` misses (`grace.py:23`; `RegisteredIsLive`,
  `CancelEscalates`). A sweep cancels the escalation of a task and then requeues the task,
  which nobody interrupts any more (`persist_backend.py:263`, against `messages.py:613`;
  the last disjunct of `CancelEscalates`).
* Lookup, create, mint and push are separate commits: overlapping resends create two
  tasks (`messages.py:555`; `DuplicatesOverlap`), and a resend may be answered with a
  task whose creator died or was refused a token before the push
  (`AnsweredIsDispatched`).
* A POST to a webhook that fails is not repeated (`hooks.py:10` speaks of a redelivery
  sweep), and events may reach a webhook caller before its `AssignResponse`.
* `patches_qs` does not filter by session, so a replay applies patches of another process
  to a session's snapshot (`models/state.py:82`: "reconstruct the state at any point in
  time"; `ReplayIsOfOneMoment` is about the patches of the session that is read).
* `get_latest_state` reads the states one by one and reports the greatest revision it
  met (`docs/design/realtime.md:111`; `ReplayIsOfOneMoment` is per state), and
  `watch_state` joins its channel after the read (`docs/design/realtime.md:103`: "with
  no gap"; `WatchMissesOneStretch`).
* A store's object and row are deleted one after the other, without a common transaction;
  the objects of a Zarr prefix are left; a save of a 3D model that was deleted inserts it
  again (`StoresDoNotDrift`). Media, bigfile and Parquet stores are populated on the word
  of the client (`PopulatedZarrWasUploaded` is about Zarr). `expires_in` of general media
  access is ignored (`datalayer.py:30`: "reaches this from a GraphQL input").
* Two agents that bring an action of before the relational ports up to date at once leave
  it the ports of both (`implementation.py:73-75`; `PortsMatchDefinition`). One that drops
  an action takes along an implementation that was committed after it counted the
  users, and a pin writes a reaped implementation back. If a user deletes an
  implementation of the agent under its registration, the count of one is that of another
  interface, which may have been registered a moment before and goes with the action, and
  the registration commits without it (`agent.py:140`: "either the whole declared set
  lands, or none of it"; `RegisteredIsDeclared`). A definition that is not valid does fail
  the whole set, as that line says; a malformed one is noticed only when its ports are
  built, after the rows of the definitions before it were written. An
  action cannot move to another interface of its agent: the old row is reaped after the
  new one is inserted, which the unique constraint refuses (`LoneRegistrationLands`).
* Wrappers of wrappers come about by linking the lower one last (`implementation.py:391`:
  "no nested wrappers"), rings by two links at once (`WrappersEnd`); whole-row saves undo
  each other (`NoLostUpdate`); dependencies that the lower one declares later are not
  covered, and a wrapper that was deleted and inserted again has none
  (`ChildIsComplete`).
* The JSON scanner takes a state with a quantity of any dimension for one of the dimension
  asked for: `dimension` is neither compared (`managers.py:405-439`) nor refused
  (`managers.py:383-388`, whose docstring says "Refuse demands the JSONB scanner cannot
  express instead of silently degrading them"). `StateMeets`, and with it
  `ResolutionMeetsDemands`, speaks of the demand without its dimension.
* A registration rewrites an implementation under its key: another action
  (`implementation.py:332`), other ports of the same action (`implementation.py:238-247`),
  other dependencies (`implementation.py:141`). A resolution that chose it is not told, and
  `implementation.py:119` of the models, which protects a chosen implementation ("Don't
  delete history"), only keeps it from being deleted. A task runs the action its
  implementation has at the call (`backend.py:239-240`), whatever its slot was filled for
  (`ResolutionMeetsDemands` and `CallsMeetTheirSlot` name what was declared again).
* `auto_resolve` leaves the slot of an implementation it has visited without a word, and
  answers although one was dropped under it; it ignores availability, and
  `build_dependency_dict` ports and versions; the agents are cut to the maximum before
  their implementations are looked at, a preference below one still stores one, and an
  optional slot that is empty raises when the task calls it (`ResolutionMeetsDemands`, `CallsMeetTheirSlot`).
* `update_resolution` deletes the rows and then reads fields that its input does not have.

Met while reading, and not the subject of a run: `checkout` with a timestamp passes
`session.pk` where a `session_id` is looked up and always raises; the revision queries
of `queries/state.py` name columns that no model has; INIT hooks
(`docs/design/task-lifecycle.md:99`) cannot be stored, so no such request succeeds;
`grant_read_access` and `grant_delete_access` mint a session and then raise, since
`AccessGrant` requires a region; the JSON matcher compares the i-th nested match with the
child after it; the `implementations` subscription listens where nobody
broadcasts; `Lock.hold_by` is not cleared when its task ends; `materialize_blok` assigns
an id where an agent is expected.

## 5. Proofs

For every set of sockets, window and inbox bound (`ConnsAssumption`,
`StaleAssumption`, `InboxAssumption`), the first part of `AgentProofs` shows

* `LeaseTypes`, `TokensAlwaysFence`: `TypeOK` and `TokensFence` are invariants;
* `RevokeSticks`, `RenewalIsOwners`: the action properties;
* `LeaseRefinement`: `AgentLease` implements `FencedLease`.

`TokensFence` alone is not inductive: that a second claim cannot meet the same token
needs that a socket which has not claimed holds none, and that a release or a renewal
touches nothing but its own columns. The invariant `LeaseInvariant` proves adds what
`pc` implies about `held`. The refinement maps the owner to `active_connection_id` as
long as its token is current; each action is then shown to be an abstract step or to
leave the mapped variables alone.

The second part of `AgentProofs` extends it to any number of whole-row saves (`SavesAssumption`):
`RollbacksNameAClaimant` shows `ConnectedHasClaimant`. Of `LeaseInv` only the types and
the tokens before a claim survive a rollback, so the strengthening `RowSaveInv` says
instead that the epoch of a connected row *and of a connected draft* was claimed, and the
proof rests on the fact that `held` is never reset, whatever the row says.

For any messages and any number of competing loops (`StableAssumption`),
the third part of `AgentProofs` shows `DeliveredAtMostOnce`, `ArrivalsFollowPushes` and
`HeldStaysRecorded`. The three need each other: `QueueInv` says that the queue is the
part of `order` that was pushed last (`QueueIsTail`), that loops hold different messages,
all popped and recorded (`HoldersDiffer`), and that what a loop is about to send came
after all its client received and to nobody else (`SendIsNew`).

For every task tree, every set of handlers and every subset of reports and
instructions (`TasksAssumption`, `RunsAssumption`, `KindsAssumption`),
`TaskLifecycleProofs` shows

* `TaskTypes`, `AckedReportsStick`, `DoneIsAnnounced`: `TypeOK`, `AckedIsDone` and
  `DoneHasTerminalEvent` are invariants;
* `DoneStays`: `DoneIsFinal`;
* `WrapperFollows`: `ReportReachesWrapper`;
* `OneSweepClaims`: `SweepsClaimOnce`.

The strengthening `TaskInv` adds `Shapes` (what a run that stands at a step carries: a
report that has emitted has a task and a terminal kind, and so on) and `EmittedFirst`
(a handler that is about to set `is_done` has already written its event).
`DoneHasTerminalEvent` needs it because `SaveReport` no longer looks at the events.

`ReportReachesWrapper` rests on the part of `Shapes` about unfolding: a run on its way to
a wrapper is about a child of one and, if it is a report, carries a terminal kind. The property names
the runs that are still on that way or died there.

`SweepsClaimOnce` counts claims that are won and not yet written, so its strengthening
`ClaimsCount` says what the row tells of the count: a CRITICAL claim set `is_done`, and
one more QUEUED than DISCONNECTED claim left QUEUED in `latest_event_kind`, where the next
sweep looks under the row lock; and while every sweep loaded the task before its requeue,
none has written it off (`Unqueued`). Sets of runs are counted with the library's theorems on
finite cardinalities; `Runs` itself may be infinite, because only finitely many of them
can have begun.

For every set of requests, reports and sweeps (`TimersAssumption`, `ControlAssumption`),
the second part of `CallerProofs` shows

* `RegistryIsLive`: `RegisteredIsLive` is an invariant of the scheduler, whoever uses it;
* `RequestsUseTimers`: the control requests implement the scheduler's specification (`TimerSpec`);
* `EscalationsAreLive`: hence the invariant holds of the escalations.

`RegisteredIsLive` is not inductive: the timer that `Schedule` registers must not have
been cancelled before, which is `NewIsUntouched`.

For any sockets, webhook agents, requests and references and any story of an executing
agent (`RequestsAssumption`: higher-order and webhook requests are among the references,
and a fresh UUID is none of them), the first part of `CallerProofs` shows

* `ResendsFindTheirTask`: `DuplicatesOverlap`;
* `MirrorsFollowTheResponse`: `EventsFollowResponse`;
* `AnswersAreDispatched`: `AnsweredIsDispatched`.

`CallerInv` adds that whoever looked for a reference in vain is a witness of every row
written since (`LookupsOverlap`), which rows a request owns and where its handler then
stands (`RowsInv`), that a created task is dispatched before its answer (`DispatchInv`),
and that who is through was answered (`AnswersInv`). A lookup takes the earliest row of
its reference; that there is one is the well-foundedness of the natural numbers, in
`LeastIsElement`.

For any processes, states and readers and any number of patches and snapshots
(`StatesAssumption`, `BoundsAssumption`), `StateLogProofs` shows

* `ReplaysAreOfOneMoment`: `ReplayIsOfOneMoment`;
* `WatchersMissOneStretch`: `WatchMissesOneStretch`.

Both are about what a filter keeps of a log of any length. The library's induction
theorems take the property as an operator, which no prover here can instantiate; instead
the set of numbers for which a statement fails has a least element (`LeastNumber`, from
the well-foundedness of the naturals), which cannot be. So `Select` is shown to commute
with appending, concatenation and intersection of filters (`SelectAppend`,
`SelectConcat`, `SelectSelect`). `LogInv` says that a process has what its log says
(`Holds`) and that every snapshot row is the value its session's patches had given before
it (`Recorded`); `ReaderInv` that a snapshot a reader has chosen is still the one to start
from, that what it has read is the value of a moment no earlier than it began, and, when
it watches, that only one stretch of the patches is missing. A log only grows, and
`PrefixStays`, `MomentStays` and `StretchGrows` say what survives that.

For any stores, calls, contents, models and session lengths (`DatalayerAssumption`),
`DatalayerProofs` shows `CredentialsStayBounded`, `PopulatedZarrIsReal` and
`DriftIsExplained`. `DatalayerInv` adds what a call that is between two of its steps
knows of its store (`CallOK`), and one fact no property names: a credential that deletes
is one for a Zarr store (`CredOK`). Without it a client could empty any store, and
`StoresDoNotDrift` is not inductive. Everything a call knows stays true while others act
because rows, kinds and histories only move forward (`Forward`).

For any finite sets of agents and interfaces, any definitions and declarations, and any
number of registrations, deletions and pins (`RegistryAssumption`, `NoRowAssumption`),
`RegistryProofs` shows

* `AgentsAreRegistered`: `RegisteredIsDeclared`;
* `MatchedPortsAreDefined`: `PortsMatchDefinition`;
* `RowsRefer`: `TypeOK`, which says of the rows that every implementation refers to an
  action that is there;
* `LoneRegistrationsLand`: `LoneRegistrationLands`.

A registration is a transaction, so the invariant says what each one under way will leave
if it commits. `PortsInv` is that for one action: what is built for an action this
registration has written is the ports of its definition, and all committed ports of it
are dropped, because nobody else can have written it meanwhile (`Exclusive`: row locks).
`ImplsInv` is that for the agent's own rows: what has been taken is saved, and an agent
with whose rows nobody has meddled deletes none of them with an action. The steps of a
transaction touch nothing that is committed, and `WaitsFor` keeps what others commit out
of what it has written; `Commit` is the only step in which the two meet (`CommitsPorts`,
`LostIsTold`). `ReferenceInv` rests on that invariant: a row a registration rewrites,
deletes or refers to is the very row that is there (`LinkInv`), although it was read long
before. `LoneInv` follows a registration that is alone and asks for nothing that must fail (`Clean`:
only valid definitions, each action once and at the interface that had it, no protected row
of its agent):
what it knows of the actions it declares is what it sees (`KnowsActions`), what it has
saved refers to them, nobody refers to what it has deleted, and the only row that goes
with an action is the one it moves. So no constraint can refuse a step, and it waits for
nobody. The attempt to prove `RegisteredIsDeclared` showed that the model had let a
registration fail at the foreign keys where Django's collector deletes the registration's
own rows as well; the model was corrected, and section 4 has what follows.

For any implementations, agents, configs and requests (`HigherOrderAssumption`: who
links is not an agent, so that a row's two kinds of writers are told apart),
`HigherOrderProofs` shows `UpdatesAreLostOnlyByOverlap`, `ChildrenAreComplete` and
`WrappersEndUnlessRaced`.
`UpdatesInv` follows a row into the snapshots of those who will save it: until somebody
else writes it, they know the field they do not write. `CoverageInv` says that every
row, every registration under way and every validated request has a config that covers
the dependencies the wrapper has now, unless the row was inserted again. `WrappersEnd` is
stated without paths: a set of rows in which each wraps one of the set, as every infinite
chain of wrappers would have it, contains a row that was raced or overlapped. So no
closure is needed: a save that turns a new link into such a set needs the lower row to
wrap something, though it was plain when the request was validated; it has been written
in between, and the row is recorded as raced.

For any finite set of agents, any implementations, dependencies whose keys are distinct,
nested to any depth and in rings, and any declarations (`ResolutionAssumption`, which keeps
nested matches out of state demands, where the JSON scanner compares the wrong child),
`ResolutionProofs` shows

* `ResolutionTypes`: `TypeOK`;
* `ResolutionsMeetDemands`: `ResolutionMeetsDemands`;
* `EachIsEnteredOnce`: `EntersOnce`;
* `CallsKeepToTheirSlot`: `CallsMeetTheirSlot`.

The properties speak of what is there when `auto_resolve` is through with a resolution, the
invariant of every frame on the way: `FrameMet` says which dependencies and demands a frame
has met so far, that those ahead have no rows yet, and that the actions it found for the
demand at hand meet it still; `StackInv` that every frame works on a resolution of its own
and that the outer ones wait for the implementation of the inner; `EnterInv` that what was
entered is visited; `RegInv` that an implementation that is there has an action, whose key
no registration changes. A step of `auto_resolve` touches the rows of one resolution only,
so the lemmas about frames are about one frame, the rows of its resolution and what is
registered (`AgentPicked`, `DemandPicked`, `RowChosen`, ...), and `TurnKeeps` carries them
over to the stack. A step of anybody else changes what is registered or takes rows away,
and concerns a set of implementations: `Spared` says what it leaves alone, `FrameStays` and
`MetStays` that what rests on the rest is met as before, and `LossKeeps` puts that together
once for registrations, drops and edits. `SlotsInv` carries the facts of an assignment to
its calls: an implementation that was in a slot when it was filled has its action and no
dependencies as long as it is there and was not declared again (`Keeps`). The attempt to
prove `ResolutionMeetsDemands` showed that it had held only because the run started
`auto_resolve` once: a second one answers beside the rows that a failed one left. The model
allows several, and the property leaves such remains aside.

The inductive invariants were checked by TLC on the instances of the runs before they
were proved. Theorems of the form `Spec => []TypeOK` state the type invariants; no
assumption is made beyond those the modules declare, which TLC evaluates in every run.

**Only model-checked**: the nine properties under fairness (`FencedStopsDraining`,
`ClosedStopsDraining`, `AbandonedIsHealed`, `RolledBackIsHealed`, `MismatchStopsDraining`,
`NothingWaitsForever`, `CancelEscalates`, `EveryRequestAnswered`, `UploadsEnd`), which are
out of the prover's reach.

## 6. Abstractions, and what is not modelled

Payloads, messages' texts and permissions are absent. One agent (in `Registry` and
`Resolution`: the agents of one app), one caller, one timer key and one task tree are
modelled; rows of different ones share no state. Timestamps are positions, so clock skew
between workers is not seen. A process sends its state frames over one socket. Every
patch applies to the value it meets: `get_latest_state` passes over one that does not.
The channel layer delivers to everyone who has joined, except for displacement messages,
which may be lost. PostgreSQL, S3, STS and redis do what the code relies on them for.

Not modelled: `ensure_agent` and `delete_agent`, which make and drop the row every module
takes as given; test targets, state definitions and lock rows of a registration, which
are upserts like those of implementations and which nothing races for; the port filters
of the list queries, which have no state; signatures and claims of tokens and webhooks;
locks, which nobody reads; the GraphQL surface, the catalogue and the settings. The
reason of each is in `PROJECT.json`.

## 7. Plan

1. *Abstraction*: an abstract task that `TaskLifecycle` implements.
2. *Composition of lease and queue*: a session whose listen loop died while its
   heartbeats go on; two sockets of one process; Init inquiries after a claim.
3. *Locks*, once something reads them; `delete_agent` beside the sessions of the agent.
