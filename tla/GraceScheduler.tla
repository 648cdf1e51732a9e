---------------------------- MODULE GraceScheduler ----------------------------
(***************************************************************************)
(* The single-shot timers of one key of a GraceScheduler (facade/grace.py),*)
(* as persist_backend uses them: the disconnect grace of an agent, the     *)
(* progress lease of a task and the escalation of a cancel.  Keys do not   *)
(* share state.  All steps run on one event loop: schedule and cancel are  *)
(* atomic, a cancelled task learns of it only when the loop resumes it.    *)
(***************************************************************************)
EXTENDS FiniteSets

CONSTANTS Timers, NoTimer      \* asyncio tasks, each scheduled at most once

ASSUME TimersAssumption == NoTimer \notin Timers

VARIABLES
    entry,      \* self._tasks[key]
    state,      \* what each timer is doing
    fired,      \* history: timers whose action has begun
    cancelled   \* history: timers that were pending or running at a cancel(key)

timerVars == <<entry, state, fired, cancelled>>

States == {"new", "sleeping", "running", "unwinding", "over"}

TimerTypeOK ==
    /\ entry \in Timers \cup {NoTimer}
    /\ state \in [Timers -> States]
    /\ fired \subseteq Timers
    /\ cancelled \subseteq Timers

TimerInit ==
    /\ entry = NoTimer
    /\ state = [t \in Timers |-> "new"]
    /\ fired = {}
    /\ cancelled = {}

Pending == {t \in Timers : state[t] \in {"sleeping", "running"}}

\* Task.cancel() of the registered timer: asleep it just returns, inside its
\* action it unwinds, with the finally clause still to come.
Popped ==
    [t \in Timers |-> IF t # entry THEN state[t]
                      ELSE IF state[t] = "sleeping" THEN "over"
                      ELSE IF state[t] = "running" THEN "unwinding"
                      ELSE state[t]]

\* cancel(key), then a new task under the key.
Schedule(t) ==
    /\ state[t] = "new"
    /\ state' = [Popped EXCEPT ![t] = "sleeping"]
    /\ entry' = t
    /\ cancelled' = cancelled \cup Pending
    /\ UNCHANGED fired

\* cancel(key) alone: a reconnect, or a terminal report.
Cancel ==
    /\ Pending # {}
    /\ state' = Popped
    /\ entry' = NoTimer
    /\ cancelled' = cancelled \cup Pending
    /\ UNCHANGED fired

\* The sleep is over and the action begins.
Wake(t) ==
    /\ state[t] = "sleeping"
    /\ state' = [state EXCEPT ![t] = "running"]
    /\ fired' = fired \cup {t}
    /\ UNCHANGED <<entry, cancelled>>

\* A mutant of Finish: the key is not popped when the action ends.
FinishKeepsEntry(t) ==
    /\ state[t] \in {"running", "unwinding"}
    /\ state' = [state EXCEPT ![t] = "over"]
    /\ UNCHANGED <<entry, fired, cancelled>>

\* A mutant of Finish: the finally clause cancels what is under the key.
FinishCancels(t) ==
    /\ state[t] \in {"running", "unwinding"}
    /\ state' = [Popped EXCEPT ![t] = "over"]
    /\ entry' = NoTimer
    /\ UNCHANGED <<fired, cancelled>>

\* The action returned, raised or was cancelled: finally pops the key, whoever
\* is registered under it by now.
Finish(t) ==
    /\ state[t] \in {"running", "unwinding"}
    /\ state' = [state EXCEPT ![t] = "over"]
    /\ entry' = NoTimer
    /\ UNCHANGED <<fired, cancelled>>

TimerNext ==
    \/ Cancel
    \/ \E t \in Timers : Schedule(t) \/ Wake(t) \/ Finish(t)

TimerSpec == TimerInit /\ [][TimerNext]_timerVars

-----------------------------------------------------------------------------
(* Property.                                                                *)

(***************************************************************************)
(* The registry (schedule, cancel, _run) never names a timer that is over  *)
(* or that was cancelled, so "in" and a later cancel act on a live timer.  *)
(***************************************************************************)
RegisteredIsLive == entry # NoTimer => entry \in Pending \ cancelled
=============================================================================
