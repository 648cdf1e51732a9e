----------------------------- MODULE AutoInterrupt -----------------------------
(***************************************************************************)
(* The control requests of callers on one task and the escalation of an    *)
(* unconfirmed cancel (facade/persist_backend.py, _caller_control_sync to  *)
(* _escalate_to_interrupt), over the timers of the task's key in           *)
(* _auto_interrupt.  Each request may arm one timer, so a request and its  *)
(* timer have one name.                                                    *)
(*                                                                         *)
(* Timers belong to one worker: a report or a sweep that runs in this      *)
(* worker cancels the key, one that runs elsewhere only writes the row.    *)
(***************************************************************************)
EXTENDS GraceScheduler

CONSTANTS
    Owned,      \* the requests that come from the caller of the task
    Settlers,   \* reports and sweeps, each used once
    Asks        \* the instructions that are asked for

\* The -Request messages; only a cancel carries an auto_interrupt window.
Control == {"CANCEL", "INTERRUPT", "PAUSE", "RESUME"}
Asking  == {a \in [kind : Control, window : BOOLEAN] : a.window => a.kind = "CANCEL"}

ASSUME ControlAssumption == Owned \subseteq Timers /\ Asks \subseteq Control

VARIABLES
    done,       \* Task.is_done
    sent,       \* the instructions that were recorded and broadcast
    stage,      \* where each request stands
    ask,        \* its instruction
    thread,     \* where the thread of each escalation stands
    settler,    \* where each report or sweep stands
    dropped     \* history: the key was cancelled for a task that stayed open

allVars == <<timerVars, done, sent, stage, ask, thread, settler, dropped>>

AutoTypeOK ==
    /\ TimerTypeOK
    /\ done \in BOOLEAN
    /\ sent \subseteq Control
    /\ stage \in [Timers -> {"idle", "checked", "instructed", "refused", "over"}]
    /\ ask \in [Timers -> Asking]
    /\ thread \in [Timers -> {"none", "looked", "over"}]
    /\ settler \in [Settlers -> {"idle", "here", "elsewhere", "over"}]
    /\ dropped \in BOOLEAN

AutoInit ==
    /\ TimerInit
    /\ done = FALSE
    /\ sent = {}
    /\ stage = [r \in Timers |-> "idle"]
    /\ ask = [r \in Timers |-> [kind |-> "CANCEL", window |-> FALSE]]
    /\ thread = [r \in Timers |-> "none"]
    /\ settler = [s \in Settlers |-> "idle"]
    /\ dropped = FALSE

-----------------------------------------------------------------------------
(* Requests.                                                                *)

\* What gets a ControlResponse that is not accepted.
Refused(r) == r \notin Owned \/ done

\* _caller_control_sync: a stranger is refused, and so is the caller of a task
\* that is done.
Request(r, a) ==
    /\ a.kind \in Asks
    /\ stage[r] = "idle"
    /\ stage' = [stage EXCEPT ![r] = IF Refused(r) THEN "refused" ELSE "checked"]
    /\ ask' = [ask EXCEPT ![r] = a]
    /\ UNCHANGED <<timerVars, done, sent, thread, settler, dropped>>

\* _request_control writes; a report in between does not stop it.
Instruct(r) ==
    /\ stage[r] = "checked"
    /\ sent' = sent \cup {ask[r].kind}
    /\ stage' = [stage EXCEPT ![r] = IF ask[r].window THEN "instructed" ELSE "over"]
    /\ UNCHANGED <<timerVars, done, ask, thread, settler, dropped>>

\* on_caller_cancel is back on the event loop and schedules the escalation.
Arm(r) ==
    /\ stage[r] = "instructed"
    /\ stage' = [stage EXCEPT ![r] = "over"]
    /\ Schedule(r)
    /\ UNCHANGED <<done, sent, ask, thread, settler, dropped>>

-----------------------------------------------------------------------------
(* The escalation: the action of a timer, run in a thread that a cancel of  *)
(* the timer does not stop.                                                 *)

Expire(r) == Wake(r) /\ UNCHANGED <<done, sent, stage, ask, thread, settler, dropped>>

\* _escalate_to_interrupt and then _request_control look at is_done; the later
\* look decides.
Look(r) ==
    /\ r \in fired
    /\ thread[r] = "none"
    /\ thread' = [thread EXCEPT ![r] = IF done THEN "over" ELSE "looked"]
    /\ UNCHANGED <<timerVars, done, sent, stage, ask, settler, dropped>>

Escalate(r) ==
    /\ thread[r] = "looked"
    /\ sent' = sent \cup {"INTERRUPT"}
    /\ thread' = [thread EXCEPT ![r] = "over"]
    /\ UNCHANGED <<timerVars, done, stage, ask, settler, dropped>>

\* The action of a timer awaits its thread, unless the timer was cancelled.
End(r) ==
    /\ state[r] = "running" => thread[r] = "over"
    /\ Finish(r)
    /\ UNCHANGED <<done, sent, stage, ask, thread, settler, dropped>>

-----------------------------------------------------------------------------
(* Reports and sweeps.                                                      *)

\* A terminal report, or the sweep of the executor, in this worker: the key is
\* cancelled before anything is read.
SettleHere(s) ==
    /\ settler[s] = "idle"
    /\ settler' = [settler EXCEPT ![s] = IF done THEN "over" ELSE "here"]
    /\ Cancel \/ (Pending = {} /\ UNCHANGED timerVars)
    /\ UNCHANGED <<done, sent, stage, ask, thread, dropped>>

SettleElsewhere(s) ==
    /\ settler[s] = "idle"
    /\ settler' = [settler EXCEPT ![s] = IF done THEN "over" ELSE "elsewhere"]
    /\ UNCHANGED <<timerVars, done, sent, stage, ask, thread, dropped>>

Close(s) ==
    /\ settler[s] \in {"here", "elsewhere"}
    /\ settler' = [settler EXCEPT ![s] = "over"]
    /\ done' = TRUE
    /\ UNCHANGED <<timerVars, sent, stage, ask, thread, dropped>>

\* The handler fails before its save, or the sweep puts the task back in the
\* queue or marks it DISCONNECTED: the task stays open.
LeaveOpen(s) ==
    /\ settler[s] \in {"here", "elsewhere"}
    /\ settler' = [settler EXCEPT ![s] = "over"]
    /\ dropped' = (dropped \/ settler[s] = "here")
    /\ UNCHANGED <<timerVars, done, sent, stage, ask, thread>>

-----------------------------------------------------------------------------
AutoNext ==
    \/ \E r \in Timers :
          \/ \E a \in Asking : Request(r, a)
          \/ Instruct(r) \/ Arm(r) \/ Expire(r) \/ Look(r) \/ Escalate(r) \/ End(r)
    \/ \E s \in Settlers :
          SettleHere(s) \/ SettleElsewhere(s) \/ Close(s) \/ LeaveOpen(s)

AutoSpec == AutoInit /\ [][AutoNext]_allVars

\* Handlers go on, the event loop wakes sleepers and resumes what it cancelled,
\* and the thread of a timer that is not cancelled runs.
AutoFairSpec ==
    /\ AutoSpec
    /\ \A r \in Timers :
          /\ WF_allVars(Instruct(r)) /\ WF_allVars(Arm(r)) /\ WF_allVars(Expire(r))
          /\ WF_allVars(state[r] = "running" /\ Look(r))
          /\ WF_allVars(Escalate(r)) /\ WF_allVars(End(r))
    /\ \A s \in Settlers : WF_allVars(Close(s) \/ LeaveOpen(s))

-----------------------------------------------------------------------------
(* Properties.                                                              *)

(***************************************************************************)
(* A cancel with an auto_interrupt window (on_caller_cancel) is not        *)
(* forgotten, whatever replaces its timer and whoever pops its key: in the *)
(* end the task is done, or an interrupt went out, or a handler of this    *)
(* worker cancelled the timer and then left the task open.                 *)
(***************************************************************************)
CancelEscalates ==
    \A r \in Timers :
       (stage[r] = "instructed") ~> (done \/ "INTERRUPT" \in sent \/ dropped)
=============================================================================
