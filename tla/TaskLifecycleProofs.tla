-------------------------- MODULE TaskLifecycleProofs --------------------------
(***************************************************************************)
(* Proofs about TaskLifecycle, for any set of tasks with any parents, any  *)
(* number of concurrent handlers and any crash.                            *)
(***************************************************************************)
EXTENDS TaskLifecycle, FiniteSetTheorems, TLAPS

\* What a handler carries at each of its steps.
ReportShape(r) ==
    /\ op[r] = "report" => task[r] \in Tasks
    /\ pc[r] \in {"read", "emitted"} =>
          /\ op[r] \in {"report", "silent", "confirm"}
          /\ task[r] \in Tasks
          /\ op[r] = "confirm" => kind[r] \in Confirmation
          /\ op[r] # "confirm" => kind[r] \in Terminal
          /\ op[r] = "silent" => kind[r] = "CRITICAL"

UnfoldShape(r) ==
    pc[r] \in {"unfold", "unfolded"} =>
        /\ op[r] \in {"report", "note"}
        /\ task[r] \in Tasks
        /\ Parent[task[r]] \in Wrappers
        /\ kind[r] \in Terminal \cup {"YIELD"}
        /\ op[r] = "report" => kind[r] \in Terminal

SweepShape(r) ==
    /\ pc[r] \in {"sweeping", "claimed", "push"} => op[r] = "sweep"
    /\ pc[r] \in {"claimed", "push"} =>
          /\ task[r] \in Tasks
          /\ kind[r] \in {"CRITICAL", "QUEUED", "DISCONNECTED"}

ControlShape(r) ==
    pc[r] = "instructing" => op[r] = "control" /\ kind[r] \in Control

Shape(r) == ReportShape(r) /\ UnfoldShape(r) /\ SweepShape(r) /\ ControlShape(r)

Shapes == \A r \in Runs : Shape(r)

\* The events a handler has already written before it saves the row.
EmittedFirst ==
    \A r \in Runs :
        /\ pc[r] = "emitted" => events[task[r]][kind[r]] > 0
        /\ pc[r] = "unfolded" => events[Parent[task[r]]][kind[r]] > 0

\* The inductive invariant.
TaskInv ==
    /\ TypeOK /\ Shapes /\ EmittedFirst
    /\ AckedIsDone /\ DoneHasTerminalEvent /\ ReportReachesWrapper

(***************************************************************************)
(* The rows only ever grow: is_done is never taken back and no event is    *)
(* removed.                                                                *)
(***************************************************************************)
Grow ==
    /\ \A t \in Tasks : done[t] => done'[t]
    /\ \A t \in Tasks, k \in Kinds : events'[t][k] >= events[t][k]

\* Kinds of TaskEvents are what the names of the groups say (enums/task.py).
LEMMA KindFacts ==
    /\ Terminal \subseteq Kinds /\ Confirmation \subseteq Kinds /\ Note \subseteq Kinds
    /\ Requested \subseteq Kinds
    /\ {"CRITICAL", "QUEUED", "DISCONNECTED", "STARTED", "YIELD"} \subseteq Kinds
    /\ \A i \in Control : i \in Instructs /\ RequestKind(i) \in Requested
    /\ \A k \in Confirmation \cup Note \cup Requested \cup {"QUEUED", "DISCONNECTED"} :
           k \notin Terminal
BY DEF Kinds, Terminal, Confirmation, Note, Requested, Instructs, Control, RequestKind

\* Creating a TaskEvent keeps the log well-typed and loses no event.
LEMMA EmitFacts ==
    ASSUME events \in [Tasks -> [Kinds -> Nat]], NEW t \in Tasks, NEW k \in Kinds, Emit(t, k)
    PROVE  /\ events' \in [Tasks -> [Kinds -> Nat]]
           /\ events'[t][k] > 0
           /\ \A u \in Tasks, j \in Kinds : events'[u][j] >= events[u][j]
<1>1. events' = [events EXCEPT ![t] = [events[t] EXCEPT ![k] = events[t][k] + 1]]
  BY DEF Emit
<1>2. events[t] \in [Kinds -> Nat] /\ events[t][k] \in Nat
  OBVIOUS
<1>3. [events[t] EXCEPT ![k] = events[t][k] + 1] \in [Kinds -> Nat]
  BY <1>2
<1>4. \A u \in Tasks, j \in Kinds : events[u][j] \in Nat
  OBVIOUS
<1>5. QED
  BY <1>1, <1>2, <1>3, <1>4

\* The branch a sweep takes is one of three event kinds.
LEMMA SweepKindFacts ==
    \A r \in Runs, t \in Tasks : SweepKind(r, t) \in {"CRITICAL", "QUEUED", "DISCONNECTED"}
BY DEF SweepKind

\* Every step keeps the types (models/task.py) and the shape of every handler.
LEMMA TypesAndShapes ==
    ASSUME TypeOK, Shapes, NEW r \in Runs, Step(r)
    PROVE  TypeOK' /\ Shapes'
<1> USE TasksAssumption, RunsAssumption, KindsAssumption, KindFacts
<1>1. ASSUME NEW t \in Executed, NEW k \in Terminal, BeginReport(r, t, k)
      PROVE  TypeOK' /\ Shapes'
  <2>1. t \in Tasks
    BY DEF Executed
  <2>2. TypeOK'
    BY <1>1, <2>1 DEF BeginReport, Begin, Goto, TypeOK, rows, Ops, Steps
  <2>3. Shapes'
    BY <1>1, <2>1 DEF BeginReport, Begin, Goto, TypeOK, rows, Shapes, Shape, ReportShape,
                      UnfoldShape, SweepShape, ControlShape
  <2>4. QED
    BY <2>2, <2>3
<1>2. ASSUME NEW t \in Executed, NEW k \in Confirmation, BeginConfirm(r, t, k)
      PROVE  TypeOK' /\ Shapes'
  <2>1. t \in Tasks
    BY DEF Executed
  <2>2. TypeOK'
    BY <1>2, <2>1 DEF BeginConfirm, Begin, Goto, TypeOK, rows, Ops, Steps
  <2>3. Shapes'
    BY <1>2, <2>1 DEF BeginConfirm, Begin, Goto, TypeOK, rows, Shapes, Shape, ReportShape,
                      UnfoldShape, SweepShape, ControlShape
  <2>4. QED
    BY <2>2, <2>3
<1>3. ASSUME NEW t \in Executed, NEW k \in Note, TakeNote(r, t, k)
      PROVE  TypeOK' /\ Shapes'
  <2>1. t \in Tasks /\ k \in Kinds
    BY DEF Executed
  <2>2. events' \in [Tasks -> [Kinds -> Nat]]
    BY <1>3, <2>1, EmitFacts DEF TakeNote, TypeOK
  <2>3. TypeOK'
    BY <1>3, <2>1, <2>2 DEF TakeNote, Begin, Goto, TypeOK, Ops, Steps
  <2>4. Shapes'
    BY <1>3, <2>1 DEF TakeNote, Begin, Goto, TypeOK, Unfolds, Shapes, Shape, ReportShape,
                      UnfoldShape, SweepShape, ControlShape
  <2>5. QED
    BY <2>3, <2>4
<1>4. ASSUME NEW t \in Executed, BeginSilent(r, t)
      PROVE  TypeOK' /\ Shapes'
  <2>1. t \in Tasks /\ "CRITICAL" \in Terminal
    BY DEF Executed, Terminal
  <2>2. TypeOK'
    BY <1>4, <2>1 DEF BeginSilent, Begin, Goto, TypeOK, rows, Ops, Steps
  <2>3. Shapes'
    BY <1>4, <2>1 DEF BeginSilent, Begin, Goto, TypeOK, rows, Shapes, Shape, ReportShape,
                      UnfoldShape, SweepShape, ControlShape
  <2>4. QED
    BY <2>2, <2>3
<1>5. ASSUME NEW t \in Tasks, NEW i \in Instructs, BeginControl(r, t, i)
      PROVE  TypeOK' /\ Shapes'
  <2>1. TypeOK'
    BY <1>5 DEF BeginControl, Begin, Goto, TypeOK, rows, Ops, Steps
  <2>2. Shapes'
    BY <1>5 DEF BeginControl, Begin, Goto, TypeOK, rows, Shapes, Shape, ReportShape,
                UnfoldShape, SweepShape, ControlShape
  <2>3. QED
    BY <2>1, <2>2
<1>6. CASE BeginSweep(r)
  <2>1. TypeOK'
    BY <1>6 DEF BeginSweep, Goto, TypeOK, rows, Ops, Steps
  <2>2. Shapes'
    BY <1>6 DEF BeginSweep, Goto, TypeOK, rows, Shapes, Shape, ReportShape, UnfoldShape,
                SweepShape, ControlShape
  <2>3. QED
    BY <2>1, <2>2
<1>7. CASE EmitReport(r)
  <2>1. task[r] \in Tasks /\ kind[r] \in Kinds
    BY <1>7 DEF EmitReport, Shapes, Shape, ReportShape
  <2>2. events' \in [Tasks -> [Kinds -> Nat]]
    BY <1>7, <2>1, EmitFacts DEF EmitReport, TypeOK
  <2>3. TypeOK'
    BY <1>7, <2>2 DEF EmitReport, Goto, TypeOK, Steps
  <2>4. Shapes'
    BY <1>7 DEF EmitReport, Goto, TypeOK, Shapes, Shape, ReportShape, UnfoldShape,
                SweepShape, ControlShape
  <2>5. QED
    BY <2>3, <2>4
<1>8. CASE SaveReport(r)
  <2>1. task[r] \in Tasks /\ kind[r] \in Kinds
    BY <1>8 DEF SaveReport, Shapes, Shape, ReportShape
  <2>2. TypeOK'
    BY <1>8, <2>1 DEF SaveReport, Goto, TypeOK, Steps
  <2>3. Shapes'
    BY <1>8 DEF SaveReport, Goto, TypeOK, Unfolds, Shapes, Shape, ReportShape, UnfoldShape,
                SweepShape, ControlShape
  <2>4. QED
    BY <2>2, <2>3
<1>9. CASE UnfoldEvent(r)
  <2>1. Parent[task[r]] \in Tasks /\ kind[r] \in Kinds
    BY <1>9 DEF UnfoldEvent, Shapes, Shape, UnfoldShape
  <2>2. events' \in [Tasks -> [Kinds -> Nat]]
    BY <1>9, <2>1, EmitFacts DEF UnfoldEvent, TypeOK
  <2>3. TypeOK'
    BY <1>9, <2>2 DEF UnfoldEvent, Goto, TypeOK, Steps
  <2>4. Shapes'
    BY <1>9 DEF UnfoldEvent, Goto, TypeOK, Shapes, Shape, ReportShape, UnfoldShape,
                SweepShape, ControlShape
  <2>5. QED
    BY <2>3, <2>4
<1>10. CASE UnfoldSave(r)
  <2>1. Parent[task[r]] \in Tasks /\ kind[r] \in Kinds
    BY <1>10 DEF UnfoldSave, Shapes, Shape, UnfoldShape
  <2>2. TypeOK'
    BY <1>10, <2>1 DEF UnfoldSave, Goto, TypeOK, Steps
  <2>3. Shapes'
    BY <1>10 DEF UnfoldSave, Goto, TypeOK, Shapes, Shape, ReportShape, UnfoldShape,
                 SweepShape, ControlShape
  <2>4. QED
    BY <2>2, <2>3
<1>11. CASE SweepEmit(r)
  <2>1. task[r] \in Tasks /\ kind[r] \in Kinds
    BY <1>11 DEF SweepEmit, Shapes, Shape, SweepShape
  <2>2. events' \in [Tasks -> [Kinds -> Nat]]
    BY <1>11, <2>1, EmitFacts DEF SweepEmit, TypeOK
  <2>3. TypeOK'
    BY <1>11, <2>2 DEF SweepEmit, Goto, TypeOK, Steps
  <2>4. Shapes'
    BY <1>11 DEF SweepEmit, Goto, TypeOK, Shapes, Shape, ReportShape, UnfoldShape,
                 SweepShape, ControlShape
  <2>5. QED
    BY <2>3, <2>4
<1>12. CASE SweepPush(r)
  <2>1. task[r] \in Tasks
    BY <1>12 DEF SweepPush, Shapes, Shape, SweepShape
  <2>2. TypeOK'
    BY <1>12, <2>1 DEF SweepPush, Goto, TypeOK, Steps
  <2>3. Shapes'
    BY <1>12 DEF SweepPush, Goto, TypeOK, Shapes, Shape, ReportShape, UnfoldShape,
                 SweepShape, ControlShape
  <2>4. QED
    BY <2>2, <2>3
<1>13. CASE EndSweep(r) \/ Crash(r)
  <2>1. TypeOK'
    BY <1>13 DEF EndSweep, Crash, Goto, TypeOK, rows, Steps
  <2>2. Shapes'
    BY <1>13 DEF EndSweep, Crash, Goto, TypeOK, rows, Shapes, Shape, ReportShape, UnfoldShape,
                 SweepShape, ControlShape
  <2>3. QED
    BY <2>1, <2>2
<1>14. ASSUME NEW t \in Tasks, SweepSkip(r, t)
       PROVE  TypeOK' /\ Shapes'
  BY <1>14 DEF SweepSkip, TypeOK, rows, Shapes, Shape, ReportShape, UnfoldShape, SweepShape,
               ControlShape
<1>15. ASSUME NEW t \in Tasks, SweepClaim(r, t)
       PROVE  TypeOK' /\ Shapes'
  <2>1. SweepKind(r, t) \in {"CRITICAL", "QUEUED", "DISCONNECTED"}
    BY SweepKindFacts
  <2>2. TypeOK'
    BY <1>15, <2>1 DEF SweepClaim, Goto, TypeOK, Steps
  <2>3. Shapes'
    BY <1>15, <2>1 DEF SweepClaim, Goto, TypeOK, Shapes, Shape, ReportShape, UnfoldShape,
                       SweepShape, ControlShape
  <2>4. QED
    BY <2>2, <2>3
<1>16. ASSUME NEW t \in Tasks, Instruct(r, t)
       PROVE  TypeOK' /\ Shapes'
  <2>1. kind[r] \in Control
    BY <1>16 DEF Instruct, Shapes, Shape, ControlShape
  <2>2. RequestKind(kind[r]) \in Kinds
    BY <2>1
  <2>3. events' \in [Tasks -> [Kinds -> Nat]]
    BY <1>16, <2>2, EmitFacts DEF Instruct, TypeOK
  <2>4. TypeOK'
    BY <1>16, <2>1, <2>3 DEF Instruct, Goto, TypeOK, Steps
  <2>5. Shapes'
    BY <1>16, <2>1 DEF Instruct, Goto, TypeOK, Shapes, Shape, ReportShape, UnfoldShape,
                       SweepShape, ControlShape
  <2>6. QED
    BY <2>4, <2>5
<1>17. QED
  BY <1>1, <1>2, <1>3, <1>4, <1>5, <1>6, <1>7, <1>8, <1>9, <1>10, <1>11, <1>12, <1>13,
     <1>14, <1>15, <1>16 DEF Step, Continue

\* The other handlers stand where they stood.
Others(r) ==
    \A q \in Runs \ {r} : /\ op'[q] = op[q] /\ pc'[q] = pc[q]
                         /\ task'[q] = task[q] /\ kind'[q] = kind[q]

\* A step moves one handler only.
LEMMA OneHandlerMoves ==
    ASSUME TypeOK, NEW r \in Runs, Step(r)
    PROVE  Others(r)
BY DEF Step, Continue, BeginReport, BeginConfirm, TakeNote, BeginSilent, BeginControl,
       BeginSweep, EmitReport, SaveReport, UnfoldEvent, UnfoldSave, SweepEmit, SweepPush,
       EndSweep, SweepSkip, SweepClaim, Instruct, Crash, Begin, Goto, TypeOK, Others, rows

\* Every handler only adds events, and none takes is_done back
\* (acreate, and asave with update_fields).
LEMMA RowsGrow ==
    ASSUME TypeOK, Shapes, NEW r \in Runs, Step(r)
    PROVE  Grow
<1> USE TasksAssumption, KindsAssumption, KindFacts
<1>1. CASE UNCHANGED <<done, events>>
  <2>1. \A t \in Tasks, k \in Kinds : events[t][k] \in Nat
    BY DEF TypeOK
  <2>2. QED
    BY <1>1, <2>1 DEF Grow
<1>2. ASSUME NEW t \in Tasks, NEW k \in Kinds, Emit(t, k), UNCHANGED done
      PROVE  Grow
  BY <1>2, EmitFacts DEF Grow, TypeOK
<1>3. ASSUME NEW t \in Tasks, NEW b \in BOOLEAN, UNCHANGED events,
             done' = [done EXCEPT ![t] = done[t] \/ b]
      PROVE  Grow
  <2>1. \A u \in Tasks, k \in Kinds : events[u][k] \in Nat
    BY DEF TypeOK
  <2>2. \A u \in Tasks : done[u] => done'[u]
    BY <1>3 DEF TypeOK
  <2>3. QED
    BY <1>3, <2>1, <2>2 DEF Grow
<1>4. CASE EmitReport(r) \/ SweepEmit(r)
  <2>1. task[r] \in Tasks /\ kind[r] \in Kinds
    BY <1>4 DEF EmitReport, SweepEmit, Shapes, Shape, ReportShape, SweepShape
  <2>2. QED
    BY <1>4, <2>1, <1>2 DEF EmitReport, SweepEmit
<1>5. CASE UnfoldEvent(r)
  <2>1. Parent[task[r]] \in Tasks /\ kind[r] \in Kinds
    BY <1>5 DEF UnfoldEvent, Shapes, Shape, UnfoldShape
  <2>2. QED
    BY <1>5, <2>1, <1>2 DEF UnfoldEvent
<1>6. CASE SaveReport(r)
  <2>1. task[r] \in Tasks
    BY <1>6 DEF SaveReport, Shapes, Shape, ReportShape
  <2>2. QED
    BY <1>6, <2>1, <1>3 DEF SaveReport
<1>7. CASE UnfoldSave(r)
  <2>1. Parent[task[r]] \in Tasks
    BY <1>7 DEF UnfoldSave, Shapes, Shape, UnfoldShape
  <2>2. QED
    BY <1>7, <2>1, <1>3 DEF UnfoldSave
<1>8. ASSUME NEW t \in Tasks, SweepClaim(r, t)
      PROVE  Grow
  BY <1>8, <1>3 DEF SweepClaim
<1>9. ASSUME NEW t \in Tasks, Instruct(r, t)
      PROVE  Grow
  <2>1. RequestKind(kind[r]) \in Kinds
    BY <1>9 DEF Instruct, Shapes, Shape, ControlShape
  <2>2. QED
    BY <1>9, <2>1, <1>2 DEF Instruct
<1>10. ASSUME NEW t \in Executed, NEW k \in Note, TakeNote(r, t, k)
       PROVE  Grow
  BY <1>10, <1>2 DEF TakeNote, Executed
<1>11. QED
  BY <1>1, <1>4, <1>5, <1>6, <1>7, <1>8, <1>9, <1>10
     DEF Step, Continue, BeginReport, BeginConfirm, BeginSilent, BeginControl, BeginSweep,
         SweepPush, EndSweep, SweepSkip, Crash, rows

-----------------------------------------------------------------------------
\* What every step of handler r starts from, and what the lemmas above give it.
Moves(r) ==
    /\ TaskInv /\ Step(r)
    /\ TypeOK' /\ Shapes'
    /\ Grow /\ Others(r)

LEMMA MovesFromStep ==
    ASSUME TaskInv, NEW r \in Runs, Step(r)
    PROVE  Moves(r)
BY TypesAndShapes, RowsGrow, OneHandlerMoves DEF TaskInv, Moves

\* A report reaches its ack only past the save of is_done, or past a read that
\* found the task done (on_agent_done and its siblings).
LEMMA AckedStep ==
    ASSUME NEW r \in Runs, Moves(r)
    PROVE  AckedIsDone'
<1>1. TypeOK /\ Shapes /\ Shapes' /\ Grow /\ AckedIsDone /\ Others(r) /\ Step(r)
  BY DEF Moves, TaskInv
<1> SUFFICES ASSUME NEW q \in Runs, op'[q] = "report",
                    pc'[q] \in {"unfold", "unfolded", "over"}
             PROVE  done'[task'[q]]
  BY DEF AckedIsDone
<1>2. task'[q] \in Tasks
  BY <1>1 DEF Shapes, Shape, ReportShape
<1>3. CASE op[q] = "report" /\ pc[q] \in {"unfold", "unfolded", "over"} /\ task'[q] = task[q]
  BY <1>1, <1>2, <1>3 DEF AckedIsDone, Grow
<1>4. CASE q # r
  BY <1>1, <1>3, <1>4 DEF Others
<1>5. ASSUME NEW t \in Executed, NEW k \in Terminal, BeginReport(r, t, k), q = r
      PROVE  done'[task'[q]]
  <2>1. task'[r] = t /\ done' = done /\ pc'[r] = IF done[t] THEN "over" ELSE "read"
    BY <1>1, <1>5 DEF BeginReport, Begin, Goto, rows, TypeOK
  <2>2. QED
    BY <1>5, <2>1
<1>6. CASE SaveReport(r) /\ q = r
  <2>1. task[r] \in Tasks /\ task' = task /\ op' = op
    BY <1>1, <1>6 DEF SaveReport, Shapes, Shape, ReportShape
  <2>2. done' = [done EXCEPT ![task[r]] = TRUE]
    BY <1>6, <2>1 DEF SaveReport
  <2>3. QED
    BY <1>1, <1>6, <2>1, <2>2 DEF TypeOK
<1>7. CASE EmitReport(r) /\ q = r
  BY <1>1, <1>7 DEF EmitReport, Goto, TypeOK
<1>8. CASE (UnfoldEvent(r) \/ UnfoldSave(r)) /\ q = r
  BY <1>1, <1>3, <1>8 DEF UnfoldEvent, UnfoldSave
<1>9. ASSUME q = r,
             \/ SweepEmit(r) \/ SweepPush(r) \/ EndSweep(r)
             \/ \E t \in Tasks : SweepSkip(r, t) \/ SweepClaim(r, t) \/ Instruct(r, t)
      PROVE  FALSE
  <2>1. op' = op /\ op[r] \in {"sweep", "control"}
    BY <1>1, <1>9 DEF SweepEmit, SweepPush, EndSweep, SweepSkip, SweepClaim, Instruct,
                      Shapes, Shape, SweepShape, ControlShape
  <2>2. QED
    BY <1>9, <2>1
<1>10. CASE Crash(r) /\ q = r
  BY <1>1, <1>10 DEF Crash, Goto, TypeOK
<1>11. ASSUME q = r,
             \/ \E t \in Executed : \/ \E k \in Confirmation : BeginConfirm(r, t, k)
                                    \/ \E k \in Note : TakeNote(r, t, k)
                                    \/ BeginSilent(r, t)
             \/ \E t \in Tasks, i \in Instructs : BeginControl(r, t, i)
             \/ BeginSweep(r)
       PROVE  FALSE
  BY <1>1, <1>11 DEF BeginConfirm, TakeNote, BeginSilent, BeginControl, BeginSweep, Begin, TypeOK
<1>12. QED
  BY <1>1, <1>4, <1>5, <1>6, <1>7, <1>8, <1>9, <1>10, <1>11 DEF Step, Continue

\* The TaskEvent of a report or of an unfolding is there before the row is saved.
LEMMA EmittedStep ==
    ASSUME NEW r \in Runs, Moves(r)
    PROVE  EmittedFirst'
<1> USE TasksAssumption, KindFacts
<1>1. TypeOK /\ TypeOK' /\ Shapes /\ Shapes' /\ Grow /\ EmittedFirst /\ Others(r) /\ Step(r)
  BY DEF Moves, TaskInv
<1>2. \A t \in Tasks, k \in Kinds : events[t][k] \in Nat /\ events'[t][k] \in Nat
  BY <1>1 DEF TypeOK
<1>3. ASSUME NEW q \in Runs, pc'[q] = "emitted"
      PROVE  events'[task'[q]][kind'[q]] > 0
  <2>1. task'[q] \in Tasks /\ kind'[q] \in Kinds
    BY <1>1, <1>3 DEF Shapes, Shape, ReportShape
  <2>2. CASE pc[q] = "emitted" /\ task'[q] = task[q] /\ kind'[q] = kind[q]
    BY <1>1, <1>2, <2>1, <2>2 DEF EmittedFirst, Grow
  <2>3. CASE q # r
    BY <1>1, <1>3, <2>2, <2>3 DEF Others
  <2>4. CASE EmitReport(r) /\ q = r
    <3>1. task' = task /\ kind' = kind /\ Emit(task[r], kind[r])
      BY <2>4 DEF EmitReport
    <3>2. QED
      BY <1>1, <2>1, <2>4, <3>1, EmitFacts DEF TypeOK
  <2>5. ASSUME q = r, ~EmitReport(r)
        PROVE  FALSE
    BY <1>1, <1>3, <2>5
       DEF Step, Continue, BeginReport, BeginConfirm, TakeNote, BeginSilent, BeginControl,
           BeginSweep, SaveReport, UnfoldEvent, UnfoldSave, SweepEmit, SweepPush,
           EndSweep, SweepSkip, SweepClaim, Instruct, Crash, Begin, Goto, TypeOK
  <2>6. QED
    BY <2>3, <2>4, <2>5
<1>4. ASSUME NEW q \in Runs, pc'[q] = "unfolded"
      PROVE  events'[Parent[task'[q]]][kind'[q]] > 0
  <2>1. Parent[task'[q]] \in Tasks /\ kind'[q] \in Kinds
    BY <1>1, <1>4 DEF Shapes, Shape, UnfoldShape
  <2>2. CASE pc[q] = "unfolded" /\ task'[q] = task[q] /\ kind'[q] = kind[q]
    BY <1>1, <1>2, <2>1, <2>2 DEF EmittedFirst, Grow
  <2>3. CASE q # r
    BY <1>1, <1>4, <2>2, <2>3 DEF Others
  <2>4. CASE UnfoldEvent(r) /\ q = r
    <3>1. task' = task /\ kind' = kind /\ Emit(Parent[task[r]], kind[r])
      BY <2>4 DEF UnfoldEvent
    <3>2. QED
      BY <1>1, <2>1, <2>4, <3>1, EmitFacts DEF TypeOK
  <2>5. ASSUME q = r, ~UnfoldEvent(r)
        PROVE  FALSE
    BY <1>1, <1>4, <2>5
       DEF Step, Continue, BeginReport, BeginConfirm, TakeNote, BeginSilent, BeginControl,
           BeginSweep, EmitReport, SaveReport, UnfoldSave, SweepEmit, SweepPush,
           EndSweep, SweepSkip, SweepClaim, Instruct, Crash, Begin, Goto, TypeOK
  <2>6. QED
    BY <2>3, <2>4, <2>5
<1>5. QED
  BY <1>3, <1>4 DEF EmittedFirst

\* Whoever sets is_done has written a terminal event (a report, an unfolding) or
\* holds the claim under which it is about to (a sweep).
LEMMA DoneStep ==
    ASSUME NEW r \in Runs, Moves(r)
    PROVE  DoneHasTerminalEvent'
<1> USE TasksAssumption, KindFacts
<1>1. /\ TypeOK /\ TypeOK' /\ Shapes /\ Shapes' /\ Grow /\ EmittedFirst /\ Others(r) /\ Step(r)
      /\ DoneHasTerminalEvent
  BY DEF Moves, TaskInv
<1>2. \A t \in Tasks, k \in Kinds : events[t][k] \in Nat /\ events'[t][k] \in Nat
  BY <1>1 DEF TypeOK
<1> DEFINE Claims(q, t) == /\ op[q] = "sweep" /\ pc[q] \in {"claimed", "dead"}
                           /\ task[q] = t /\ kind[q] = "CRITICAL"
<1> SUFFICES ASSUME NEW t \in Tasks, done'[t]
             PROVE  HasTerminalEvent(t)' \/ \E q \in Runs : Claims(q, t)'
  BY DEF DoneHasTerminalEvent
<1>3. ASSUME NEW k \in Terminal, events[t][k] > 0
      PROVE  HasTerminalEvent(t)'
  <2>1. events'[t][k] >= events[t][k] /\ events[t][k] \in Nat /\ events'[t][k] \in Nat
    BY <1>1, <1>2 DEF Grow
  <2>2. events'[t][k] > 0
    BY <1>3, <2>1
  <2>3. QED
    BY <2>2 DEF HasTerminalEvent
<1>4. CASE HasTerminalEvent(t)
  BY <1>3, <1>4 DEF HasTerminalEvent
<1>5. ASSUME NEW q \in Runs, Claims(q, t)
      PROVE  HasTerminalEvent(t)' \/ \E p \in Runs : Claims(p, t)'
  <2>1. CASE q # r
    BY <1>1, <1>5, <2>1 DEF Others
  <2>2. CASE q = r /\ SweepEmit(r)
    <3>1. Emit(t, "CRITICAL")
      BY <1>5, <2>2 DEF SweepEmit
    <3>2. events'[t]["CRITICAL"] > 0 /\ "CRITICAL" \in Terminal
      BY <1>1, <3>1, EmitFacts DEF TypeOK, Terminal
    <3>3. QED
      BY <3>2 DEF HasTerminalEvent
  <2>3. CASE q = r /\ Crash(r)
    <3>1. op' = op /\ task' = task /\ kind' = kind /\ pc'[r] = "dead"
      BY <1>1, <2>3 DEF Crash, Goto, TypeOK
    <3>2. QED
      BY <1>5, <2>3, <3>1
  <2>4. ASSUME q = r, ~SweepEmit(r), ~Crash(r)
        PROVE  FALSE
    BY <1>1, <1>5, <2>4
       DEF Step, Continue, BeginReport, BeginConfirm, TakeNote, BeginSilent, BeginControl,
           BeginSweep, EmitReport, SaveReport, UnfoldEvent, UnfoldSave, SweepPush,
           EndSweep, SweepSkip, SweepClaim, Instruct, Begin
  <2>5. QED
    BY <2>1, <2>2, <2>3, <2>4
<1>6. CASE done[t]
  BY <1>1, <1>4, <1>5, <1>6 DEF DoneHasTerminalEvent
<1>7. CASE SaveReport(r) /\ ~done[t]
  <2>1. task[r] \in Tasks
    BY <1>1, <1>7 DEF SaveReport, Shapes, Shape, ReportShape
  <2>2. task[r] = t /\ op[r] # "confirm"
    BY <1>1, <1>7, <2>1 DEF SaveReport, TypeOK
  <2>3. kind[r] \in Terminal /\ events[t][kind[r]] > 0
    BY <1>1, <1>7, <2>2 DEF SaveReport, Shapes, Shape, ReportShape, EmittedFirst
  <2>4. QED
    BY <1>3, <2>3
<1>8. CASE UnfoldSave(r) /\ ~done[t]
  <2>1. Parent[task[r]] \in Tasks
    BY <1>1, <1>8 DEF UnfoldSave, Shapes, Shape, UnfoldShape
  <2>2. Parent[task[r]] = t /\ kind[r] \in Terminal
    BY <1>1, <1>8, <2>1 DEF UnfoldSave, TypeOK
  <2>3. events[t][kind[r]] > 0
    BY <1>1, <1>8, <2>2 DEF UnfoldSave, EmittedFirst
  <2>4. QED
    BY <1>3, <2>2, <2>3
<1>9. ASSUME NEW u \in Tasks, SweepClaim(r, u), ~done[t]
      PROVE  Claims(r, t)'
  <2>1. u = t /\ SweepKind(r, u) = "CRITICAL"
    BY <1>1, <1>9 DEF SweepClaim, TypeOK
  <2>2. /\ task'[r] = t /\ kind'[r] = "CRITICAL" /\ pc'[r] = "claimed"
        /\ op' = op /\ op[r] = "sweep"
    BY <1>1, <1>9, <2>1 DEF SweepClaim, Goto, TypeOK, Shapes, Shape, SweepShape
  <2>3. QED
    BY <2>2
<1>10. ASSUME ~done[t], ~SaveReport(r), ~UnfoldSave(r), \A u \in Tasks : ~SweepClaim(r, u)
       PROVE  FALSE
  <2>1. done' = done
    BY <1>1, <1>10
       DEF Step, Continue, BeginReport, BeginConfirm, TakeNote, BeginSilent, BeginControl,
           BeginSweep, EmitReport, UnfoldEvent, SweepEmit, SweepPush, EndSweep, SweepSkip,
           Instruct, Crash, rows
  <2>2. QED
    BY <1>10, <2>1
<1>11. QED
  BY <1>6, <1>7, <1>8, <1>9, <1>10

\* Only an agent's report writes an end other than CRITICAL on a task agents run, and
\* it goes on to the wrapper (_unfold_to_higher_order).
LEMMA WrapperStep ==
    ASSUME NEW r \in Runs, Moves(r)
    PROVE  ReportReachesWrapper'
<1> USE TasksAssumption, KindFacts
<1>1. /\ TypeOK /\ TypeOK' /\ Shapes /\ Shapes' /\ Grow /\ Others(r) /\ Step(r)
      /\ ReportReachesWrapper
  BY DEF Moves, TaskInv
<1> DEFINE Carries(q, t) == /\ op[q] = "report" /\ task[q] = t
                            /\ pc[q] \in {"emitted", "unfold", "unfolded", "dead"}
<1> SUFFICES ASSUME NEW t \in Executed, Unfolds(t), Reported(t)'
             PROVE  done'[Parent[t]] \/ \E q \in Runs : Carries(q, t)'
  BY DEF ReportReachesWrapper, Executed, Unfolds
<1>2. t \in Tasks /\ t \notin Wrappers /\ Parent[t] \in Wrappers /\ Parent[t] \in Tasks
  BY DEF Executed, Unfolds
<1>3. CASE done[Parent[t]]
  BY <1>1, <1>2, <1>3 DEF Grow
<1>4. ASSUME NEW q \in Runs, Carries(q, t)
      PROVE  done'[Parent[t]] \/ \E p \in Runs : Carries(p, t)'
  <2>1. CASE q # r
    BY <1>1, <1>4, <2>1 DEF Others
  <2>2. CASE q = r /\ SaveReport(r)
    <3>1. op' = op /\ task' = task /\ pc'[r] = "unfold"
      BY <1>1, <1>4, <2>2 DEF SaveReport, Goto, TypeOK, Unfolds
    <3>2. QED
      BY <1>4, <2>2, <3>1
  <2>3. CASE q = r /\ UnfoldEvent(r)
    <3>1. op' = op /\ task' = task /\ pc'[r] = "unfolded"
      BY <1>1, <2>3 DEF UnfoldEvent, Goto, TypeOK
    <3>2. QED
      BY <1>4, <2>3, <3>1
  <2>4. CASE q = r /\ UnfoldSave(r)
    <3>1. kind[r] \in Terminal
      BY <1>1, <1>4, <2>4 DEF UnfoldSave, Shapes, Shape, UnfoldShape
    <3>2. QED
      BY <1>1, <1>2, <1>4, <2>4, <3>1 DEF UnfoldSave, TypeOK
  <2>5. CASE q = r /\ Crash(r)
    <3>1. op' = op /\ task' = task /\ pc'[r] = "dead"
      BY <1>1, <2>5 DEF Crash, Goto, TypeOK
    <3>2. QED
      BY <1>4, <2>5, <3>1
  <2>6. ASSUME q = r, ~SaveReport(r), ~UnfoldEvent(r), ~UnfoldSave(r), ~Crash(r)
        PROVE  FALSE
    BY <1>1, <1>4, <2>6
       DEF Step, Continue, BeginReport, BeginConfirm, TakeNote, BeginSilent, BeginControl,
           BeginSweep, EmitReport, SweepEmit, SweepPush, EndSweep, SweepSkip, SweepClaim,
           Instruct, Begin
  <2>7. QED
    BY <2>1, <2>2, <2>3, <2>4, <2>5, <2>6
<1>5. CASE Reported(t)
  BY <1>1, <1>3, <1>4, <1>5 DEF ReportReachesWrapper
<1>6. ASSUME NEW u \in Tasks, NEW k \in Kinds, Emit(u, k), ~Reported(t)
      PROVE  u = t /\ k \in Terminal \ {"CRITICAL"}
  <2>1. PICK j \in Terminal \ {"CRITICAL"} : events'[t][j] > 0
    BY DEF Reported
  <2>2. ~(events[t][j] > 0) /\ j \in Kinds
    BY <1>6, <2>1 DEF Reported
  <2>3. events'[t][j] # events[t][j]
    BY <2>1, <2>2
  <2>4. events' = [events EXCEPT ![u] = [events[u] EXCEPT ![k] = events[u][k] + 1]]
    BY <1>6 DEF Emit
  <2>5. u = t
    BY <1>1, <1>2, <2>3, <2>4 DEF TypeOK
  <2>6. k = j
    BY <1>1, <1>2, <2>2, <2>3, <2>4, <2>5 DEF TypeOK
  <2>7. QED
    BY <2>1, <2>5, <2>6
<1>7. CASE EmitReport(r) /\ ~Reported(t)
  <2>1. /\ task[r] \in Tasks /\ kind[r] \in Kinds /\ Emit(task[r], kind[r])
        /\ op' = op /\ task' = task /\ pc'[r] = "emitted"
    BY <1>1, <1>7 DEF EmitReport, Goto, TypeOK, Shapes, Shape, ReportShape
  <2>2. task[r] = t /\ kind[r] \in Terminal \ {"CRITICAL"}
    BY <1>6, <1>7, <2>1
  <2>3. op[r] = "report"
    BY <1>1, <1>7, <2>2 DEF EmitReport, Shapes, Shape, ReportShape
  <2>4. QED
    BY <2>1, <2>2, <2>3
<1>8. CASE UnfoldEvent(r) /\ ~Reported(t)
  <2>1. /\ Parent[task[r]] \in Wrappers /\ kind[r] \in Kinds
        /\ Emit(Parent[task[r]], kind[r])
    BY <1>1, <1>8 DEF UnfoldEvent, Shapes, Shape, UnfoldShape
  <2>2. QED
    BY <1>2, <1>6, <1>8, <2>1
<1>9. CASE SweepEmit(r) /\ ~Reported(t)
  <2>1. /\ task[r] \in Tasks /\ kind[r] \in {"CRITICAL", "QUEUED", "DISCONNECTED"}
        /\ Emit(task[r], kind[r])
    BY <1>1, <1>9 DEF SweepEmit, Shapes, Shape, SweepShape
  <2>2. QED
    BY <1>6, <1>9, <2>1
<1>10. ASSUME NEW u \in Tasks, Instruct(r, u), ~Reported(t)
       PROVE  FALSE
  <2>1. RequestKind(kind[r]) \in Requested /\ Emit(u, RequestKind(kind[r]))
    BY <1>1, <1>10 DEF Instruct, Shapes, Shape, ControlShape
  <2>2. QED
    BY <1>6, <1>10, <2>1
<1>11. ASSUME NEW u \in Executed, NEW k \in Note, TakeNote(r, u, k), ~Reported(t)
       PROVE  FALSE
  BY <1>6, <1>11 DEF TakeNote, Executed
<1>12. ASSUME events' = events, ~Reported(t)
       PROVE  FALSE
  BY <1>12 DEF Reported
<1>13. QED
  BY <1>1, <1>5, <1>7, <1>8, <1>9, <1>10, <1>11, <1>12
     DEF Step, Continue, BeginReport, BeginConfirm, BeginSilent, BeginControl, BeginSweep,
         SaveReport, UnfoldSave, SweepPush, EndSweep, SweepSkip, SweepClaim, Crash, rows

-----------------------------------------------------------------------------
\* The invariant holds of tasks as assign leaves them.
LEMMA InitialTasks == Init => TaskInv
<1> SUFFICES ASSUME Init PROVE TaskInv
  OBVIOUS
<1> USE TasksAssumption, KindsAssumption, KindFacts
<1>1. TypeOK
  BY DEF Init, TypeOK, Ops, Steps, Instructs
<1>2. Shapes
  BY DEF Init, Shapes, Shape, ReportShape, UnfoldShape, SweepShape, ControlShape
<1>3. AckedIsDone /\ EmittedFirst /\ DoneHasTerminalEvent
  BY DEF Init, AckedIsDone, EmittedFirst, DoneHasTerminalEvent
<1>4. ReportReachesWrapper
  BY DEF Init, ReportReachesWrapper, Reported, Executed
<1>5. QED
  BY <1>1, <1>2, <1>3, <1>4 DEF TaskInv

\* A stuttering step changes nothing the invariant looks at.
LEMMA TaskStutter ==
    ASSUME TaskInv, UNCHANGED vars
    PROVE  TaskInv'
BY DEF TaskInv, TypeOK, Shapes, Shape, ReportShape, UnfoldShape, SweepShape, ControlShape,
       AckedIsDone, EmittedFirst, DoneHasTerminalEvent, HasTerminalEvent, ReportReachesWrapper,
       Reported, vars, rows, frame

\* The inductive invariant holds in every state, whatever handlers interleave or
\* die (persist_backend.py).
THEOREM TaskInvariant == Spec => []TaskInv
<1>1. Init => TaskInv
  BY InitialTasks
<1>2. TaskInv /\ [Next]_vars => TaskInv'
  <2> SUFFICES ASSUME TaskInv, [Next]_vars PROVE TaskInv'
    OBVIOUS
  <2>1. ASSUME NEW r \in Runs, Step(r)
        PROVE  TaskInv'
    <3>1. Moves(r)
      BY <2>1, MovesFromStep
    <3>2. TypeOK' /\ Shapes'
      BY <3>1 DEF Moves
    <3>3. AckedIsDone' /\ EmittedFirst' /\ DoneHasTerminalEvent' /\ ReportReachesWrapper'
      BY <3>1, AckedStep, EmittedStep, DoneStep, WrapperStep
    <3>4. QED
      BY <3>2, <3>3 DEF TaskInv
  <2>2. QED
    BY <2>1, TaskStutter DEF Next
<1>3. QED
  BY <1>1, <1>2, PTL DEF Spec

\* The rows and the handlers keep their types (models/task.py).
THEOREM TaskTypes == Spec => []TypeOK
<1>1. TaskInv => TypeOK
  BY DEF TaskInv
<1>2. QED
  BY <1>1, TaskInvariant, PTL

\* An acked terminal report leaves its task done (on_agent_done and its siblings,
\* message_router._ack), for any number of tasks, handlers, sweeps and crashes.
THEOREM AckedReportsStick == Spec => []AckedIsDone
<1>1. TaskInv => AckedIsDone
  BY DEF TaskInv
<1>2. QED
  BY <1>1, TaskInvariant, PTL

\* A done task has a terminal event, or a sweep stands or died between its claim
\* and its event (_fail_and_cascade_inflight).
THEOREM DoneIsAnnounced == Spec => []DoneHasTerminalEvent
<1>1. TaskInv => DoneHasTerminalEvent
  BY DEF TaskInv
<1>2. QED
  BY <1>1, TaskInvariant, PTL

\* The end of a child that an agent reported reaches the wrapper its caller watches,
\* unless the report dies on the way (_unfold_to_higher_order).
THEOREM WrapperFollows == Spec => []ReportReachesWrapper
<1>1. TaskInv => ReportReachesWrapper
  BY DEF TaskInv
<1>2. QED
  BY <1>1, TaskInvariant, PTL

\* No handler, however late, reopens a finished task (asave with update_fields).
THEOREM DoneStays == Spec => DoneIsFinal
<1>1. TaskInv /\ [Next]_vars => [\A t \in Tasks : done[t] => done'[t]]_vars
  <2> SUFFICES ASSUME TaskInv, Next PROVE \A t \in Tasks : done[t] => done'[t]
    OBVIOUS
  <2>1. PICK r \in Runs : Step(r)
    BY DEF Next
  <2>2. Grow
    BY <2>1, RowsGrow DEF TaskInv
  <2>3. QED
    BY <2>2 DEF Grow
<1>2. QED
  BY <1>1, TaskInvariant, PTL DEF Spec, DoneIsFinal
-----------------------------------------------------------------------------
(* Concurrent sweeps.                                                       *)

\* Only sweeps have run, and none of them died.
SweepsOnly == \A r \in Runs : op[r] \in {"none", "sweep"} /\ pc[r] # "dead"

\* The sweeps that hold a claim of task t for an event of kind k, and those that are
\* about to push its Assign again.
Claimers(t, k) ==
    {r \in Runs : op[r] = "sweep" /\ pc[r] = "claimed" /\ task[r] = t /\ kind[r] = k}
Pushers(t) == {r \in Runs : pc[r] = "push" /\ task[r] = t}

\* Every sweep so far loaded task t before its requeue.
Unqueued(t) == \A r \in Runs : op[r] = "sweep" => seen[r][t] # "QUEUED"

\* While only sweeps run, the row tells which claims were won: a CRITICAL one is_done,
\* and a QUEUED one latest_event_kind, which a DISCONNECTED one has to take back first:
\* one of a sweep that loaded the task QUEUED, since only idempotent tasks are requeued.
ClaimsCount ==
    SweepsOnly => \A t \in Tasks :
        /\ \A k \in Kinds : IsFiniteSet(Claimers(t, k))
        /\ IsFiniteSet(Pushers(t))
        /\ Claimed(t, "CRITICAL") <= IF done[t] THEN 1 ELSE 0
        /\ Claimed(t, "QUEUED") <= Claimed(t, "DISCONNECTED") + IF latest[t] = "QUEUED" THEN 1 ELSE 0
        /\ policy[t] = "physical" => latest[t] # "QUEUED"
        /\ policy[t] # "idempotent" => Claimed(t, "QUEUED") = 0
        /\ policy[t] = "idempotent" /\ Unqueued(t) => Claimed(t, "DISCONNECTED") = 0
        /\ assigns[t] + Cardinality(Pushers(t)) <= events[t]["QUEUED"]

\* A run that has not begun executes nothing.
IdleRuns == \A r \in Runs : pc[r] = "idle" => op[r] = "none"

SweepsInv == TaskInv /\ IdleRuns /\ ClaimsCount

\* While only sweeps run, a step is a step of a sweep.
LEMMA SweepsAlone ==
    ASSUME NEW r \in Runs, Moves(r), IdleRuns, SweepsOnly'
    PROVE  /\ SweepsOnly
           /\ \/ BeginSweep(r) \/ SweepEmit(r) \/ SweepPush(r) \/ EndSweep(r)
              \/ \E t \in Tasks : SweepSkip(r, t) \/ SweepClaim(r, t)
<1>1. TypeOK /\ TypeOK' /\ Shapes /\ Others(r) /\ Step(r)
  BY DEF Moves, TaskInv
<1>2. op'[r] \in {"none", "sweep"} /\ pc'[r] # "dead"
  BY DEF SweepsOnly
<1>3. ASSUME \/ \E t \in Executed :
                   \/ \E k \in Terminal : BeginReport(r, t, k)
                   \/ \E k \in Confirmation : BeginConfirm(r, t, k)
                   \/ \E k \in Note : TakeNote(r, t, k)
                   \/ BeginSilent(r, t)
             \/ \E t \in Tasks, i \in Instructs : BeginControl(r, t, i)
      PROVE  FALSE
  BY <1>1, <1>2, <1>3 DEF BeginReport, BeginConfirm, TakeNote, BeginSilent, BeginControl, Begin, TypeOK
<1>4. ASSUME \/ EmitReport(r) \/ SaveReport(r) \/ UnfoldEvent(r) \/ UnfoldSave(r)
             \/ \E t \in Tasks : Instruct(r, t)
      PROVE  FALSE
  <2>1. op' = op
    BY <1>4 DEF EmitReport, SaveReport, UnfoldEvent, UnfoldSave, Instruct
  <2>2. op[r] \notin {"none", "sweep"}
    BY <1>1, <1>4 DEF EmitReport, SaveReport, UnfoldEvent, UnfoldSave, Instruct,
                      Shapes, Shape, ReportShape, UnfoldShape, ControlShape
  <2>3. QED
    BY <2>1, <2>2, <1>2
<1>5. ~Crash(r)
  BY <1>1, <1>2 DEF Crash, Goto, TypeOK
<1>6. \/ BeginSweep(r) \/ SweepEmit(r) \/ SweepPush(r) \/ EndSweep(r)
      \/ \E t \in Tasks : SweepSkip(r, t) \/ SweepClaim(r, t)
  BY <1>1, <1>3, <1>4, <1>5 DEF Step, Continue
<1>7. SweepsOnly
  <2>1. \A q \in Runs \ {r} : op[q] \in {"none", "sweep"} /\ pc[q] # "dead"
    BY <1>1 DEF Others, SweepsOnly
  <2>2. op[r] \in {"none", "sweep"} /\ pc[r] # "dead"
    <3>1. CASE BeginSweep(r)
      BY <3>1 DEF BeginSweep, IdleRuns
    <3>2. CASE ~BeginSweep(r)
      BY <1>1, <1>6, <3>2 DEF SweepEmit, SweepPush, EndSweep, SweepSkip, SweepClaim,
                              Shapes, Shape, SweepShape
    <3>3. QED
      BY <3>1, <3>2
  <2>3. QED
    BY <2>1, <2>2 DEF SweepsOnly
<1>8. QED
  BY <1>6, <1>7

\* Runs begin once.
LEMMA IdleStep ==
    ASSUME NEW r \in Runs, Moves(r), IdleRuns
    PROVE  IdleRuns'
<1>1. TypeOK /\ TypeOK' /\ Others(r) /\ Step(r)
  BY DEF Moves, TaskInv
<1>2. pc'[r] # "idle"
  BY <1>1 DEF Step, Continue, BeginReport, BeginConfirm, TakeNote, BeginSilent, BeginControl,
       BeginSweep, EmitReport, SaveReport, UnfoldEvent, UnfoldSave, SweepEmit, SweepPush,
       EndSweep, SweepSkip, SweepClaim, Instruct, Crash, Begin, Goto, TypeOK
<1>3. QED
  BY <1>1, <1>2 DEF IdleRuns, Others

\* A sweep that enters or leaves no claim and no push.
LEMMA CountsStay ==
    ASSUME TypeOK, NEW r \in Runs, Others(r), ClaimsCount, SweepsOnly,
           pc[r] \notin {"claimed", "push"}, pc'[r] \notin {"claimed", "push"},
           UNCHANGED <<policy, rows>>, \A t \in Tasks : Unqueued(t)' => Unqueued(t)
    PROVE  ClaimsCount'
<1>1. \A t \in Tasks, k \in Kinds : Claimers(t, k)' = Claimers(t, k)
  BY DEF Others, Claimers
<1>2. \A t \in Tasks : Pushers(t)' = Pushers(t)
  BY DEF Others, Pushers
<1>3. \A t \in Tasks, k \in Kinds : Claimed(t, k)' = Claimed(t, k)
  BY <1>1 DEF Claimed, Claimers, rows
<1>4. {"CRITICAL", "QUEUED", "DISCONNECTED"} \subseteq Kinds
  BY KindFacts
<1>5. QED
  BY <1>1, <1>2, <1>3, <1>4 DEF ClaimsCount, rows

\* What a claim that is won does to the counts (_claim_task_transition_sync).
LEMMA ClaimCounts ==
    ASSUME NEW r \in Runs, Moves(r), ClaimsCount, SweepsOnly, NEW u \in Tasks, SweepClaim(r, u)
    PROVE  ClaimsCount'
<1> DEFINE K == SweepKind(r, u)
<1>1. TypeOK /\ Shapes /\ Others(r)
  BY DEF Moves, TaskInv
<1>2. /\ pc[r] = "sweeping" /\ op[r] = "sweep"
      /\ pc'[r] = "claimed" /\ task'[r] = u /\ kind'[r] = K
      /\ UNCHANGED <<policy, events, assigns, op, seen>>
      /\ ~done[u] /\ (K # "CRITICAL" => latest[u] # K)
      /\ latest' = [latest EXCEPT ![u] = K]
      /\ done' = [done EXCEPT ![u] = done[u] \/ K = "CRITICAL"]
  BY <1>1 DEF SweepClaim, SweepLoses, Goto, TypeOK, Shapes, Shape, SweepShape
<1>3. /\ K \in {"CRITICAL", "QUEUED", "DISCONNECTED"}
      /\ policy[u] = "physical" <=> K = "CRITICAL"
      /\ K = "QUEUED" => policy[u] = "idempotent"
      /\ K = "DISCONNECTED" => policy[u] # "idempotent" \/ seen[r][u] = "QUEUED"
  BY DEF SweepKind
<1> HIDE DEF K
<1>4. /\ \A t \in Tasks : latest'[t] = IF t = u THEN K ELSE latest[t]
      /\ \A t \in Tasks \ {u} : done'[t] = done[t]
      /\ K = "CRITICAL" => done'[u]
  BY <1>1, <1>2 DEF TypeOK
<1>5. ASSUME NEW t \in Tasks, NEW k \in Kinds
      PROVE  /\ IsFiniteSet(Claimers(t, k)) /\ IsFiniteSet(Claimers(t, k)')
             /\ Claimed(t, k) \in Nat
             /\ Claimed(t, k)' = Claimed(t, k) + IF t = u /\ k = K THEN 1 ELSE 0
  <2>1. IsFiniteSet(Claimers(t, k))
    BY DEF ClaimsCount
  <2>2. Cardinality(Claimers(t, k)) \in Nat
    BY <2>1, FS_CardinalityType
  <2>3. events[t][k] \in Nat
    BY <1>1 DEF TypeOK
  <2>4. /\ Claimed(t, k) = events[t][k] + Cardinality(Claimers(t, k))
        /\ Claimed(t, k)' = events[t][k] + Cardinality(Claimers(t, k)')
    BY <1>2 DEF Claimed, Claimers
  <2>5. CASE t = u /\ k = K
    <3>1. Claimers(t, k)' = Claimers(t, k) \cup {r}
      BY <1>1, <1>2, <2>5 DEF Claimers, Others
    <3>2. r \notin Claimers(t, k)
      BY <1>2 DEF Claimers
    <3>3. /\ IsFiniteSet(Claimers(t, k) \cup {r})
          /\ Cardinality(Claimers(t, k) \cup {r}) = Cardinality(Claimers(t, k)) + 1
      BY <2>1, <3>2, FS_AddElement
    <3>4. QED
      BY <2>1, <2>2, <2>3, <2>4, <2>5, <3>1, <3>3
  <2>6. CASE ~(t = u /\ k = K)
    <3>1. Claimers(t, k)' = Claimers(t, k)
      BY <1>1, <1>2, <2>6 DEF Claimers, Others
    <3>2. QED
      BY <2>1, <2>2, <2>3, <2>4, <2>6, <3>1
  <2>7. QED
    BY <2>5, <2>6
<1>6. \A t \in Tasks : Pushers(t)' = Pushers(t)
  BY <1>1, <1>2 DEF Pushers, Others
<1>7. {"CRITICAL", "QUEUED", "DISCONNECTED"} \subseteq Kinds
  BY KindFacts
<1>8. ASSUME NEW t \in Tasks
      PROVE  /\ Claimed(t, "CRITICAL")' <= IF done'[t] THEN 1 ELSE 0
             /\ Claimed(t, "QUEUED")' <= Claimed(t, "DISCONNECTED")' + IF latest'[t] = "QUEUED" THEN 1 ELSE 0
             /\ policy'[t] = "physical" => latest'[t] # "QUEUED"
             /\ policy'[t] # "idempotent" => Claimed(t, "QUEUED")' = 0
             /\ policy'[t] = "idempotent" /\ Unqueued(t)' => Claimed(t, "DISCONNECTED")' = 0
  <2>1. /\ Claimed(t, "CRITICAL") \in Nat /\ Claimed(t, "QUEUED") \in Nat
        /\ Claimed(t, "DISCONNECTED") \in Nat
        /\ Claimed(t, "CRITICAL")' = Claimed(t, "CRITICAL") + IF t = u /\ "CRITICAL" = K THEN 1 ELSE 0
        /\ Claimed(t, "QUEUED")' = Claimed(t, "QUEUED") + IF t = u /\ "QUEUED" = K THEN 1 ELSE 0
        /\ Claimed(t, "DISCONNECTED")' = Claimed(t, "DISCONNECTED") + IF t = u /\ "DISCONNECTED" = K THEN 1 ELSE 0
    BY <1>5, <1>7
  <2>2. /\ Claimed(t, "CRITICAL") <= IF done[t] THEN 1 ELSE 0
        /\ Claimed(t, "QUEUED") <= Claimed(t, "DISCONNECTED") + IF latest[t] = "QUEUED" THEN 1 ELSE 0
        /\ policy[t] = "physical" => latest[t] # "QUEUED"
        /\ policy[t] # "idempotent" => Claimed(t, "QUEUED") = 0
        /\ policy[t] = "idempotent" /\ Unqueued(t) => Claimed(t, "DISCONNECTED") = 0
    BY DEF ClaimsCount
  <2>. Unqueued(t)' <=> Unqueued(t)
    BY <1>2 DEF Unqueued
  <2>3. CASE t # u
    BY <2>1, <2>2, <2>3, <1>2, <1>4
  <2>4. CASE t = u
    <3>1. Claimed(t, "CRITICAL") = 0
      BY <2>1, <2>2, <2>4, <1>2
    <3>2. CASE K = "CRITICAL"
      BY <2>1, <2>2, <2>4, <3>1, <3>2, <1>2, <1>3, <1>4
    <3>3. CASE K = "QUEUED"
      BY <2>1, <2>2, <2>4, <3>1, <3>3, <1>2, <1>3, <1>4
    <3>4. CASE K = "DISCONNECTED"
      <4>1. policy[t] # "idempotent" \/ ~Unqueued(t)
        BY <2>4, <3>4, <1>2, <1>3 DEF Unqueued
      <4>2. QED
        BY <2>1, <2>2, <2>4, <3>1, <3>4, <4>1, <1>2, <1>3, <1>4
    <3>5. QED
      BY <3>2, <3>3, <3>4, <1>3
  <2>5. QED
    BY <2>3, <2>4
<1>9. \A t \in Tasks : /\ IsFiniteSet(Pushers(t)')
                       /\ assigns'[t] + Cardinality(Pushers(t)') <= events'[t]["QUEUED"]
  BY <1>2, <1>6 DEF ClaimsCount
<1>10. QED
  BY <1>5, <1>8, <1>9 DEF ClaimsCount

\* The event of a claim takes the place of the claim.
LEMMA EmitCounts ==
    ASSUME NEW r \in Runs, Moves(r), ClaimsCount, SweepsOnly, SweepEmit(r)
    PROVE  ClaimsCount'
<1>1. TypeOK /\ Shapes /\ Others(r)
  BY DEF Moves, TaskInv
<1>2. PICK u \in Tasks : u = task[r]
  BY <1>1 DEF SweepEmit, Shapes, Shape, SweepShape
<1>3. PICK K \in {"CRITICAL", "QUEUED", "DISCONNECTED"} : K = kind[r]
  BY <1>1 DEF SweepEmit, Shapes, Shape, SweepShape
<1>4. /\ pc[r] = "claimed" /\ op[r] = "sweep"
      /\ pc'[r] = IF K = "QUEUED" THEN "push" ELSE "sweeping"
      /\ UNCHANGED <<policy, done, latest, assigns, op, task, kind, seen>>
      /\ events' = [events EXCEPT ![u] = [events[u] EXCEPT ![K] = events[u][K] + 1]]
  BY <1>1, <1>2, <1>3 DEF SweepEmit, Emit, Goto, TypeOK, Shapes, Shape, SweepShape
<1>5. {"CRITICAL", "QUEUED", "DISCONNECTED"} \subseteq Kinds
  BY KindFacts
<1>6. \A t \in Tasks, k \in Kinds :
          /\ events[t][k] \in Nat
          /\ events'[t][k] = IF t = u /\ k = K THEN events[t][k] + 1 ELSE events[t][k]
  BY <1>1, <1>4, <1>5 DEF TypeOK
<1>7. ASSUME NEW t \in Tasks, NEW k \in Kinds
      PROVE  IsFiniteSet(Claimers(t, k)') /\ Claimed(t, k)' = Claimed(t, k)
  <2>1. IsFiniteSet(Claimers(t, k))
    BY DEF ClaimsCount
  <2>2. Cardinality(Claimers(t, k)) \in Nat
    BY <2>1, FS_CardinalityType
  <2>3. /\ Claimed(t, k) = events[t][k] + Cardinality(Claimers(t, k))
        /\ Claimed(t, k)' = events'[t][k] + Cardinality(Claimers(t, k)')
    BY DEF Claimed, Claimers
  <2>4. CASE t = u /\ k = K
    <3>1. Claimers(t, k)' = Claimers(t, k) \ {r}
      BY <1>1, <1>4, <2>4 DEF Claimers, Others
    <3>2. r \in Claimers(t, k)
      BY <1>2, <1>3, <1>4, <2>4 DEF Claimers
    <3>3. /\ IsFiniteSet(Claimers(t, k) \ {r})
          /\ Cardinality(Claimers(t, k) \ {r}) = Cardinality(Claimers(t, k)) - 1
      BY <2>1, <3>2, FS_RemoveElement
    <3>4. QED
      BY <1>6, <2>2, <2>3, <2>4, <3>1, <3>3
  <2>5. CASE ~(t = u /\ k = K)
    <3>1. Claimers(t, k)' = Claimers(t, k)
      BY <1>1, <1>2, <1>3, <1>4, <2>5 DEF Claimers, Others
    <3>2. QED
      BY <1>6, <2>1, <2>3, <2>5, <3>1
  <2>6. QED
    BY <2>4, <2>5
<1>8. ASSUME NEW t \in Tasks
      PROVE  /\ IsFiniteSet(Pushers(t)')
             /\ assigns'[t] + Cardinality(Pushers(t)') <= events'[t]["QUEUED"]
  <2>1. /\ IsFiniteSet(Pushers(t)) /\ assigns[t] \in Nat
        /\ assigns[t] + Cardinality(Pushers(t)) <= events[t]["QUEUED"]
    BY <1>1 DEF ClaimsCount, TypeOK
  <2>2. Cardinality(Pushers(t)) \in Nat
    BY <2>1, FS_CardinalityType
  <2>3. CASE t = u /\ K = "QUEUED"
    <3>1. Pushers(t)' = Pushers(t) \cup {r} /\ r \notin Pushers(t)
      BY <1>1, <1>2, <1>4, <2>3 DEF Pushers, Others
    <3>2. /\ IsFiniteSet(Pushers(t) \cup {r})
          /\ Cardinality(Pushers(t) \cup {r}) = Cardinality(Pushers(t)) + 1
      BY <2>1, <3>1, FS_AddElement
    <3>3. events'[t]["QUEUED"] = events[t]["QUEUED"] + 1 /\ events[t]["QUEUED"] \in Nat
      BY <1>5, <1>6, <2>3
    <3>4. QED
      BY <1>4, <2>1, <2>2, <3>1, <3>2, <3>3
  <2>4. CASE ~(t = u /\ K = "QUEUED")
    <3>1. Pushers(t)' = Pushers(t)
      BY <1>1, <1>2, <1>4, <2>4 DEF Pushers, Others
    <3>2. events'[t]["QUEUED"] = events[t]["QUEUED"]
      BY <1>5, <1>6, <2>4
    <3>3. QED
      BY <1>4, <2>1, <3>1, <3>2
  <2>5. QED
    BY <2>3, <2>4
<1>9. \A t \in Tasks : Unqueued(t)' <=> Unqueued(t)
  BY <1>4 DEF Unqueued
<1>10. QED
  BY <1>4, <1>5, <1>7, <1>8, <1>9 DEF ClaimsCount

\* One push for one QUEUED event.
LEMMA PushCounts ==
    ASSUME NEW r \in Runs, Moves(r), ClaimsCount, SweepsOnly, SweepPush(r)
    PROVE  ClaimsCount'
<1>1. TypeOK /\ Shapes /\ Others(r)
  BY DEF Moves, TaskInv
<1>2. PICK u \in Tasks : u = task[r]
  BY <1>1 DEF SweepPush, Shapes, Shape, SweepShape
<1>3. /\ pc[r] = "push" /\ pc'[r] = "sweeping"
      /\ UNCHANGED <<policy, done, latest, events, op, task, kind, seen>>
      /\ assigns' = [assigns EXCEPT ![u] = assigns[u] + 1]
  BY <1>1, <1>2 DEF SweepPush, Goto, TypeOK
<1>4. \A t \in Tasks, k \in Kinds : Claimers(t, k)' = Claimers(t, k)
  BY <1>1, <1>3 DEF Claimers, Others
<1>5. \A t \in Tasks, k \in Kinds : Claimed(t, k)' = Claimed(t, k)
  <2>1. /\ \A t \in Tasks, k \in Kinds : Claimed(t, k) = events[t][k] + Cardinality(Claimers(t, k))
        /\ \A t \in Tasks, k \in Kinds : Claimed(t, k)' = events[t][k] + Cardinality(Claimers(t, k)')
    BY <1>3 DEF Claimed, Claimers
  <2>2. QED
    BY <2>1, <1>4
<1>6. ASSUME NEW t \in Tasks
      PROVE  /\ IsFiniteSet(Pushers(t)')
             /\ assigns'[t] + Cardinality(Pushers(t)') <= events'[t]["QUEUED"]
  <2>1. /\ IsFiniteSet(Pushers(t)) /\ assigns[t] \in Nat /\ events[t]["QUEUED"] \in Nat
        /\ assigns[t] + Cardinality(Pushers(t)) <= events[t]["QUEUED"]
    BY <1>1, KindFacts DEF ClaimsCount, TypeOK
  <2>2. Cardinality(Pushers(t)) \in Nat
    BY <2>1, FS_CardinalityType
  <2>3. CASE t = u
    <3>1. Pushers(t)' = Pushers(t) \ {r} /\ r \in Pushers(t)
      BY <1>1, <1>2, <1>3, <2>3 DEF Pushers, Others
    <3>2. /\ IsFiniteSet(Pushers(t) \ {r})
          /\ Cardinality(Pushers(t) \ {r}) = Cardinality(Pushers(t)) - 1
      BY <2>1, <3>1, FS_RemoveElement
    <3>3. assigns'[t] = assigns[t] + 1
      BY <1>1, <1>3, <2>3 DEF TypeOK
    <3>4. QED
      BY <1>3, <2>1, <2>2, <3>1, <3>2, <3>3
  <2>4. CASE t # u
    <3>1. Pushers(t)' = Pushers(t) /\ assigns'[t] = assigns[t]
      BY <1>1, <1>2, <1>3, <2>4 DEF Pushers, Others, TypeOK
    <3>2. QED
      BY <1>3, <2>1, <3>1
  <2>5. QED
    BY <2>3, <2>4
<1>7. {"CRITICAL", "QUEUED", "DISCONNECTED"} \subseteq Kinds
  BY KindFacts
<1>8. \A t \in Tasks : Unqueued(t)' <=> Unqueued(t)
  BY <1>3 DEF Unqueued
<1>9. QED
  BY <1>3, <1>4, <1>5, <1>6, <1>7, <1>8 DEF ClaimsCount

\* Every step keeps the counts.
LEMMA SweepsStep ==
    ASSUME NEW r \in Runs, Moves(r), IdleRuns, ClaimsCount
    PROVE  ClaimsCount'
<1>1. CASE ~SweepsOnly'
  BY <1>1 DEF ClaimsCount
<1>2. CASE SweepsOnly'
  <2>1. /\ SweepsOnly
        /\ \/ BeginSweep(r) \/ SweepEmit(r) \/ SweepPush(r) \/ EndSweep(r)
           \/ \E t \in Tasks : SweepSkip(r, t) \/ SweepClaim(r, t)
    BY <1>2, SweepsAlone
  <2>2. TypeOK /\ Others(r)
    BY DEF Moves, TaskInv
  <2>3. CASE BeginSweep(r) \/ EndSweep(r) \/ \E t \in Tasks : SweepSkip(r, t)
    <3>1. /\ pc[r] \notin {"claimed", "push"} /\ pc'[r] \notin {"claimed", "push"}
          /\ UNCHANGED <<policy, rows>>
      BY <2>2, <2>3 DEF BeginSweep, EndSweep, SweepSkip, Goto, TypeOK
    <3>2. ASSUME NEW t \in Tasks, Unqueued(t)', NEW q \in Runs, op[q] = "sweep"
          PROVE  seen[q][t] # "QUEUED"
      <4>1. op[q] = op'[q] /\ seen[q] = seen'[q]
        <5>1. CASE BeginSweep(r)
          <6>1. op[r] = "none"
            BY <5>1 DEF BeginSweep, IdleRuns
          <6>2. q # r
            BY <3>2, <6>1
          <6>3. QED
            BY <5>1, <6>2, <2>2 DEF BeginSweep, TypeOK
        <5>2. CASE EndSweep(r) \/ \E u \in Tasks : SweepSkip(r, u)
          BY <5>2 DEF EndSweep, SweepSkip
        <5>3. QED
          BY <2>3, <5>1, <5>2
      <4>2. QED
        BY <3>2, <4>1 DEF Unqueued
    <3>3. QED
      BY <2>1, <2>2, <3>1, <3>2, CountsStay DEF Unqueued
  <2>4. ASSUME NEW t \in Tasks, SweepClaim(r, t)
        PROVE  ClaimsCount'
    BY <2>1, <2>4, ClaimCounts
  <2>5. CASE SweepEmit(r)
    BY <2>1, <2>5, EmitCounts
  <2>6. CASE SweepPush(r)
    BY <2>1, <2>6, PushCounts
  <2>7. QED
    BY <2>1, <2>3, <2>4, <2>5, <2>6
<1>3. QED
  BY <1>1, <1>2

\* Nothing is claimed before the first sweep.
LEMMA InitialCounts == Init => IdleRuns /\ ClaimsCount
<1> SUFFICES ASSUME Init PROVE IdleRuns /\ ClaimsCount
  OBVIOUS
<1>1. IdleRuns
  BY DEF Init, IdleRuns
<1>2. {"CRITICAL", "QUEUED", "DISCONNECTED"} \subseteq Kinds
  BY KindFacts
<1>3. IsFiniteSet({}) /\ Cardinality({}) = 0
  BY FS_EmptySet
<1>4. \A t \in Tasks : Pushers(t) = {} /\ \A k \in Kinds : Claimers(t, k) = {}
  BY DEF Init, Pushers, Claimers
<1>5. \A t \in Tasks, k \in Kinds : events[t][k] = 0
  BY DEF Init
<1>6. ASSUME NEW t \in Tasks, NEW k \in Kinds
      PROVE  Claimed(t, k) = 0
  <2>1. Claimed(t, k) = events[t][k] + Cardinality(Claimers(t, k))
    BY DEF Claimed, Claimers
  <2>2. QED
    BY <1>3, <1>4, <1>5, <2>1
<1>7. ASSUME NEW t \in Tasks
      PROVE  /\ \A k \in Kinds : IsFiniteSet(Claimers(t, k))
             /\ IsFiniteSet(Pushers(t))
             /\ Claimed(t, "CRITICAL") = 0 /\ Claimed(t, "QUEUED") = 0
             /\ Claimed(t, "DISCONNECTED") = 0
             /\ assigns[t] + Cardinality(Pushers(t)) <= events[t]["QUEUED"]
             /\ ~done[t] /\ latest[t] = "STARTED"
  <2>1. \A k \in Kinds : Claimers(t, k) = {}
    BY <1>4
  <2>2. Pushers(t) = {}
    BY <1>4
  <2>3. \A k \in Kinds : IsFiniteSet(Claimers(t, k))
    BY <1>3, <2>1
  <2>4. IsFiniteSet(Pushers(t)) /\ Cardinality(Pushers(t)) = 0
    BY <1>3, <2>2
  <2>5. assigns[t] = 0 /\ ~done[t] /\ latest[t] = "STARTED"
    BY DEF Init
  <2>6. events[t]["QUEUED"] = 0
    BY <1>2, <1>5
  <2>7. Claimed(t, "CRITICAL") = 0 /\ Claimed(t, "QUEUED") = 0 /\ Claimed(t, "DISCONNECTED") = 0
    BY <1>2, <1>6
  <2>8. assigns[t] + Cardinality(Pushers(t)) <= events[t]["QUEUED"]
    BY <2>4, <2>5, <2>6
  <2>9. QED
    BY <2>3, <2>4, <2>5, <2>7, <2>8
<1>8. QED
  BY <1>1, <1>7 DEF ClaimsCount

\* The invariant of the tasks together with the counts of the sweeps is inductive.
THEOREM SweepsInvariant == Spec => []SweepsInv
<1>1. Init => SweepsInv
  BY InitialTasks, InitialCounts DEF SweepsInv
<1>2. SweepsInv /\ [Next]_vars => SweepsInv'
  <2> SUFFICES ASSUME SweepsInv, [Next]_vars PROVE SweepsInv'
    OBVIOUS
  <2>1. ASSUME NEW r \in Runs, Step(r)
        PROVE  SweepsInv'
    <3>1. Moves(r) /\ IdleRuns /\ ClaimsCount
      BY <2>1, MovesFromStep DEF SweepsInv
    <3>2. TypeOK' /\ Shapes'
      BY <3>1 DEF Moves
    <3>3. AckedIsDone' /\ EmittedFirst' /\ DoneHasTerminalEvent' /\ ReportReachesWrapper'
      BY <3>1, AckedStep, EmittedStep, DoneStep, WrapperStep
    <3>4. IdleRuns' /\ ClaimsCount'
      BY <3>1, IdleStep, SweepsStep
    <3>5. QED
      BY <3>2, <3>3, <3>4 DEF TaskInv, SweepsInv
  <2>2. CASE UNCHANGED vars
    <3>1. TaskInv'
      BY <2>2, TaskStutter DEF SweepsInv
    <3>2. /\ \A t \in Tasks, k \in Kinds : Claimers(t, k)' = Claimers(t, k)
          /\ \A t \in Tasks : Pushers(t)' = Pushers(t)
      BY <2>2 DEF vars, frame, Claimers, Pushers
    <3>3. \A t \in Tasks, k \in Kinds : Claimed(t, k)' = Claimed(t, k)
      BY <2>2 DEF vars, rows, frame, Claimed
    <3>4. {"CRITICAL", "QUEUED", "DISCONNECTED"} \subseteq Kinds
      BY KindFacts
    <3>5. ClaimsCount'
      BY <2>2, <3>2, <3>3, <3>4 DEF vars, rows, frame, SweepsInv, ClaimsCount, SweepsOnly, Unqueued
    <3>6. IdleRuns'
      BY <2>2 DEF vars, frame, SweepsInv, IdleRuns
    <3>7. QED
      BY <3>1, <3>5, <3>6 DEF SweepsInv
  <2>3. QED
    BY <2>1, <2>2 DEF Next
<1>3. QED
  BY <1>1, <1>2, PTL DEF Spec

\* However many sweeps find the same executor lost, a task gets one CRITICAL event; if
\* all of them loaded it before its requeue it is requeued once, and otherwise at most
\* once more than it was written off; and there is at most one Assign for each QUEUED
\* (_claim_task_transition_sync, _fail_and_cascade_inflight).
THEOREM OneSweepClaims == Spec => []SweepsClaimOnce
<1>1. SweepsInv => SweepsClaimOnce
  <2> SUFFICES ASSUME SweepsInv, SweepsOnly, NEW t \in Tasks
               PROVE  /\ Claimed(t, "CRITICAL") <= 1
                      /\ Unqueued(t) => Claimed(t, "QUEUED") <= 1
                      /\ Claimed(t, "QUEUED") <= Claimed(t, "DISCONNECTED") + 1
                      /\ assigns[t] <= events[t]["QUEUED"]
    BY DEF SweepsClaimOnce, SweepsOnly, Unqueued
  <2>1. {"CRITICAL", "QUEUED", "DISCONNECTED"} \subseteq Kinds
    BY KindFacts
  <2>2. /\ \A k \in Kinds : IsFiniteSet(Claimers(t, k))
        /\ IsFiniteSet(Pushers(t))
        /\ Claimed(t, "CRITICAL") <= IF done[t] THEN 1 ELSE 0
        /\ Claimed(t, "QUEUED") <= Claimed(t, "DISCONNECTED") + IF latest[t] = "QUEUED" THEN 1 ELSE 0
        /\ policy[t] # "idempotent" => Claimed(t, "QUEUED") = 0
        /\ policy[t] = "idempotent" /\ Unqueued(t) => Claimed(t, "DISCONNECTED") = 0
        /\ assigns[t] + Cardinality(Pushers(t)) <= events[t]["QUEUED"]
    BY DEF SweepsInv, ClaimsCount
  <2>3. /\ assigns[t] \in Nat
        /\ \A k \in Kinds : events[t][k] \in Nat
    BY DEF SweepsInv, TaskInv, TypeOK
  <2>4. ASSUME NEW k \in Kinds
        PROVE  Claimed(t, k) \in Nat
    <3>1. Cardinality(Claimers(t, k)) \in Nat
      BY <2>2, FS_CardinalityType
    <3>2. Claimed(t, k) = events[t][k] + Cardinality(Claimers(t, k))
      BY DEF Claimed, Claimers
    <3>3. QED
      BY <2>3, <3>1, <3>2
  <2>5. Cardinality(Pushers(t)) \in Nat
    BY <2>2, FS_CardinalityType
  <2>6. /\ Claimed(t, "CRITICAL") \in Nat /\ Claimed(t, "QUEUED") \in Nat
        /\ Claimed(t, "DISCONNECTED") \in Nat /\ events[t]["QUEUED"] \in Nat
    BY <2>1, <2>3, <2>4
  <2>7. QED
    BY <2>2, <2>3, <2>5, <2>6
<1>2. QED
  BY <1>1, SweepsInvariant, PTL
=============================================================================
