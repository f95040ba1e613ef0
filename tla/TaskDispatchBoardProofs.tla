------------------------ MODULE TaskDispatchBoardProofs ------------------------
(***************************************************************************)
(* Nothing is left hanging on the board: a dispatched task has an active    *)
(* dispatch, and an unsettled worker too, provided that no caller of        *)
(* task-update asks for the status dispatched itself.  And the order of the *)
(* dependency graph is kept: what may complete a task, that a completed     *)
(* task stays so, that no task starts before what it depends on and that    *)
(* none waits for nothing.                                                  *)
(*                                                                          *)
(* The conditions are needed: an operator who sets a blocked task back to   *)
(* dispatched while its worker is being stopped lets the worker's report    *)
(* close the row under the stop, or the recovery of the missing terminal    *)
(* leave the task dispatched with nobody; and operators and gates may set a *)
(* task to anything.                                                        *)
(***************************************************************************)
EXTENDS TaskDispatchProofs

\* A worker whose fate is open blocks its task.
OpenFateBlocksTask ==
    \A d \in DispatchIds :
        Active(d) /\ worker[d] \in {"start_unknown", "stopping", "stop_unknown"} =>
            task[dispatch[d].task] = "blocked"

BInv == DispatchedTaskHasDispatch /\ WorkerSettlesWithDispatch /\ OpenFateBlocksTask

\* Outside task t a step promotes pending tasks at most.
PromotesAtMost(t) ==
    \A u \in Tasks \ {t} : task'[u] = task[u] \/ (task[u] = "pending" /\ task'[u] = "ready")

-----------------------------------------------------------------------------
(* What a step owes the board.                                                *)

\* A step on dispatch d of task t, of which no other dispatch is active.
LEMMA OneRowBoard ==
    ASSUME IInv, BInv, NEW d \in DispatchIds, NEW t \in Tasks, dispatch'[d].task = t,
           \A e \in DispatchIds \ {d} : worker'[e] = worker[e] /\ dispatch'[e] = dispatch[e],
           Active(d) => dispatch[d].task = t,
           ActiveOf(t) \ {d} = {},
           PromotesAtMost(t),
           task'[t] = "dispatched" => Active(d)',
           Unsettled(d)' => Active(d)',
           Active(d)' /\ worker'[d] \in {"start_unknown", "stopping", "stop_unknown"} =>
               task'[t] = "blocked"
    PROVE  BInv'
<1>1. DispatchedTaskHasDispatch'
  <2> SUFFICES ASSUME NEW u \in Tasks, task'[u] = "dispatched" PROVE ActiveOf(u)' # {}
    BY DEF DispatchedTaskHasDispatch
  <2>1. CASE u = t
    BY <2>1 DEF ActiveOf
  <2>2. CASE u # t
    <3>1. task[u] = "dispatched" BY <2>2 DEF PromotesAtMost
    <3>2. PICK e \in ActiveOf(u) : TRUE BY <3>1 DEF BInv, DispatchedTaskHasDispatch
    <3>3. e \in DispatchIds \ {d} /\ dispatch[e].task = u /\ Active(e)
      BY <2>2, <3>2 DEF ActiveOf
    <3> QED BY <3>3 DEF ActiveOf, Active
  <2> QED BY <2>1, <2>2
<1>2. WorkerSettlesWithDispatch'
  BY DEF BInv, WorkerSettlesWithDispatch, Unsettled, Active
<1>3. OpenFateBlocksTask'
  <2> SUFFICES ASSUME NEW e \in DispatchIds, Active(e)',
                      worker'[e] \in {"start_unknown", "stopping", "stop_unknown"}
               PROVE  task'[dispatch'[e].task] = "blocked"
    BY DEF OpenFateBlocksTask
  <2>1. CASE e = d BY <2>1
  <2>2. CASE e # d
    <3>1. Active(e) /\ dispatch'[e] = dispatch[e] /\ worker'[e] = worker[e]
      BY <2>2 DEF Active
    <3>2. task[dispatch[e].task] = "blocked" /\ dispatch[e].task \in Tasks
      BY <3>1, ActiveTaskFact DEF BInv, OpenFateBlocksTask
    <3>3. dispatch[e].task # t BY <2>2, <3>1 DEF ActiveOf
    <3> QED BY <3>1, <3>2, <3>3 DEF PromotesAtMost
  <2> QED BY <2>1, <2>2
<1> QED BY <1>1, <1>2, <1>3 DEF BInv

\* A step that leaves every worker alone and after which t is not dispatched: the rows of
\* t end, or it has no active ones, and none of them has an unsettled worker.
LEMMA TaskBoard ==
    ASSUME IInv, BInv, NEW t, worker' = worker, PromotesAtMost(t),
           t \in Tasks => task'[t] # "dispatched",
           ActiveWorkers(t) = {},
           \A e \in DispatchIds : /\ dispatch'[e].task = dispatch[e].task
                                  /\ Active(e)' => Active(e)
                                  /\ dispatch[e].task # t => dispatch'[e] = dispatch[e]
    PROVE  BInv'
<1>1. DispatchedTaskHasDispatch'
  <2> SUFFICES ASSUME NEW u \in Tasks, task'[u] = "dispatched" PROVE ActiveOf(u)' # {}
    BY DEF DispatchedTaskHasDispatch
  <2>1. u # t /\ task[u] = "dispatched" BY DEF PromotesAtMost
  <2>2. PICK e \in ActiveOf(u) : TRUE BY <2>1 DEF BInv, DispatchedTaskHasDispatch
  <2>3. e \in DispatchIds /\ dispatch'[e] = dispatch[e] /\ dispatch[e].task = u /\ Active(e)
    BY <2>1, <2>2 DEF ActiveOf
  <2> QED BY <2>3 DEF ActiveOf, Active
<1>2. \A e \in DispatchIds : Unsettled(e) => dispatch[e].task # t /\ Active(e)
  BY DEF BInv, WorkerSettlesWithDispatch, ActiveWorkers, ActiveOf
<1>3. WorkerSettlesWithDispatch'
  BY <1>2 DEF WorkerSettlesWithDispatch, Unsettled, Active
<1>4. OpenFateBlocksTask'
  <2> SUFFICES ASSUME NEW e \in DispatchIds, Active(e)',
                      worker'[e] \in {"start_unknown", "stopping", "stop_unknown"}
               PROVE  task'[dispatch'[e].task] = "blocked"
    BY DEF OpenFateBlocksTask
  <2>1. Unsettled(e) BY DEF Unsettled, UnsettledStates
  <2>2. Active(e) /\ dispatch[e].task # t /\ dispatch[e].task \in Tasks
    BY <1>2, <2>1, ActiveTaskFact
  <2>3. task[dispatch[e].task] = "blocked" BY <2>2 DEF BInv, OpenFateBlocksTask
  <2> QED BY <2>2, <2>3 DEF PromotesAtMost
<1> QED BY <1>1, <1>3, <1>4 DEF BInv

\* One row and one task change; each premise is read off the action.
LEMMA AfterInterruptionAlone ==
    ASSUME NEW d \in DispatchIds, ActiveOf(dispatch[d].task) \ {d} = {}
    PROVE  AfterInterruption(d) # "dispatched"
           /\ (task[dispatch[d].task] \in {"dispatched", "blocked"} =>
                   AfterInterruption(d) = "blocked")
BY DEF AfterInterruption

-----------------------------------------------------------------------------
(* Steps that end one dispatch.                                               *)

LEMMA FailDispatchBoard ==
    ASSUME IInv, BInv, NEW d \in DispatchIds, NEW exited \in BOOLEAN,
           NEW cause \in {"stalled", "other"}, FailDispatch(d, exited, cause)
    PROVE  BInv'
<1> DEFINE t == dispatch[d].task
           row == Failed(dispatch[d], cause)
<1>1. /\ Active(d) /\ dispatch' = [dispatch EXCEPT ![d] = row]
      /\ worker' = WorkerAfterFailure(d, exited) /\ (exited \/ ~Unsettled(d))
      /\ task' = IF task[t] = "dispatched" /\ ActiveOf(t) \ {d} = {}
                 THEN [task EXCEPT ![t] =
                          IF row.status = "circuit_broken" THEN "failed" ELSE "ready"]
                 ELSE task
  BY DEF FailDispatch
<1>2. dispatch[d] \in DispatchRows /\ t \in Tasks BY <1>1, RowOf
<1>3. row.status \in {"failed", "circuit_broken"} /\ row.task = t BY <1>2, FailedType
<1>4. ActiveOf(t) \ {d} = {} BY <1>1, OnlyActive
<1>5. task'[t] # "dispatched" /\ PromotesAtMost(t)
  BY <1>1, <1>2, <1>4 DEF PromotesAtMost, IInv, TypeOK
<1> HIDE DEF row
<1>6. dispatch'[d] = row /\ \A e \in DispatchIds \ {d} : dispatch'[e] = dispatch[e]
  BY <1>1 DEF IInv, TypeOK
<1>7. ~Unsettled(d)' /\ \A e \in DispatchIds \ {d} : worker'[e] = worker[e]
  BY <1>1 DEF WorkerAfterFailure, Unsettled, UnsettledStates, IInv, TypeOK
<1>8. ~Active(d)' BY <1>3, <1>6 DEF Active, ActiveStatuses
<1> QED BY <1>1, <1>2, <1>3, <1>4, <1>5, <1>6, <1>7, <1>8, OneRowBoard

LEMMA ReleaseContextOnlyDispatchBoard ==
    ASSUME IInv, BInv, NEW d \in DispatchIds, ReleaseContextOnlyDispatch(d)
    PROVE  BInv'
<1> DEFINE t == dispatch[d].task
           row == Closed(dispatch[d], "failed", "other")
<1>1. /\ Active(d) /\ dispatch' = [dispatch EXCEPT ![d] = row]
      /\ worker' = worker /\ worker[d] = "none"
      /\ task' = IF ActiveOf(t) = {d} /\ task[t] = "dispatched"
                 THEN [task EXCEPT ![t] = "blocked"] ELSE task
  BY DEF ReleaseContextOnlyDispatch
<1>2. dispatch[d] \in DispatchRows /\ t \in Tasks BY <1>1, RowOf
<1>3. row.status = "failed" /\ row.task = t
  BY <1>2, ClosedType DEF DispatchStatuses
<1>4. ActiveOf(t) \ {d} = {} /\ ActiveOf(t) = {d} BY <1>1, OnlyActive DEF ActiveOf
<1>5. task'[t] # "dispatched" /\ PromotesAtMost(t)
  BY <1>1, <1>2, <1>4 DEF PromotesAtMost, IInv, TypeOK
<1> HIDE DEF row
<1>6. dispatch'[d] = row /\ \A e \in DispatchIds \ {d} : dispatch'[e] = dispatch[e]
  BY <1>1 DEF IInv, TypeOK
<1>7. ~Unsettled(d)' BY <1>1 DEF Unsettled, UnsettledStates
<1>8. ~Active(d)' BY <1>3, <1>6 DEF Active, ActiveStatuses
<1> QED BY <1>1, <1>2, <1>3, <1>4, <1>5, <1>6, <1>7, <1>8, OneRowBoard

LEMMA FailWorkerStartBoard ==
    ASSUME IInv, BInv, NEW d \in DispatchIds, NEW stalled \in BOOLEAN,
           FailWorkerStart(d, stalled)
    PROVE  BInv'
<1> DEFINE t == dispatch[d].task
<1>1. /\ worker[d] = "starting" /\ worker' = [worker EXCEPT ![d] = "failed"]
      /\ task' = IF ActiveOf(t) \ {d} = {} THEN [task EXCEPT ![t] = "failed"] ELSE task
  BY DEF FailWorkerStart
<1>2. /\ dispatch[d] \in DispatchRows /\ t \in Tasks /\ Active(d)
  BY <1>1, RowOf DEF IInv, StartingIsPending, Active, ActiveStatuses
<1>3. /\ \A e \in DispatchIds \ {d} : dispatch'[e] = dispatch[e]
      /\ dispatch'[d].task = t /\ dispatch'[d].status = "failed"
  BY <1>2 DEF FailWorkerStart, IInv, TypeOK, DispatchRows
<1>4. ActiveOf(t) \ {d} = {} BY <1>2, OnlyActive
<1>5. task'[t] = "failed" /\ PromotesAtMost(t)
  BY <1>1, <1>2, <1>4 DEF PromotesAtMost, IInv, TypeOK
<1>6. ~Unsettled(d)' /\ \A e \in DispatchIds \ {d} : worker'[e] = worker[e]
  BY <1>1 DEF Unsettled, UnsettledStates, IInv, TypeOK
<1>7. ~Active(d)' BY <1>3 DEF Active, ActiveStatuses
<1> QED BY <1>2, <1>3, <1>4, <1>5, <1>6, <1>7, OneRowBoard

\* A stop that settles is one of an unsettled worker, so its row is active.
LEMMA StoppedBoard ==
    ASSUME IInv, BInv, NEW d \in DispatchIds, worker[d] \in {"stopping", "stop_unknown"},
           Stopped(d)
    PROVE  BInv'
<1> DEFINE t == dispatch[d].task
<1>1. Active(d) BY DEF BInv, WorkerSettlesWithDispatch, Unsettled, UnsettledStates
<1>2. /\ worker' = [worker EXCEPT ![d] = "stopped"]
      /\ task' = [task EXCEPT ![t] = AfterInterruption(d)]
      /\ dispatch' = [dispatch EXCEPT ![d].status = "failed", ![d].lastFailure = "other"]
  BY <1>1 DEF Stopped, RowsAfterStop
<1>3. dispatch[d] \in DispatchRows /\ t \in Tasks BY <1>1, RowOf
<1>4. /\ \A e \in DispatchIds \ {d} : dispatch'[e] = dispatch[e]
      /\ dispatch'[d].task = t /\ dispatch'[d].status = "failed"
  BY <1>2, <1>3 DEF IInv, TypeOK, DispatchRows
<1>5. ActiveOf(t) \ {d} = {} BY <1>1, OnlyActive
<1>6. task'[t] # "dispatched" /\ PromotesAtMost(t)
  BY <1>2, <1>3, <1>5, AfterInterruptionAlone DEF PromotesAtMost, IInv, TypeOK
<1>7. ~Unsettled(d)' /\ \A e \in DispatchIds \ {d} : worker'[e] = worker[e]
  BY <1>2 DEF Unsettled, UnsettledStates, IInv, TypeOK
<1>8. ~Active(d)' BY <1>4 DEF Active, ActiveStatuses
<1> QED BY <1>3, <1>4, <1>5, <1>6, <1>7, <1>8, OneRowBoard

\* Only the newest attempt is abandoned: no other attempt of the task is active.
LEMMA AbandonWorkerDispatchBoard ==
    ASSUME IInv, BInv, NEW d \in DispatchIds, AbandonWorkerDispatch(d)
    PROVE  BInv'
<1> DEFINE t == dispatch[d].task
<1>1. /\ worker[d] # "none" /\ worker' = [worker EXCEPT ![d] = "abandoned"]
      /\ Latest(t, d)
      /\ task' = [task EXCEPT ![t] = AfterInterruption(d)]
  BY DEF AbandonWorkerDispatch
<1>2. dispatch[d] \in DispatchRows /\ t \in Tasks BY <1>1, RowOf
<1>3. /\ \A e \in DispatchIds \ {d} : dispatch'[e] = dispatch[e]
      /\ dispatch'[d].task = t
      /\ dispatch'[d].status = IF Active(d) THEN "failed" ELSE dispatch[d].status
  BY <1>2 DEF AbandonWorkerDispatch, IInv, TypeOK, DispatchRows
<1>4. ActiveOf(t) \ {d} = {}
  <2> SUFFICES ASSUME NEW e \in ActiveOf(t), e # d PROVE FALSE
    OBVIOUS
  <2>1. e \in DispatchIds /\ Active(e) /\ dispatch[e].task = t BY DEF ActiveOf
  <2>2. e > d \/ d > e BY <2>1, BoundsAssumption DEF DispatchIds
  <2> QED BY <1>1, <2>1, <2>2 DEF Latest, IInv, ActiveIsLatest
<1>5. task'[t] # "dispatched" /\ PromotesAtMost(t)
  BY <1>1, <1>2, <1>4, AfterInterruptionAlone DEF PromotesAtMost, IInv, TypeOK
<1>6. ~Unsettled(d)' /\ \A e \in DispatchIds \ {d} : worker'[e] = worker[e]
  BY <1>1 DEF Unsettled, UnsettledStates, IInv, TypeOK
<1>7. ~Active(d)' BY <1>3 DEF Active, ActiveStatuses
<1> QED BY <1>2, <1>3, <1>4, <1>5, <1>6, <1>7, OneRowBoard

\* A stop that was under way has blocked the task already.
LEMMA ReconcileMissingWorkerTerminalBoard ==
    ASSUME IInv, BInv, NEW d \in DispatchIds, ReconcileMissingWorkerTerminal(d)
    PROVE  BInv'
<1> DEFINE t == dispatch[d].task
           row == Failed(dispatch[d], "other")
           pending == worker[d] \in {"stopping", "stop_unknown"}
<1>1. /\ Active(d) /\ dispatch' = [dispatch EXCEPT ![d] = row]
      /\ worker' = [worker EXCEPT ![d] = IF pending THEN "stopped" ELSE "abandoned"]
      /\ task' = IF pending THEN task
                 ELSE [task EXCEPT ![t] =
                     IF @ \in {"dispatched", "blocked"} /\ ActiveOf(t) \ {d} = {}
                     THEN (IF row.status = "circuit_broken" THEN "failed" ELSE "ready")
                     ELSE AfterInterruption(d)]
  BY DEF ReconcileMissingWorkerTerminal
<1>2. dispatch[d] \in DispatchRows /\ t \in Tasks BY <1>1, RowOf
<1>3. row.status \in {"failed", "circuit_broken"} /\ row.task = t BY <1>2, FailedType
<1>4. ActiveOf(t) \ {d} = {} BY <1>1, OnlyActive
<1>5. pending => task[t] = "blocked" BY <1>1 DEF BInv, OpenFateBlocksTask
<1> HIDE DEF row
<1>6. task'[t] # "dispatched" /\ PromotesAtMost(t)
  BY <1>1, <1>2, <1>4, <1>5, AfterInterruptionAlone DEF PromotesAtMost, IInv, TypeOK
<1>7. dispatch'[d] = row /\ \A e \in DispatchIds \ {d} : dispatch'[e] = dispatch[e]
  BY <1>1 DEF IInv, TypeOK
<1>8. ~Unsettled(d)' /\ \A e \in DispatchIds \ {d} : worker'[e] = worker[e]
  BY <1>1 DEF Unsettled, UnsettledStates, IInv, TypeOK
<1>9. ~Active(d)' BY <1>3, <1>7 DEF Active, ActiveStatuses
<1> QED BY <1>2, <1>3, <1>4, <1>6, <1>7, <1>8, <1>9, OneRowBoard

LEMMA ReconcileFederatedWorkerEndedBoard ==
    ASSUME IInv, BInv, NEW d \in DispatchIds, NEW state \in {"failed", "stopped"},
           NEW cause \in {"stalled", "other"}, ReconcileFederatedWorkerEnded(d, state, cause)
    PROVE  BInv'
<1> DEFINE t == dispatch[d].task
           row == Closed(dispatch[d], "failed", cause)
<1>1. /\ worker[d] \in {"starting", "start_unknown"}
      /\ worker' = [worker EXCEPT ![d] = state]
      /\ task' = [task EXCEPT ![t] =
             IF @ \in {"blocked", "dispatched"} /\ ActiveOf(t) \ {d} = {}
             THEN "failed" ELSE AfterInterruption(d)]
  BY DEF ReconcileFederatedWorkerEnded
<1>2. Active(d) /\ dispatch[d] \in DispatchRows /\ t \in Tasks
  BY <1>1, RowOf DEF IInv, StartingIsPending, Active, ActiveStatuses
<1>3. dispatch' = [dispatch EXCEPT ![d] = row]
  BY <1>2 DEF ReconcileFederatedWorkerEnded
<1>4. row.status = "failed" /\ row.task = t BY <1>2, ClosedType DEF DispatchStatuses
<1>5. ActiveOf(t) \ {d} = {} BY <1>2, OnlyActive
<1>6. task'[t] # "dispatched" /\ PromotesAtMost(t)
  BY <1>1, <1>2, <1>5, AfterInterruptionAlone DEF PromotesAtMost, IInv, TypeOK
<1> HIDE DEF row
<1>7. dispatch'[d] = row /\ \A e \in DispatchIds \ {d} : dispatch'[e] = dispatch[e]
  BY <1>3 DEF IInv, TypeOK
<1>8. ~Unsettled(d)' /\ \A e \in DispatchIds \ {d} : worker'[e] = worker[e]
  BY <1>1 DEF Unsettled, UnsettledStates, IInv, TypeOK
<1>9. ~Active(d)' BY <1>4, <1>7 DEF Active, ActiveStatuses
<1> QED BY <1>2, <1>4, <1>5, <1>6, <1>7, <1>8, <1>9, OneRowBoard

-----------------------------------------------------------------------------
(* Steps that settle every active dispatch of a task, or move it freely.      *)

\* Moving a task to a status other than dispatched.
LEMMA MoveTaskBoard ==
    ASSUME IInv, BInv, NEW t, NEW status \in TaskStatuses \ {"dispatched"},
           MoveTask(t, status), worker' = worker
    PROVE  BInv'
<1>1. task' = Moved(t, status) /\ MayMove(t, status) BY DEF MoveTask
<1>2. PromotesAtMost(t) BY <1>1 DEF PromotesAtMost, Moved, Promote, IInv, TypeOK
<1>3. t \in Tasks => task'[t] # "dispatched"
  BY <1>1 DEF Moved, Promote, IInv, TypeOK
<1>4. CASE status \in {"completed", "failed"}
  <2>1. ActiveWorkers(t) = {} /\ dispatch' = SettleActive(dispatch, t, status)
    BY <1>1, <1>4 DEF MoveTask, MayMove
  <2>2. \A e \in DispatchIds : /\ dispatch'[e].task = dispatch[e].task
                               /\ Active(e)' => Active(e)
                               /\ dispatch[e].task # t => dispatch'[e] = dispatch[e]
    BY <1>4, <2>1, SettleActiveType DEF IInv, TypeOK, Active
  <2> QED BY <1>2, <1>3, <2>1, <2>2, TaskBoard
<1>5. CASE status \notin {"completed", "failed"}
  <2>1. ActiveOf(t) = {} /\ dispatch' = dispatch
    BY <1>1, <1>5 DEF MoveTask, MayMove, TaskStatuses
  <2> QED BY <1>2, <1>3, <2>1, TaskBoard DEF ActiveWorkers, Active
<1> QED BY <1>4, <1>5

LEMMA CreateGateBoard ==
    ASSUME IInv, BInv, NEW g \in GateIds, NEW t \in Tasks, NEW fromWorker \in BOOLEAN,
           CreateGate(g, t, fromWorker)
    PROVE  BInv'
<1>1. /\ ActiveWorkers(t) = {} /\ dispatch' = SettleActive(dispatch, t, "completed")
      /\ worker' = worker /\ task' = [task EXCEPT ![t] = "blocked"]
  BY DEF CreateGate
<1>2. PromotesAtMost(t) /\ task'[t] # "dispatched"
  BY <1>1 DEF PromotesAtMost, IInv, TypeOK
<1>3. \A e \in DispatchIds : /\ dispatch'[e].task = dispatch[e].task
                             /\ Active(e)' => Active(e)
                             /\ dispatch[e].task # t => dispatch'[e] = dispatch[e]
  BY <1>1, SettleActiveType DEF IInv, TypeOK, Active
<1> QED BY <1>1, <1>2, <1>3, TaskBoard

\* The report is the only dispatch of its task that may be active, and its worker is not
\* one a stop or an unknown start still has in hand: those block the task.
LEMMA SettleWorkerReportBoard ==
    ASSUME IInv, BInv, NEW d \in DispatchIds, NEW outcome \in {"succeeded", "failed"},
           SettleWorkerReport(d, outcome)
    PROVE  BInv'
<1> DEFINE t == dispatch[d].task
           settled == IF outcome = "succeeded" THEN "completed" ELSE "failed"
           own == [dispatch EXCEPT ![d] = Closed(@, settled, "other")]
<1>1. /\ Exists(d)
      /\ \/ SettledByUnobservedPrompt(d)
         \/ dispatch[d].status = "dispatched" /\ task[t] = "dispatched"
      /\ dispatch' = SettleActive(own, t, settled)
      /\ task' = Moved(t, settled)
      /\ worker' = worker \/ worker' = [worker EXCEPT ![d] = outcome]
      /\ dispatch[d].status = "dispatched" /\ worker[d] = "ready" =>
             worker' = [worker EXCEPT ![d] = outcome]
  BY DEF SettleWorkerReport, AcceptsReport, SettledByUnobservedPrompt
<1>2. settled \in {"completed", "failed"} OBVIOUS
<1> HIDE DEF settled
<1>3. t \in Tasks BY <1>1 DEF IInv, RowsBelongToTasks
<1>4. task'[t] # "dispatched" /\ PromotesAtMost(t)
  BY <1>1, <1>2, <1>3 DEF PromotesAtMost, Moved, Promote, IInv, TypeOK
<1>5. /\ \A e \in DispatchIds : dispatch'[e].task = dispatch[e].task
      /\ ~Active(d)' /\ ActiveOf(t) \subseteq {d}
  BY SettleWorkerReportStep DEF ReportEnds, RowsShrink
<1>6. \A e \in DispatchIds \ {d} : dispatch'[e] = dispatch[e]
  <2>1. \A e \in DispatchIds \ {d} : own[e] = dispatch[e] BY DEF IInv, TypeOK
  <2> HIDE DEF own
  <2> QED BY <1>1, <1>5, <2>1 DEF SettleActive, ActiveOf, Active
<1>7. \A e \in DispatchIds \ {d} : worker'[e] = worker[e]
  BY <1>1 DEF IInv, TypeOK
<1>8. ~Unsettled(d)'
  <2>1. CASE SettledByUnobservedPrompt(d)
    <3>1. ~Active(d) BY <2>1 DEF SettledByUnobservedPrompt, Active, ActiveStatuses
    <3>2. ~Unsettled(d) BY <3>1 DEF BInv, WorkerSettlesWithDispatch
    <3> QED BY <1>1, <3>2 DEF Unsettled, UnsettledStates, IInv, TypeOK
  <2>2. CASE dispatch[d].status = "dispatched" /\ task[t] = "dispatched"
    <3>1. Active(d) BY <2>2 DEF Active, ActiveStatuses
    <3>2. worker[d] \notin {"starting", "start_unknown", "stopping", "stop_unknown"}
      BY <2>2, <3>1 DEF IInv, StartingIsPending, BInv, OpenFateBlocksTask
    <3> QED BY <1>1, <2>2, <3>2 DEF Unsettled, UnsettledStates, IInv, TypeOK
  <2> QED BY <1>1, <2>1, <2>2
<1> QED BY <1>3, <1>4, <1>5, <1>6, <1>7, <1>8, OneRowBoard

LEMMA CreateTaskBoard ==
    ASSUME IInv, BInv, NEW t \in Tasks, CreateTask(t)
    PROVE  BInv'
<1>1. /\ task[t] = "absent" /\ task' = [task EXCEPT ![t] = InitialStatus(t)]
      /\ dispatch' = dispatch /\ worker' = worker
  BY DEF CreateTask
<1>2. ActiveWorkers(t) = {} BY <1>1, ActiveTaskFact DEF ActiveWorkers, ActiveOf
<1>3. task'[t] # "dispatched" /\ PromotesAtMost(t)
  BY <1>1 DEF InitialStatus, PromotesAtMost, IInv, TypeOK
<1> QED BY <1>1, <1>2, <1>3, TaskBoard DEF Active

-----------------------------------------------------------------------------
(* Steps that leave the claim where it is, and new claims.                    *)

\* A step on the row and the worker of an active dispatch that stays active.
LEMMA KeepingBoard ==
    ASSUME IInv, BInv, NEW d \in DispatchIds, Active(d), Active(d)',
           \A e \in DispatchIds \ {d} : worker'[e] = worker[e] /\ dispatch'[e] = dispatch[e],
           dispatch'[d].task = dispatch[d].task,
           \A u \in Tasks \ {dispatch[d].task} : task'[u] = task[u],
           worker'[d] \in {"start_unknown", "stopping", "stop_unknown"} =>
               task'[dispatch[d].task] = "blocked"
    PROVE  BInv'
<1>1. ActiveOf(dispatch[d].task) \ {d} = {} BY OnlyActive
<1>2. dispatch[d].task \in Tasks BY ActiveTaskFact
<1>3. PromotesAtMost(dispatch[d].task) BY DEF PromotesAtMost
<1> QED BY <1>1, <1>2, <1>3, OneRowBoard

LEMMA MintDispatchCapabilityBoard ==
    ASSUME IInv, BInv, NEW d \in DispatchIds, MintDispatchCapability(d)
    PROVE  BInv'
<1>1. /\ Active(d) /\ dispatch' = [dispatch EXCEPT ![d].capability = "live"]
      /\ task' = task /\ worker' = worker
  BY DEF MintDispatchCapability
<1>2. /\ \A e \in DispatchIds \ {d} : dispatch'[e] = dispatch[e]
      /\ dispatch'[d].task = dispatch[d].task /\ dispatch'[d].status = dispatch[d].status
  BY <1>1 DEF IInv, TypeOK, DispatchRows
<1> QED BY <1>1, <1>2, KeepingBoard DEF BInv, OpenFateBlocksTask, Active

LEMMA PrepareStartingWorkerAuthorityBoard ==
    ASSUME IInv, BInv, NEW d \in DispatchIds, NEW term \in Terminals,
           PrepareStartingWorkerAuthority(d, term)
    PROVE  BInv'
<1>1. /\ dispatch[d].status = "pending" /\ worker[d] = "starting"
      /\ dispatch' = [dispatch EXCEPT ![d].assignee = term, ![d].capability = "live"]
      /\ task' = task /\ worker' = worker
  BY DEF PrepareStartingWorkerAuthority, Starting
<1>2. /\ \A e \in DispatchIds \ {d} : dispatch'[e] = dispatch[e]
      /\ dispatch'[d].task = dispatch[d].task /\ dispatch'[d].status = "pending"
  BY <1>1 DEF IInv, TypeOK, DispatchRows
<1>3. Active(d) /\ Active(d)' BY <1>1, <1>2 DEF Active, ActiveStatuses
<1> QED BY <1>1, <1>2, <1>3, KeepingBoard

LEMMA MarkWorkerDispatchReadyBoard ==
    ASSUME IInv, BInv, NEW d \in DispatchIds, MarkWorkerDispatchReady(d)
    PROVE  BInv'
<1>1. /\ dispatch[d].status = "pending" /\ worker[d] = "starting"
      /\ dispatch' = [dispatch EXCEPT ![d].status = "dispatched"]
      /\ worker' = [worker EXCEPT ![d] = "ready"] /\ task' = task
  BY DEF MarkWorkerDispatchReady, Starting
<1>2. /\ \A e \in DispatchIds \ {d} : dispatch'[e] = dispatch[e] /\ worker'[e] = worker[e]
      /\ dispatch'[d].task = dispatch[d].task /\ dispatch'[d].status = "dispatched"
      /\ worker'[d] = "ready"
  BY <1>1 DEF IInv, TypeOK, DispatchRows
<1>3. Active(d) /\ Active(d)' BY <1>1, <1>2 DEF Active, ActiveStatuses
<1> QED BY <1>1, <1>2, <1>3, KeepingBoard

LEMMA MarkWorkerStartUnknownBoard ==
    ASSUME IInv, BInv, NEW d \in DispatchIds, MarkWorkerStartUnknown(d)
    PROVE  BInv'
<1>1. /\ worker[d] = "starting" /\ worker' = [worker EXCEPT ![d] = "start_unknown"]
      /\ dispatch' = [dispatch EXCEPT ![d].capability = Revoked(@)]
      /\ task' = [task EXCEPT ![dispatch[d].task] = "blocked"]
  BY DEF MarkWorkerStartUnknown
<1>2. Active(d) BY <1>1 DEF IInv, StartingIsPending, Active, ActiveStatuses
<1>3. /\ \A e \in DispatchIds \ {d} : dispatch'[e] = dispatch[e] /\ worker'[e] = worker[e]
      /\ dispatch'[d].task = dispatch[d].task /\ dispatch'[d].status = dispatch[d].status
  BY <1>1 DEF IInv, TypeOK, DispatchRows
<1>4. dispatch[d].task \in Tasks BY <1>2, ActiveTaskFact
<1>5. /\ task'[dispatch[d].task] = "blocked"
      /\ \A u \in Tasks \ {dispatch[d].task} : task'[u] = task[u]
  BY <1>1, <1>4 DEF IInv, TypeOK
<1>6. Active(d)' BY <1>2, <1>3 DEF Active
<1> QED BY <1>2, <1>3, <1>5, <1>6, KeepingBoard

LEMMA BeginWorkerStopBoard ==
    ASSUME IInv, BInv, NEW d \in DispatchIds, BeginWorkerStop(d)
    PROVE  BInv'
<1>1. /\ worker[d] \in {"ready", "start_unknown"}
      /\ worker' = [worker EXCEPT ![d] = "stopping"]
      /\ dispatch' = [dispatch EXCEPT ![d].capability = Revoked(@)]
      /\ task' = [task EXCEPT ![dispatch[d].task] = AfterInterruption(d)]
  BY DEF BeginWorkerStop
<1>2. Active(d)
  BY <1>1 DEF BInv, WorkerSettlesWithDispatch, Unsettled, UnsettledStates
<1>3. /\ \A e \in DispatchIds \ {d} : dispatch'[e] = dispatch[e] /\ worker'[e] = worker[e]
      /\ dispatch'[d].task = dispatch[d].task /\ dispatch'[d].status = dispatch[d].status
  BY <1>1 DEF IInv, TypeOK, DispatchRows
<1>4. dispatch[d].task \in Tasks /\ AfterInterruption(d) = "blocked"
  BY <1>2, ActiveTaskFact, OnlyActive, AfterInterruptionAlone
<1>5. /\ task'[dispatch[d].task] = "blocked"
      /\ \A u \in Tasks \ {dispatch[d].task} : task'[u] = task[u]
  BY <1>1, <1>4 DEF IInv, TypeOK
<1>6. Active(d)' BY <1>2, <1>3 DEF Active
<1> QED BY <1>2, <1>3, <1>5, <1>6, KeepingBoard

LEMMA MarkWorkerStopUnknownBoard ==
    ASSUME IInv, BInv, NEW d \in DispatchIds, MarkWorkerStopUnknown(d)
    PROVE  BInv'
<1>1. /\ worker[d] = "stopping" /\ worker' = [worker EXCEPT ![d] = "stop_unknown"]
      /\ task' = task /\ dispatch' = dispatch
  BY DEF MarkWorkerStopUnknown
<1>2. Active(d) BY <1>1 DEF BInv, WorkerSettlesWithDispatch, Unsettled, UnsettledStates
<1>3. task[dispatch[d].task] = "blocked" BY <1>1, <1>2 DEF BInv, OpenFateBlocksTask
<1>4. \A e \in DispatchIds \ {d} : worker'[e] = worker[e] BY <1>1 DEF IInv, TypeOK
<1> QED BY <1>1, <1>2, <1>3, <1>4, KeepingBoard DEF Active

LEMMA ReconcileFederatedWorkerReadyBoard ==
    ASSUME IInv, BInv, NEW d \in DispatchIds, ReconcileFederatedWorkerReady(d)
    PROVE  BInv'
<1> DEFINE t == dispatch[d].task
<1>1. /\ worker[d] \in {"starting", "start_unknown"}
      /\ worker' = [worker EXCEPT ![d] = "ready"]
      /\ dispatch' = [dispatch EXCEPT ![d].status = IF @ = "pending" THEN "dispatched" ELSE @]
      /\ task' = [task EXCEPT ![t] = IF @ = "blocked" THEN "dispatched" ELSE @]
  BY DEF ReconcileFederatedWorkerReady
<1>2. dispatch[d].status = "pending" /\ Active(d)
  BY <1>1 DEF IInv, StartingIsPending, Active, ActiveStatuses
<1>3. /\ \A e \in DispatchIds \ {d} : dispatch'[e] = dispatch[e] /\ worker'[e] = worker[e]
      /\ dispatch'[d].task = t /\ dispatch'[d].status = "dispatched" /\ worker'[d] = "ready"
  BY <1>1, <1>2 DEF IInv, TypeOK, DispatchRows
<1>4. \A u \in Tasks \ {t} : task'[u] = task[u] BY <1>1 DEF IInv, TypeOK
<1>5. Active(d)' BY <1>3 DEF Active, ActiveStatuses
<1> QED BY <1>2, <1>3, <1>4, <1>5, KeepingBoard

LEMMA ResumeFederatedWorkerForTerminalRelayBoard ==
    ASSUME IInv, BInv, NEW d \in DispatchIds, ResumeFederatedWorkerForTerminalRelay(d)
    PROVE  BInv'
<1>1. /\ worker[d] = "stopping" /\ worker' = [worker EXCEPT ![d] = "ready"]
      /\ task' = [task EXCEPT ![dispatch[d].task] = IF @ = "blocked" THEN "dispatched" ELSE @]
      /\ dispatch' = dispatch
  BY DEF ResumeFederatedWorkerForTerminalRelay
<1>2. Active(d) BY <1>1 DEF BInv, WorkerSettlesWithDispatch, Unsettled, UnsettledStates
<1>3. /\ worker'[d] = "ready" /\ \A e \in DispatchIds \ {d} : worker'[e] = worker[e]
      /\ \A u \in Tasks \ {dispatch[d].task} : task'[u] = task[u]
  BY <1>1 DEF IInv, TypeOK
<1> QED BY <1>1, <1>2, <1>3, KeepingBoard DEF Active

\* A new row is the only active one of its task.
LEMMA ClaimBoard ==
    ASSUME IInv, BInv, NEW d \in DispatchIds, NEW t \in Tasks, FreshDispatch(d),
           ActiveOf(t) = {},
           \A e \in DispatchIds \ {d} : worker'[e] = worker[e] /\ dispatch'[e] = dispatch[e],
           dispatch'[d].task = t, dispatch'[d].status \in ActiveStatuses,
           worker'[d] \in {"none", "starting"},
           task' = [task EXCEPT ![t] = "dispatched"]
    PROVE  BInv'
<1>1. ~Active(d)
  BY BoundsAssumption DEF FreshDispatch, Exists, Active, ActiveStatuses, DispatchIds
<1>2. PromotesAtMost(t) BY DEF PromotesAtMost, IInv, TypeOK
<1>3. Active(d)' BY DEF Active
<1> QED BY <1>1, <1>2, <1>3, OneRowBoard

LEMMA CreateDispatchContextBoard ==
    ASSUME IInv, BInv, NEW d \in DispatchIds, NEW t \in Tasks, NEW term \in Terminals,
           CreateDispatchContext(d, t, term)
    PROVE  BInv'
<1>1. PICK prior \in FailureCounts(t) :
          dispatch' = [dispatch EXCEPT ![d] =
              [NoDispatch EXCEPT !.task = t, !.kind = "context", !.status = "dispatched",
                                 !.failures = prior, !.assignee = term]]
  BY DEF CreateDispatchContext
<1> DEFINE row == [NoDispatch EXCEPT !.task = t, !.kind = "context", !.status = "dispatched",
                       !.failures = prior, !.assignee = term]
<1>2. /\ FreshDispatch(d) /\ task[t] = "ready" /\ worker' = worker
      /\ task' = [task EXCEPT ![t] = "dispatched"]
  BY DEF CreateDispatchContext, MayClaim
<1>3. row.task = t /\ row.status \in ActiveStatuses BY DEF NoDispatch, ActiveStatuses
<1>4. dispatch' = [dispatch EXCEPT ![d] = row] BY <1>1
<1> HIDE DEF row
<1>5. dispatch'[d] = row /\ \A e \in DispatchIds \ {d} : dispatch'[e] = dispatch[e]
  BY <1>4 DEF IInv, TypeOK
<1>6. ActiveOf(t) = {} BY <1>2, ActiveTaskFact DEF ActiveOf
<1>7. worker[d] = "none"
  <2>1. ~Exists(d) BY <1>2, BoundsAssumption DEF FreshDispatch, DispatchIds
  <2> QED BY <2>1 DEF IInv, RowsBelongToTasks
<1> QED BY <1>2, <1>3, <1>5, <1>6, <1>7, ClaimBoard

LEMMA CreateStartingWorkerDispatchBoard ==
    ASSUME IInv, BInv, NEW d \in DispatchIds, NEW t \in Tasks,
           NEW kind \in {"local", "federated"}, NEW retryOf \in {0} \cup DispatchIds,
           CreateStartingWorkerDispatch(d, t, kind, retryOf)
    PROVE  BInv'
<1> DEFINE row == [NoDispatch EXCEPT !.task = t, !.kind = kind, !.status = "pending"]
<1>1. /\ FreshDispatch(d) /\ MayStart(t, retryOf)
      /\ dispatch' = [dispatch EXCEPT ![d] = row]
      /\ worker' = [worker EXCEPT ![d] = "starting"]
      /\ task' = [task EXCEPT ![t] = "dispatched"]
  BY DEF CreateStartingWorkerDispatch
<1>2. row.task = t /\ row.status \in ActiveStatuses BY DEF NoDispatch, ActiveStatuses
<1> HIDE DEF row
<1>3. /\ dispatch'[d] = row /\ worker'[d] = "starting"
      /\ \A e \in DispatchIds \ {d} : dispatch'[e] = dispatch[e] /\ worker'[e] = worker[e]
  BY <1>1 DEF IInv, TypeOK
<1>4. ActiveOf(t) = {} BY <1>1, MayStartFree
<1> QED BY <1>1, <1>2, <1>3, <1>4, ClaimBoard

-----------------------------------------------------------------------------
(* The theorems.                                                              *)

LEMMA InitBoard == Init => BInv
BY DEF Init, BInv, DispatchedTaskHasDispatch, WorkerSettlesWithDispatch, OpenFateBlocksTask,
       NoDispatch, Active, ActiveStatuses, Unsettled, UnsettledStates

\* A gate of no task cannot be answered: the status of its task is none.
LEMMA AnswerBoard ==
    ASSUME IInv, BInv, NEW g \in GateIds, ResolveGate(g) \/ RetireGate(g)
    PROVE  BInv'
<1>1. MoveTask(gate[g].task, "ready") /\ worker' = worker BY DEF ResolveGate, RetireGate
<1>2. "ready" \in TaskStatuses \ {"dispatched"} BY DEF TaskStatuses
<1> QED BY <1>1, <1>2, MoveTaskBoard

LEMMA NextBoard ==
    ASSUME "dispatched" \notin OperatorStatuses
    PROVE  IInv /\ BInv /\ [Next]_vars => BInv'
<1> SUFFICES ASSUME IInv, BInv, [Next]_vars PROVE BInv' OBVIOUS
<1>1. CASE TaskStep
  <2>1. \A t \in Tasks, status \in TaskStatuses : UpdateTaskStatus(t, status) => BInv'
    BY MoveTaskBoard DEF UpdateTaskStatus
  <2> QED BY <1>1, <2>1, CreateTaskBoard DEF TaskStep
<1>2. CASE ContextStep
  BY <1>2, CreateDispatchContextBoard, MintDispatchCapabilityBoard, FailDispatchBoard,
     ReleaseContextOnlyDispatchBoard DEF ContextStep
<1>3. CASE StartStep
  BY <1>3, CreateStartingWorkerDispatchBoard, PrepareStartingWorkerAuthorityBoard,
     MarkWorkerDispatchReadyBoard, FailWorkerStartBoard, MarkWorkerStartUnknownBoard
  DEF StartStep
<1>4. CASE StopStep
  <2>1. \A d \in DispatchIds : SettleWorkerStop(d) => BInv'
    BY StoppedBoard DEF SettleWorkerStop
  <2> QED BY <1>4, <2>1, BeginWorkerStopBoard, MarkWorkerStopUnknownBoard,
             AbandonWorkerDispatchBoard, ReconcileMissingWorkerTerminalBoard DEF StopStep
<1>5. CASE FederationStep
  <2>1. \A d \in DispatchIds : ReconcileFederatedWorkerStop(d) => BInv'
    BY StoppedBoard DEF ReconcileFederatedWorkerStop
  <2> QED BY <1>5, <2>1, ReconcileFederatedWorkerReadyBoard, ReconcileFederatedWorkerEndedBoard,
             ResumeFederatedWorkerForTerminalRelayBoard DEF FederationStep
<1>6. CASE ReportStep
  BY <1>6, SettleWorkerReportBoard DEF ReportStep
<1>7. CASE GateStep
  BY <1>7, CreateGateBoard, AnswerBoard DEF GateStep
<1>8. CASE UNCHANGED vars
  BY <1>8 DEF vars, BInv, DispatchedTaskHasDispatch, WorkerSettlesWithDispatch,
              OpenFateBlocksTask, ActiveOf, Active, Unsettled
<1> QED BY <1>1, <1>2, <1>3, <1>4, <1>5, <1>6, <1>7, <1>8 DEF Next

\* While nobody asks for the status dispatched itself, the board's invariant holds beside
\* the one of TaskDispatchProofs.
THEOREM NothingHangs ==
    ASSUME "dispatched" \notin OperatorStatuses
    PROVE  Spec => [](IInv /\ BInv)
<1>1. Init => IInv /\ BInv BY InitIInv, InitBoard
<1>2. (IInv /\ BInv) /\ [Next]_vars => (IInv /\ BInv)' BY NextIInv, NextBoard
<1> QED BY <1>1, <1>2, PTL DEF Spec

\* No path of dispatch, failure, stop, recovery, gate or report leaves a task dispatched
\* with nobody to report it.
THEOREM DispatchedIsHeld ==
    ASSUME "dispatched" \notin OperatorStatuses
    PROVE  Spec => []DispatchedTaskHasDispatch
<1>1. IInv /\ BInv => DispatchedTaskHasDispatch BY DEF BInv
<1> QED BY <1>1, NothingHangs, PTL

\* No worker stays open behind a row that says its attempt is over, whatever other
\* statuses operators set and whatever gates are opened and answered.
THEOREM WorkersSettle ==
    ASSUME "dispatched" \notin OperatorStatuses
    PROVE  Spec => []WorkerSettlesWithDispatch
<1>1. IInv /\ BInv => WorkerSettlesWithDispatch BY DEF BInv
<1> QED BY <1>1, NothingHangs, PTL

-----------------------------------------------------------------------------
(* The order of the dependency graph.                                         *)

\* The statuses of a task that was promoted and has not completed.
OpenStatuses == {"ready", "dispatched", "failed", "blocked"}

\* What dispatches, starts, stops and peers do to the board: open tasks stay open.
KeepsOpen ==
    \A t \in Tasks : \/ task'[t] = task[t]
                     \/ task[t] \in OpenStatuses /\ task'[t] \in OpenStatuses

-----------------------------------------------------------------------------
(* Every step but creation, reports, operators and gates keeps open tasks     *)
(* open and the others as they are.                                           *)

\* One task changes, and it was open.
LEMMA OneTaskKeepsOpen ==
    ASSUME TypeOK, NEW t \in Tasks, NEW status, task' = [task EXCEPT ![t] = status],
           status = task[t] \/ (task[t] \in OpenStatuses /\ status \in OpenStatuses)
    PROVE  KeepsOpen
BY DEF KeepsOpen, TypeOK

LEMMA AfterInterruptionOpen ==
    ASSUME NEW d \in DispatchIds
    PROVE  \/ AfterInterruption(d) = task[dispatch[d].task]
           \/ /\ task[dispatch[d].task] \in OpenStatuses
              /\ AfterInterruption(d) \in OpenStatuses
BY DEF AfterInterruption, OpenStatuses

LEMMA ContextKeepsOpen == ASSUME IInv, ContextStep PROVE KeepsOpen
<1>1. PICK d \in DispatchIds :
          \/ \E t \in Tasks, term \in Terminals : CreateDispatchContext(d, t, term)
          \/ MintDispatchCapability(d)
          \/ \E exited \in BOOLEAN, cause \in {"stalled", "other"} : FailDispatch(d, exited, cause)
          \/ ReleaseContextOnlyDispatch(d)
  BY DEF ContextStep
<1>2. CASE \E t \in Tasks, term \in Terminals : CreateDispatchContext(d, t, term)
  <2>1. PICK t \in Tasks : task[t] = "ready" /\ task' = [task EXCEPT ![t] = "dispatched"]
    BY <1>2 DEF CreateDispatchContext, MayClaim
  <2> QED BY <2>1, OneTaskKeepsOpen DEF OpenStatuses, IInv
<1>3. CASE MintDispatchCapability(d)
  BY <1>3 DEF MintDispatchCapability, KeepsOpen
<1>4. CASE \E exited \in BOOLEAN, cause \in {"stalled", "other"} : FailDispatch(d, exited, cause)
  <2> DEFINE t == dispatch[d].task
  <2>1. Active(d) BY <1>4 DEF FailDispatch
  <2>2. t \in Tasks BY <2>1, RowOf
  <2>3. \/ task' = task
        \/ task[t] = "dispatched" /\ task' = [task EXCEPT ![t] = "failed"]
        \/ task[t] = "dispatched" /\ task' = [task EXCEPT ![t] = "ready"]
    BY <1>4 DEF FailDispatch
  <2> QED BY <2>2, <2>3, OneTaskKeepsOpen DEF OpenStatuses, IInv, KeepsOpen
<1>5. CASE ReleaseContextOnlyDispatch(d)
  <2> DEFINE t == dispatch[d].task
  <2>1. t \in Tasks BY <1>5, RowOf DEF ReleaseContextOnlyDispatch
  <2>2. \/ task' = task
        \/ task[t] = "dispatched" /\ task' = [task EXCEPT ![t] = "blocked"]
    BY <1>5 DEF ReleaseContextOnlyDispatch
  <2> QED BY <2>1, <2>2, OneTaskKeepsOpen DEF OpenStatuses, IInv, KeepsOpen
<1> QED BY <1>1, <1>2, <1>3, <1>4, <1>5

LEMMA StartKeepsOpen == ASSUME IInv, StartStep PROVE KeepsOpen
<1>1. PICK d \in DispatchIds :
          \/ \E t \in Tasks, kind \in {"local", "federated"}, retryOf \in {0} \cup DispatchIds :
                 CreateStartingWorkerDispatch(d, t, kind, retryOf)
          \/ \E term \in Terminals : PrepareStartingWorkerAuthority(d, term)
          \/ MarkWorkerDispatchReady(d)
          \/ \E stalled \in BOOLEAN : FailWorkerStart(d, stalled)
          \/ MarkWorkerStartUnknown(d)
  BY DEF StartStep
<1>2. CASE \E t \in Tasks, kind \in {"local", "federated"}, retryOf \in {0} \cup DispatchIds :
               CreateStartingWorkerDispatch(d, t, kind, retryOf)
  <2>1. PICK t \in Tasks : /\ task[t] \in {"ready", "failed", "blocked"}
                           /\ task' = [task EXCEPT ![t] = "dispatched"]
    BY <1>2 DEF CreateStartingWorkerDispatch, MayStart
  <2> QED BY <2>1, OneTaskKeepsOpen DEF OpenStatuses, IInv
<1>3. CASE \/ \E term \in Terminals : PrepareStartingWorkerAuthority(d, term)
           \/ MarkWorkerDispatchReady(d)
  BY <1>3 DEF PrepareStartingWorkerAuthority, MarkWorkerDispatchReady, KeepsOpen
<1>4. CASE \/ \E stalled \in BOOLEAN : FailWorkerStart(d, stalled)
           \/ MarkWorkerStartUnknown(d)
  <2> DEFINE t == dispatch[d].task
  <2>1. worker[d] = "starting" BY <1>4 DEF FailWorkerStart, MarkWorkerStartUnknown
  <2>2. Active(d) BY <2>1 DEF IInv, StartingIsPending, Active, ActiveStatuses
  <2>3. t \in Tasks /\ task[t] \in {"dispatched", "blocked"} BY <2>2, ActiveTaskFact
  <2>4. \/ task' = task \/ task' = [task EXCEPT ![t] = "failed"]
        \/ task' = [task EXCEPT ![t] = "blocked"]
    BY <1>4 DEF FailWorkerStart, MarkWorkerStartUnknown
  <2> QED BY <2>3, <2>4, OneTaskKeepsOpen DEF OpenStatuses, IInv, KeepsOpen
<1> QED BY <1>1, <1>2, <1>3, <1>4

LEMMA StoppedKeepsOpen ==
    ASSUME IInv, NEW d \in DispatchIds, dispatch[d].task \in Tasks,
           task' = [task EXCEPT ![dispatch[d].task] = AfterInterruption(d)]
    PROVE  KeepsOpen
BY OneTaskKeepsOpen, AfterInterruptionOpen DEF IInv

LEMMA StopKeepsOpen == ASSUME IInv, StopStep PROVE KeepsOpen
<1>1. PICK d \in DispatchIds :
          \/ BeginWorkerStop(d) \/ SettleWorkerStop(d) \/ MarkWorkerStopUnknown(d)
          \/ AbandonWorkerDispatch(d) \/ ReconcileMissingWorkerTerminal(d)
  BY DEF StopStep
<1> DEFINE t == dispatch[d].task
<1>2. worker[d] # "none"
  BY <1>1 DEF BeginWorkerStop, SettleWorkerStop, MarkWorkerStopUnknown, AbandonWorkerDispatch,
              ReconcileMissingWorkerTerminal, Unsettled, UnsettledStates
<1>3. t \in Tasks BY <1>2, RowOf
<1>4. CASE BeginWorkerStop(d) \/ SettleWorkerStop(d) \/ AbandonWorkerDispatch(d)
  BY <1>3, <1>4, StoppedKeepsOpen
  DEF BeginWorkerStop, SettleWorkerStop, Stopped, AbandonWorkerDispatch
<1>5. CASE MarkWorkerStopUnknown(d)
  BY <1>5 DEF MarkWorkerStopUnknown, KeepsOpen
<1>6. CASE ReconcileMissingWorkerTerminal(d)
  <2>1. \/ task' = task
        \/ /\ task[t] \in {"dispatched", "blocked"}
           /\ \/ task' = [task EXCEPT ![t] = "failed"]
              \/ task' = [task EXCEPT ![t] = "ready"]
        \/ task' = [task EXCEPT ![t] = AfterInterruption(d)]
    BY <1>6 DEF ReconcileMissingWorkerTerminal
  <2> QED BY <1>3, <2>1, OneTaskKeepsOpen, StoppedKeepsOpen DEF OpenStatuses, IInv, KeepsOpen
<1> QED BY <1>1, <1>4, <1>5, <1>6

LEMMA FederationKeepsOpen == ASSUME IInv, FederationStep PROVE KeepsOpen
<1>1. PICK d \in DispatchIds :
          \/ ReconcileFederatedWorkerReady(d)
          \/ \E state \in {"failed", "stopped"}, cause \in {"stalled", "other"} :
                 ReconcileFederatedWorkerEnded(d, state, cause)
          \/ ReconcileFederatedWorkerStop(d)
          \/ ResumeFederatedWorkerForTerminalRelay(d)
  BY DEF FederationStep
<1> DEFINE t == dispatch[d].task
<1>2. worker[d] # "none"
  BY <1>1 DEF ReconcileFederatedWorkerReady, ReconcileFederatedWorkerEnded,
              ReconcileFederatedWorkerStop, ResumeFederatedWorkerForTerminalRelay
<1>3. t \in Tasks BY <1>2, RowOf
<1>4. CASE ReconcileFederatedWorkerReady(d) \/ ResumeFederatedWorkerForTerminalRelay(d)
  <2>1. task' = [task EXCEPT ![t] = IF task[t] = "blocked" THEN "dispatched" ELSE task[t]]
    BY <1>4 DEF ReconcileFederatedWorkerReady, ResumeFederatedWorkerForTerminalRelay
  <2> QED BY <1>3, <2>1, OneTaskKeepsOpen DEF OpenStatuses, IInv
<1>5. CASE \E state \in {"failed", "stopped"}, cause \in {"stalled", "other"} :
               ReconcileFederatedWorkerEnded(d, state, cause)
  <2>1. \/ /\ task[t] \in {"blocked", "dispatched"}
           /\ task' = [task EXCEPT ![t] = "failed"]
        \/ task' = [task EXCEPT ![t] = AfterInterruption(d)]
    BY <1>5 DEF ReconcileFederatedWorkerEnded
  <2> QED BY <1>3, <2>1, OneTaskKeepsOpen, StoppedKeepsOpen DEF OpenStatuses, IInv
<1>6. CASE ReconcileFederatedWorkerStop(d)
  BY <1>3, <1>6, StoppedKeepsOpen DEF ReconcileFederatedWorkerStop, Stopped
<1> QED BY <1>1, <1>4, <1>5, <1>6

\* The steps left: creation, and what moves a task by name.
LEMMA StepOfTheBoard ==
    ASSUME IInv, [Next]_vars
    PROVE  \/ KeepsOpen
           \/ \E t \in Tasks : CreateTask(t)
           \/ \E d \in DispatchIds, outcome \in {"succeeded", "failed"} :
                  SettleWorkerReport(d, outcome)
           \/ \E t \in Tasks, status \in OperatorStatuses : MoveTask(t, status)
           \/ \E g \in GateIds : MoveTask(gate[g].task, "ready")
           \/ \E g \in GateIds, t \in Tasks : task' = [task EXCEPT ![t] = "blocked"]
<1>1. CASE TaskStep
  BY <1>1 DEF TaskStep, UpdateTaskStatus
<1>2. CASE GateStep
  BY <1>2 DEF GateStep, CreateGate, ResolveGate, RetireGate
<1>3. CASE UNCHANGED vars
  BY <1>3 DEF vars, KeepsOpen
<1>4. CASE ReportStep
  BY <1>4 DEF ReportStep
<1> QED BY <1>1, <1>2, <1>3, <1>4, ContextKeepsOpen, StartKeepsOpen, StopKeepsOpen,
           FederationKeepsOpen DEF Next

-----------------------------------------------------------------------------
(* Waiting.                                                                   *)

\* Promotion leaves exactly those pending that still wait for something.
LEMMA MovedStrandsNone ==
    ASSUME TypeOK, NoStrandedPending, NEW t \in Tasks, NEW status \in TaskStatuses \ {"pending"},
           task' = Moved(t, status)
    PROVE  NoStrandedPending'
<1> DEFINE moved == [task EXCEPT ![t] = status]
<1>1. /\ moved \in [Tasks -> TaskStatuses \cup {"absent"}] /\ moved[t] = status
      /\ \A u \in Tasks \ {t} : moved[u] = task[u]
  BY DEF TypeOK
<1>2. task' = IF status = "completed" THEN Promote(moved, t) ELSE moved
  BY DEF Moved
<1> HIDE DEF moved
<1> SUFFICES ASSUME NEW u \in Tasks, task'[u] = "pending"
             PROVE  \E v \in Deps[u] : task'[v] # "completed"
  BY DEF NoStrandedPending
<1>3. Deps[u] \subseteq Tasks BY DepsAssumption
<1>4. u # t /\ task[u] = "pending" /\ moved[u] = "pending"
  BY <1>1, <1>2 DEF Promote
<1>5. \A v \in Tasks : moved[v] # "completed" => task'[v] # "completed"
  BY <1>1, <1>2 DEF Promote
<1>6. PICK v \in Deps[u] : task[v] # "completed" BY <1>4 DEF NoStrandedPending
<1>7. CASE status = "completed" /\ t \in Deps[u]
  <2>1. ~(\A w \in Deps[u] : moved[w] = "completed")
    BY <1>2, <1>4, <1>7 DEF Promote
  <2> QED BY <1>3, <1>5, <2>1
<1>8. CASE status # "completed" \/ t \notin Deps[u]
  <2>1. moved[v] # "completed" BY <1>1, <1>3, <1>6, <1>8
  <2> QED BY <1>3, <1>5, <1>6, <2>1
<1> QED BY <1>7, <1>8

LEMMA NextStrandsNone ==
    ASSUME "pending" \notin OperatorStatuses
    PROVE  IInv /\ NoStrandedPending /\ [Next]_vars => NoStrandedPending'
<1> SUFFICES ASSUME IInv, NoStrandedPending, [Next]_vars PROVE NoStrandedPending' OBVIOUS
<1>0. TypeOK /\ \A u \in Tasks : Deps[u] \subseteq Tasks BY DepsAssumption DEF IInv
<1>1. CASE KeepsOpen
  <2> SUFFICES ASSUME NEW u \in Tasks, task'[u] = "pending"
               PROVE  \E v \in Deps[u] : task'[v] # "completed"
    BY DEF NoStrandedPending
  <2>1. task[u] = "pending" BY <1>1 DEF KeepsOpen, OpenStatuses
  <2>2. PICK v \in Deps[u] : task[v] # "completed" BY <2>1 DEF NoStrandedPending
  <2>3. task'[v] # "completed" BY <1>0, <1>1, <2>2 DEF KeepsOpen, OpenStatuses
  <2> QED BY <2>3
<1>2. CASE \E t \in Tasks : CreateTask(t)
  <2>1. PICK t \in Tasks : CreateTask(t) BY <1>2
  <2>2. /\ task[t] = "absent" /\ \A u \in Deps[t] : task[u] # "absent"
        /\ task'[t] = InitialStatus(t) /\ \A u \in Tasks \ {t} : task'[u] = task[u]
    BY <1>0, <2>1 DEF CreateTask, TypeOK
  <2> SUFFICES ASSUME NEW u \in Tasks, task'[u] = "pending"
               PROVE  \E v \in Deps[u] : task'[v] # "completed"
    BY DEF NoStrandedPending
  <2>3. PICK v \in Deps[u] : task[v] # "completed"
    <3>1. CASE u = t BY <2>2, <3>1 DEF InitialStatus
    <3>2. CASE u # t BY <2>2, <3>2 DEF NoStrandedPending
    <3> QED BY <3>1, <3>2
  <2>4. CASE v # t BY <1>0, <2>2, <2>3, <2>4
  <2>5. CASE v = t BY <1>0, <2>2, <2>3, <2>5 DEF InitialStatus
  <2> QED BY <2>4, <2>5
<1>3. CASE \E d \in DispatchIds, outcome \in {"succeeded", "failed"} :
               SettleWorkerReport(d, outcome)
  <2>1. PICK d \in DispatchIds :
            /\ Exists(d)
            /\ task' = Moved(dispatch[d].task, "completed")
                  \/ task' = Moved(dispatch[d].task, "failed")
    BY <1>3 DEF SettleWorkerReport, AcceptsReport
  <2>2. dispatch[d].task \in Tasks BY <2>1 DEF IInv, RowsBelongToTasks
  <2>3. {"completed", "failed"} \subseteq TaskStatuses \ {"pending"} BY DEF TaskStatuses
  <2> QED BY <1>0, <2>1, <2>2, <2>3, MovedStrandsNone
<1>4. CASE \E t \in Tasks, status \in OperatorStatuses : MoveTask(t, status)
  <2>1. PICK t \in Tasks, status \in OperatorStatuses : task' = Moved(t, status)
    BY <1>4 DEF MoveTask
  <2>2. status \in TaskStatuses \ {"pending"} BY OperatorAssumption DEF TaskStatuses
  <2> QED BY <1>0, <2>1, <2>2, MovedStrandsNone
<1>5. CASE \E g \in GateIds : MoveTask(gate[g].task, "ready")
  <2>1. PICK g \in GateIds : task' = Moved(gate[g].task, "ready") BY <1>5 DEF MoveTask
  <2>2. CASE gate[g].task \in Tasks
    BY <1>0, <2>1, <2>2, MovedStrandsNone DEF TaskStatuses
  <2>3. CASE gate[g].task \notin Tasks
    <3>1. task' = task BY <1>0, <2>1, <2>3 DEF Moved, TypeOK
    <3> QED BY <3>1 DEF NoStrandedPending
  <2> QED BY <2>2, <2>3
<1>6. CASE \E g \in GateIds, t \in Tasks : task' = [task EXCEPT ![t] = "blocked"]
  <2>1. PICK t \in Tasks : task' = Moved(t, "blocked") BY <1>6 DEF Moved
  <2> QED BY <1>0, <2>1, MovedStrandsNone DEF TaskStatuses
<1> QED BY <1>1, <1>2, <1>3, <1>4, <1>5, <1>6, StepOfTheBoard

\* Whatever gates, dispatches and operators do, a pending task has a dependency that is not
\* completed, as long as no operator sets a task back to pending: promotion misses none.
THEOREM NoneStranded ==
    ASSUME "pending" \notin OperatorStatuses
    PROVE  Spec => []NoStrandedPending
<1>1. Init => NoStrandedPending BY DEF Init, NoStrandedPending
<1>2. IInv /\ NoStrandedPending /\ [Next]_vars => NoStrandedPending' BY NextStrandsNone
<1> QED BY <1>1, <1>2, Inductive, PTL DEF Spec

-----------------------------------------------------------------------------
(* Completing, when only reports complete tasks.                              *)

\* What a step then does to the tasks: completed ones stay, and one that stops waiting has
\* its dependencies completed.
GoesForward ==
    \A t \in Tasks :
        /\ task[t] = "completed" => task'[t] = "completed"
        /\ task[t] \in {"absent", "pending"} /\ task'[t] \notin {"absent", "pending"} =>
               \A u \in Deps[t] : task'[u] = "completed"

\* A task that completes does so by one dispatch, and no other is active.
CompletesByOne ==
    \A t \in Tasks : task[t] # "completed" /\ task'[t] = "completed" =>
        \E d \in DispatchIds :
            /\ ActiveOf(t) \subseteq {d}
            /\ {e \in DispatchIds : dispatch[e].task = t /\ dispatch[e].status # "completed"
                                    /\ dispatch'[e].status = "completed"} = {d}

LEMMA KeepsOpenAdvances ==
    ASSUME KeepsOpen
    PROVE  GoesForward /\ CompletesByOne
BY DEF KeepsOpen, OpenStatuses, GoesForward, CompletesByOne

LEMMA CreateTaskAdvances ==
    ASSUME TypeOK, NEW t \in Tasks, CreateTask(t)
    PROVE  GoesForward /\ CompletesByOne
<1>1. /\ task[t] = "absent" /\ \A u \in Deps[t] : task[u] # "absent"
      /\ task'[t] = InitialStatus(t) /\ \A u \in Tasks \ {t} : task'[u] = task[u]
  BY DEF CreateTask, TypeOK
<1>2. Deps[t] \subseteq Tasks \ {t} BY <1>1, DepsAssumption
<1>3. task'[t] \in {"pending", "ready"}
      /\ (task'[t] = "ready" => \A u \in Deps[t] : task'[u] = "completed")
  BY <1>1, <1>2 DEF InitialStatus
<1> QED BY <1>1, <1>3 DEF GoesForward, CompletesByOne

LEMMA SettleWorkerReportAdvances ==
    ASSUME IInv, NEW d \in DispatchIds, NEW outcome \in {"succeeded", "failed"},
           SettleWorkerReport(d, outcome)
    PROVE  GoesForward /\ CompletesByOne
<1> DEFINE t == dispatch[d].task
           settled == IF outcome = "succeeded" THEN "completed" ELSE "failed"
           row == Closed(dispatch[d], settled, "other")
           own == [dispatch EXCEPT ![d] = row]
           moved == [task EXCEPT ![t] = settled]
<1>1. /\ Exists(d) /\ task[t] \in {"failed", "dispatched"}
      /\ dispatch[d].status \in {"failed", "dispatched"}
      /\ dispatch' = SettleActive(own, t, settled)
      /\ task' = IF settled = "completed" THEN Promote(moved, t) ELSE moved
  BY DEF SettleWorkerReport, AcceptsReport, SettledByUnobservedPrompt, Moved
<1>2. /\ t \in Tasks /\ dispatch[d] \in DispatchRows
  BY <1>1 DEF IInv, TypeOK, RowsBelongToTasks
<1>3. settled \in {"completed", "failed"} OBVIOUS
<1> HIDE DEF settled
<1>4. /\ moved[t] = settled /\ \A u \in Tasks \ {t} : moved[u] = task[u]
  BY <1>2 DEF IInv, TypeOK
<1> HIDE DEF moved
<1>5. \A u \in Tasks : \/ task'[u] = moved[u]
                       \/ /\ moved[u] = "pending" /\ task'[u] = "ready"
                          /\ \A v \in Deps[u] : moved[v] = "completed"
  BY <1>1 DEF Promote
<1>6. \A u \in Tasks : moved[u] = "completed" => task'[u] = "completed" BY <1>5
<1>7. \A u \in Tasks : Deps[u] \subseteq Tasks BY DepsAssumption
<1>8. GoesForward
  <2> SUFFICES ASSUME NEW u \in Tasks
               PROVE  /\ task[u] = "completed" => task'[u] = "completed"
                      /\ task[u] \in {"absent", "pending"} /\ task'[u] \notin {"absent", "pending"}
                             => \A v \in Deps[u] : task'[v] = "completed"
    BY DEF GoesForward
  <2>1. CASE u = t BY <1>1, <2>1
  <2>2. CASE u # t BY <1>4, <1>5, <1>6, <1>7, <2>2
  <2> QED BY <2>1, <2>2
<1>9. CompletesByOne
  <2> SUFFICES ASSUME NEW u \in Tasks, task[u] # "completed", task'[u] = "completed"
               PROVE  /\ ActiveOf(u) \subseteq {d}
                      /\ {e \in DispatchIds :
                             dispatch[e].task = u /\ dispatch[e].status # "completed"
                             /\ dispatch'[e].status = "completed"} = {d}
    BY DEF CompletesByOne
  <2>1. u = t /\ settled = "completed" BY <1>3, <1>4, <1>5
  <2>2. ActiveOf(t) \subseteq {d} BY SettleWorkerReportStep DEF ReportEnds
  <2>3. row.status = settled BY <1>2, <1>3, ClosedType DEF DispatchStatuses
  <2> HIDE DEF row
  <2>4. own[d] = row /\ \A e \in DispatchIds \ {d} : own[e] = dispatch[e]
    BY DEF IInv, TypeOK
  <2> HIDE DEF own
  <2>5. \A e \in DispatchIds \ {d} : dispatch'[e] = dispatch[e]
    BY <1>1, <2>2, <2>4 DEF SettleActive, ActiveOf, Active
  <2>6. dispatch'[d] = row
    BY <1>1, <1>3, <2>3, <2>4 DEF SettleActive, ActiveStatuses
  <2> QED BY <1>1, <2>1, <2>2, <2>3, <2>5, <2>6
<1> QED BY <1>8, <1>9

LEMMA NextAdvances ==
    ASSUME OperatorStatuses = {}, MaxGates = 0
    PROVE  IInv /\ [Next]_vars => GoesForward /\ CompletesByOne
<1>1. GateIds = {} BY DEF GateIds
<1> QED BY <1>1, StepOfTheBoard, KeepsOpenAdvances, CreateTaskAdvances,
           SettleWorkerReportAdvances DEF IInv

\* Without operators and gates no late failure, exit, stop or report reopens a task that is
\* completed.
THEOREM CompletedIsFinal ==
    ASSUME OperatorStatuses = {}, MaxGates = 0
    PROVE  Spec => CompletedTaskIsFinal
<1>1. IInv /\ [Next]_vars =>
          [\A t \in Tasks : task[t] = "completed" => task'[t] = "completed"]_vars
  BY NextAdvances DEF GoesForward
<1> QED BY <1>1, Inductive, PTL DEF Spec, CompletedTaskIsFinal

\* Without operators and gates a task completes by exactly one of its dispatches, the only
\* one that may be active: the report of a superseded attempt completes nothing.
THEOREM SupersededRejected ==
    ASSUME OperatorStatuses = {}, MaxGates = 0
    PROVE  Spec => SupersededReportsAreRejected
<1>1. IInv /\ [Next]_vars =>
          [\A t \in Tasks : task[t] # "completed" /\ task'[t] = "completed" =>
              \E d \in DispatchIds :
                  /\ ActiveOf(t) \subseteq {d}
                  /\ {e \in DispatchIds : dispatch[e].task = t /\ dispatch[e].status # "completed"
                                         /\ dispatch'[e].status = "completed"} = {d}]_vars
  BY NextAdvances DEF CompletesByOne
<1> QED BY <1>1, Inductive, PTL DEF Spec, SupersededReportsAreRejected

\* Without operators and gates no task starts before all it depends on is completed, for
\* any dependency graph.
THEOREM DependenciesFirst ==
    ASSUME OperatorStatuses = {}, MaxGates = 0
    PROVE  Spec => []DependenciesRespected
<1>1. Init => DependenciesRespected BY DEF Init, DependenciesRespected
<1>2. IInv /\ DependenciesRespected /\ [Next]_vars => DependenciesRespected'
  <2>1. \A u \in Tasks : Deps[u] \subseteq Tasks BY DepsAssumption
  <2>2. DependenciesRespected /\ GoesForward => DependenciesRespected'
    BY <2>1 DEF DependenciesRespected, GoesForward
  <2> QED BY <2>2, NextAdvances
<1> QED BY <1>1, <1>2, Inductive, PTL DEF Spec
=============================================================================
