-------------------------- MODULE TaskDispatchProofs --------------------------
(***************************************************************************)
(* Proofs about the task board, for every set of tasks, dependencies and    *)
(* terminals, every number of dispatches and gates, and every behaviour of  *)
(* operators, workers, peers and restarts.                                  *)
(***************************************************************************)
EXTENDS TaskDispatch, TLAPS

-----------------------------------------------------------------------------
(* Rows. *)

LEMMA NoDispatchType == NoDispatch \in DispatchRows
BY DEF NoDispatch, DispatchRows

LEMMA ClosedType ==
    ASSUME NEW row \in DispatchRows, NEW status \in DispatchStatuses,
           NEW cause \in {"stalled", "other"}
    PROVE  /\ Closed(row, status, cause) \in DispatchRows
           /\ Closed(row, status, cause).status = status
           /\ Closed(row, status, cause).task = row.task
           /\ Closed(row, status, cause).assignee = row.assignee
<1> DEFINE lf == IF status = "completed" THEN row.lastFailure ELSE cause
           cp == Revoked(row.capability)
<1>1. lf \in {"none", "stalled", "other"} BY DEF DispatchRows
<1>2. cp \in {"none", "live", "revoked"} BY DEF DispatchRows, Revoked
<1>3. Closed(row, status, cause) =
          [row EXCEPT !.status = status, !.lastFailure = lf, !.capability = cp]
  BY DEF Closed
<1> HIDE DEF lf, cp
<1>4. [row EXCEPT !.status = status, !.lastFailure = lf, !.capability = cp] \in DispatchRows
  BY <1>1, <1>2 DEF DispatchRows
<1> QED BY <1>3, <1>4 DEF DispatchRows

LEMMA FailedType ==
    ASSUME NEW row \in DispatchRows, NEW cause \in {"stalled", "other"}
    PROVE  /\ Failed(row, cause) \in DispatchRows
           /\ Failed(row, cause).status \in {"failed", "circuit_broken"}
           /\ Failed(row, cause).task = row.task
           /\ Failed(row, cause).assignee = row.assignee
<1> DEFINE st == IF row.failures + 1 >= BreakAfter THEN "circuit_broken" ELSE "failed"
           c == Closed(row, st, cause)
<1>1. st \in {"failed", "circuit_broken"} /\ st \in DispatchStatuses BY DEF DispatchStatuses
<1>2. Failed(row, cause) = [c EXCEPT !.failures = @ + 1] BY DEF Failed
<1> HIDE DEF st
<1>3. /\ c \in DispatchRows /\ c.status = st /\ c.task = row.task
      /\ c.assignee = row.assignee
  BY <1>1, ClosedType
<1> HIDE DEF c
<1> QED BY <1>1, <1>2, <1>3 DEF DispatchRows

LEMMA SettleActiveType ==
    ASSUME NEW rows \in [DispatchIds -> DispatchRows], NEW t,
           NEW status \in {"completed", "failed"}
    PROVE  /\ SettleActive(rows, t, status) \in [DispatchIds -> DispatchRows]
           /\ \A e \in DispatchIds :
                 /\ SettleActive(rows, t, status)[e].task = rows[e].task
                 /\ SettleActive(rows, t, status)[e].assignee = rows[e].assignee
                 /\ rows[e].task = t =>
                        SettleActive(rows, t, status)[e].status \notin ActiveStatuses
                 /\ rows[e].status \notin ActiveStatuses \/ rows[e].task # t =>
                        SettleActive(rows, t, status)[e] = rows[e]
<1>1. status \in DispatchStatuses /\ status \notin ActiveStatuses
  BY DEF DispatchStatuses, ActiveStatuses
<1>2. \A e \in DispatchIds : rows[e] \in DispatchRows OBVIOUS
<1>3. \A e \in DispatchIds :
         /\ Closed(rows[e], status, "other") \in DispatchRows
         /\ Closed(rows[e], status, "other").status = status
         /\ Closed(rows[e], status, "other").task = rows[e].task
         /\ Closed(rows[e], status, "other").assignee = rows[e].assignee
  BY <1>1, <1>2, ClosedType
<1> QED BY <1>1, <1>2, <1>3 DEF SettleActive

LEMMA MovedType ==
    ASSUME task \in [Tasks -> TaskStatuses \cup {"absent"}],
           NEW t \in Tasks, NEW status \in TaskStatuses
    PROVE  Moved(t, status) \in [Tasks -> TaskStatuses \cup {"absent"}]
BY DEF Moved, Promote, TaskStatuses

LEMMA AfterInterruptionType ==
    ASSUME TypeOK, NEW d \in DispatchIds, dispatch[d].task \in Tasks
    PROVE  AfterInterruption(d) \in TaskStatuses \cup {"absent"}
BY DEF TypeOK, AfterInterruption, TaskStatuses

-----------------------------------------------------------------------------
(* Steps that hand out no claim.                                              *)

RowsShrink ==
    \A e \in DispatchIds :
        /\ dispatch'[e].task = dispatch[e].task
        /\ dispatch'[e].assignee = dispatch[e].assignee
        /\ Active(e)' => Active(e)
        /\ Exists(e)' <=> Exists(e)

LEMMA ActiveExists == \A e \in DispatchIds : Active(e) => Exists(e)
BY DEF Active, Exists, ActiveStatuses

\* What a step that hands out nothing and records no outcome does to the claims: at
\* most one of them ends.
QuietStep ==
    /\ RowsShrink
    /\ outbox' = outbox
    /\ \A e, f \in DispatchIds : Active(e) /\ ~Active(e)' /\ Active(f) /\ ~Active(f)' => e = f

\* The two active dispatches of a task are one: each is the newest.
LEMMA OnlyActive ==
    ASSUME IInv, NEW d \in DispatchIds, Active(d)
    PROVE  ActiveOf(dispatch[d].task) \ {d} = {}
<1> SUFFICES ASSUME NEW e \in ActiveOf(dispatch[d].task), e # d
             PROVE  FALSE
  OBVIOUS
<1>1. e \in DispatchIds /\ Active(e) /\ dispatch[e].task = dispatch[d].task BY DEF ActiveOf
<1>2. e > d \/ d > e BY <1>1, BoundsAssumption DEF DispatchIds
<1> QED BY <1>1, <1>2 DEF IInv, ActiveIsLatest

LEMMA ShrinkPreserves ==
    ASSUME IInv, RowsShrink,
           \A e \in DispatchIds : worker[e] = "none" => worker'[e] = "none"
    PROVE  RowsBelongToTasks' /\ ActiveIsLatest' /\ OneActiveDispatchPerTerminal'
<1>1. RowsBelongToTasks'
  BY DEF IInv, RowsBelongToTasks, RowsShrink
<1>2. ActiveIsLatest'
  BY DEF IInv, ActiveIsLatest, RowsShrink
<1>3. OneActiveDispatchPerTerminal'
  <2> SUFFICES ASSUME NEW term \in Terminals, NEW d \in Occupied(term)',
                      NEW e \in Occupied(term)'
               PROVE  d = e
    BY DEF OneActiveDispatchPerTerminal
  <2>1. d \in Occupied(term) /\ e \in Occupied(term)
    BY DEF Occupied, RowsShrink
  <2> QED BY <2>1 DEF IInv, OneActiveDispatchPerTerminal
<1> QED BY <1>1, <1>2, <1>3

\* A step that ends dispatch d and touches no other row or worker keeps the invariant
\* if it leaves d's task alone or dispatched while another dispatch of it is active.
LEMMA ClosingPreserves ==
    ASSUME IInv, TypeOK', outbox' = outbox, RowsShrink, NEW d \in DispatchIds,
           \A e \in DispatchIds \ {d} : worker'[e] = worker[e] /\ dispatch'[e] = dispatch[e],
           ~Active(d)', worker'[d] \notin {"starting", "start_unknown"},
           worker[d] = "none" => worker'[d] = "none",
           \A u \in Tasks \ {dispatch[d].task} : task'[u] = task[u],
           ActiveOf(dispatch[d].task) \ {d} # {} =>
               task'[dispatch[d].task] \in {"dispatched", task[dispatch[d].task]}
    PROVE  IInv' /\ QuietStep
<1>1. RowsBelongToTasks' /\ ActiveIsLatest' /\ OneActiveDispatchPerTerminal'
  BY ShrinkPreserves
<1>2. StartingIsPending'
  BY DEF IInv, StartingIsPending
<1>3. SettledWorkerHoldsNothing'
  BY DEF IInv, SettledWorkerHoldsNothing, Active
<1>4. ActiveDispatchHoldsTask'
  <2> SUFFICES ASSUME NEW e \in DispatchIds, Active(e)'
               PROVE  \/ task'[dispatch'[e].task] = "dispatched"
                      \/ /\ task'[dispatch'[e].task] = "blocked"
                         /\ worker'[e] \in {"start_unknown", "stopping", "stop_unknown"}
    BY DEF ActiveDispatchHoldsTask
  <2>1. e # d /\ Active(e) /\ worker'[e] = worker[e] /\ dispatch'[e].task = dispatch[e].task
    BY DEF RowsShrink
  <2>2. dispatch[e].task \in Tasks
    BY <2>1, ActiveExists DEF IInv, RowsBelongToTasks
  <2>3. task'[dispatch[e].task] \in {"dispatched", task[dispatch[e].task]}
    <3>1. CASE dispatch[e].task = dispatch[d].task
      <4>1. e \in ActiveOf(dispatch[d].task) \ {d} BY <2>1, <3>1 DEF ActiveOf
      <4> QED BY <4>1, <3>1
    <3>2. CASE dispatch[e].task # dispatch[d].task
      BY <3>2, <2>2
    <3> QED BY <3>1, <3>2
  <2> QED BY <2>1, <2>3 DEF IInv, ActiveDispatchHoldsTask
<1>5. QuietStep BY DEF QuietStep, Active
<1> QED BY <1>1, <1>2, <1>3, <1>4, <1>5 DEF IInv

-----------------------------------------------------------------------------
(* Steps that end one dispatch.                                               *)

\* What the invariant says of the row a step is about.
LEMMA RowOf ==
    ASSUME IInv, NEW d \in DispatchIds, Active(d) \/ worker[d] # "none"
    PROVE  /\ Exists(d)
           /\ dispatch[d].task \in Tasks
           /\ dispatch[d] \in DispatchRows
BY ActiveExists DEF IInv, TypeOK, RowsBelongToTasks

\* The new row of d, when it keeps its task and its terminal and is not active.
LEMMA ClosedRowShrinks ==
    ASSUME IInv, NEW d \in DispatchIds, NEW row \in DispatchRows, Exists(d),
           dispatch' = [dispatch EXCEPT ![d] = row],
           row.task = dispatch[d].task, row.assignee = dispatch[d].assignee,
           row.status \in DispatchStatuses \ ActiveStatuses
    PROVE  /\ dispatch' \in [DispatchIds -> DispatchRows]
           /\ RowsShrink
           /\ ~Active(d)'
           /\ \A e \in DispatchIds \ {d} : dispatch'[e] = dispatch[e]
<1>1. dispatch \in [DispatchIds -> DispatchRows] BY DEF IInv, TypeOK
<1>2. /\ dispatch' \in [DispatchIds -> DispatchRows]
      /\ dispatch'[d] = row
      /\ \A e \in DispatchIds \ {d} : dispatch'[e] = dispatch[e]
  BY <1>1
<1>3. "absent" \notin DispatchStatuses BY DEF DispatchStatuses, ActiveStatuses
<1> QED BY <1>2, <1>3 DEF RowsShrink, Active, Exists

LEMMA FailDispatchStep ==
    ASSUME IInv, NEW d \in DispatchIds, NEW exited \in BOOLEAN,
           NEW cause \in {"stalled", "other"}, FailDispatch(d, exited, cause)
    PROVE  IInv' /\ QuietStep
<1> DEFINE row == Failed(dispatch[d], cause)
<1>1. /\ Active(d) /\ dispatch' = [dispatch EXCEPT ![d] = row]
      /\ worker' = WorkerAfterFailure(d, exited)
      /\ UNCHANGED <<gate, outbox>>
  BY DEF FailDispatch
<1>2. Exists(d) /\ dispatch[d].task \in Tasks /\ dispatch[d] \in DispatchRows
  BY <1>1, RowOf
<1>3. /\ row \in DispatchRows /\ row.status \in DispatchStatuses \ ActiveStatuses
      /\ row.task = dispatch[d].task /\ row.assignee = dispatch[d].assignee
  BY <1>2, FailedType DEF DispatchStatuses, ActiveStatuses
<1>4. task' \in [Tasks -> TaskStatuses \cup {"absent"}]
  BY <1>2 DEF FailDispatch, IInv, TypeOK, TaskStatuses
<1>5. \A u \in Tasks \ {dispatch[d].task} : task'[u] = task[u]
  BY <1>2 DEF FailDispatch, IInv, TypeOK
<1>6. ActiveOf(dispatch[d].task) \ {d} # {} => task' = task
  BY DEF FailDispatch
<1> HIDE DEF row
<1>7. /\ dispatch' \in [DispatchIds -> DispatchRows] /\ RowsShrink /\ ~Active(d)'
      /\ \A e \in DispatchIds \ {d} : dispatch'[e] = dispatch[e]
  BY <1>1, <1>2, <1>3, ClosedRowShrinks
<1>8. /\ worker' \in [DispatchIds -> SettledStates \cup UnsettledStates \cup {"none"}]
      /\ \A e \in DispatchIds \ {d} : worker'[e] = worker[e]
      /\ worker[d] = "none" => worker'[d] = "none"
  BY <1>1 DEF WorkerAfterFailure, Unsettled, UnsettledStates, SettledStates, IInv, TypeOK
<1>9. TypeOK' BY <1>1, <1>4, <1>7, <1>8 DEF IInv, TypeOK
<1>10. worker'[d] \notin {"starting", "start_unknown"}
  <2>1. CASE exited
    BY <1>1, <2>1 DEF WorkerAfterFailure, Unsettled, UnsettledStates, IInv, TypeOK
  <2>2. CASE ~exited
    BY <1>1, <2>2 DEF FailDispatch, WorkerAfterFailure, Unsettled, UnsettledStates
  <2> QED BY <2>1, <2>2
<1> QED BY <1>1, <1>5, <1>6, <1>7, <1>8, <1>9, <1>10, ClosingPreserves

LEMMA ReleaseContextOnlyDispatchStep ==
    ASSUME IInv, NEW d \in DispatchIds, ReleaseContextOnlyDispatch(d)
    PROVE  IInv' /\ QuietStep
<1> DEFINE row == Closed(dispatch[d], "failed", "other")
<1>1. /\ Active(d) /\ dispatch' = [dispatch EXCEPT ![d] = row]
      /\ worker[d] = "none" /\ UNCHANGED <<worker, gate, outbox>>
  BY DEF ReleaseContextOnlyDispatch
<1>2. Exists(d) /\ dispatch[d].task \in Tasks /\ dispatch[d] \in DispatchRows
  BY <1>1, RowOf
<1>3. /\ row \in DispatchRows /\ row.status \in DispatchStatuses \ ActiveStatuses
      /\ row.task = dispatch[d].task /\ row.assignee = dispatch[d].assignee
  <2>1. "failed" \in DispatchStatuses \ ActiveStatuses BY DEF DispatchStatuses, ActiveStatuses
  <2> QED BY <1>2, <2>1, ClosedType
<1>4. task' \in [Tasks -> TaskStatuses \cup {"absent"}]
  BY <1>2 DEF ReleaseContextOnlyDispatch, IInv, TypeOK, TaskStatuses
<1>5. \A u \in Tasks \ {dispatch[d].task} : task'[u] = task[u]
  BY <1>2 DEF ReleaseContextOnlyDispatch, IInv, TypeOK
<1>6. ActiveOf(dispatch[d].task) \ {d} # {} => task' = task
  BY DEF ReleaseContextOnlyDispatch
<1> HIDE DEF row
<1>7. /\ dispatch' \in [DispatchIds -> DispatchRows] /\ RowsShrink /\ ~Active(d)'
      /\ \A e \in DispatchIds \ {d} : dispatch'[e] = dispatch[e]
  BY <1>1, <1>2, <1>3, ClosedRowShrinks
<1>9. TypeOK' BY <1>1, <1>4, <1>7 DEF IInv, TypeOK
<1> QED BY <1>1, <1>5, <1>6, <1>7, <1>9, ClosingPreserves

LEMMA FailWorkerStartStep ==
    ASSUME IInv, NEW d \in DispatchIds, NEW stalled \in BOOLEAN, FailWorkerStart(d, stalled)
    PROVE  IInv' /\ QuietStep
<1> DEFINE lf == IF stalled THEN "stalled" ELSE "other"
           cp == IF stalled THEN dispatch[d].capability ELSE Revoked(dispatch[d].capability)
           row == [dispatch[d] EXCEPT !.status = "failed", !.lastFailure = lf, !.capability = cp]
<1>1. /\ worker[d] = "starting" /\ worker' = [worker EXCEPT ![d] = "failed"]
      /\ UNCHANGED <<gate, outbox>>
  BY DEF FailWorkerStart
<1>2. Exists(d) /\ dispatch[d].task \in Tasks /\ dispatch[d] \in DispatchRows
  BY <1>1, RowOf
<1>3. dispatch' = [dispatch EXCEPT ![d] = row]
  BY DEF FailWorkerStart, IInv, TypeOK
<1>4. /\ row \in DispatchRows /\ row.status \in DispatchStatuses \ ActiveStatuses
      /\ row.task = dispatch[d].task /\ row.assignee = dispatch[d].assignee
  <2>1. lf \in {"none", "stalled", "other"} /\ cp \in {"none", "live", "revoked"}
    BY <1>2 DEF Revoked, DispatchRows
  <2>2. "failed" \in DispatchStatuses \ ActiveStatuses BY DEF DispatchStatuses, ActiveStatuses
  <2> HIDE DEF lf, cp
  <2> QED BY <1>2, <2>1, <2>2 DEF DispatchRows
<1>5. /\ task' \in [Tasks -> TaskStatuses \cup {"absent"}]
      /\ \A u \in Tasks \ {dispatch[d].task} : task'[u] = task[u]
      /\ ActiveOf(dispatch[d].task) \ {d} # {} => task' = task
  BY <1>2 DEF FailWorkerStart, IInv, TypeOK, TaskStatuses
<1> HIDE DEF row
<1>6. /\ dispatch' \in [DispatchIds -> DispatchRows] /\ RowsShrink /\ ~Active(d)'
      /\ \A e \in DispatchIds \ {d} : dispatch'[e] = dispatch[e]
  BY <1>2, <1>3, <1>4, ClosedRowShrinks
<1>7. /\ worker' \in [DispatchIds -> SettledStates \cup UnsettledStates \cup {"none"}]
      /\ worker'[d] = "failed"
      /\ \A e \in DispatchIds \ {d} : worker'[e] = worker[e]
  BY <1>1 DEF SettledStates, IInv, TypeOK
<1>8. TypeOK' BY <1>1, <1>5, <1>6, <1>7 DEF IInv, TypeOK
<1> QED BY <1>1, <1>5, <1>6, <1>7, <1>8, ClosingPreserves

\* A task with another active dispatch stays where it is or is dispatched again.
LEMMA AfterInterruptionHolds ==
    ASSUME NEW d \in DispatchIds, ActiveOf(dispatch[d].task) \ {d} # {}
    PROVE  AfterInterruption(d) \in {"dispatched", task[dispatch[d].task]}
BY DEF AfterInterruption

\* Both ways a stop settles.
LEMMA StoppedStep ==
    ASSUME IInv, NEW d \in DispatchIds, worker[d] \in {"stopping", "stop_unknown"}, Stopped(d)
    PROVE  IInv' /\ QuietStep
<1> DEFINE t == dispatch[d].task
           row == [dispatch[d] EXCEPT !.status = "failed", !.lastFailure = "other"]
<1>1. /\ worker' = [worker EXCEPT ![d] = "stopped"]
      /\ task' = [task EXCEPT ![t] = AfterInterruption(d)]
      /\ UNCHANGED <<gate, outbox>>
  BY DEF Stopped
<1>2. Exists(d) /\ t \in Tasks /\ dispatch[d] \in DispatchRows
  BY RowOf
<1>3. AfterInterruption(d) \in TaskStatuses \cup {"absent"}
  BY <1>2, AfterInterruptionType DEF IInv
<1>4. /\ task' \in [Tasks -> TaskStatuses \cup {"absent"}]
      /\ \A u \in Tasks \ {t} : task'[u] = task[u]
      /\ ActiveOf(t) \ {d} # {} => task'[t] \in {"dispatched", task[t]}
  BY <1>1, <1>2, <1>3, AfterInterruptionHolds DEF IInv, TypeOK
<1>5. /\ dispatch' \in [DispatchIds -> DispatchRows] /\ RowsShrink /\ ~Active(d)'
      /\ \A e \in DispatchIds \ {d} : dispatch'[e] = dispatch[e]
  <2>1. CASE Active(d)
    <3>1. dispatch' = [dispatch EXCEPT ![d] = row]
      BY <2>1 DEF Stopped, RowsAfterStop, IInv, TypeOK
    <3>2. /\ row \in DispatchRows /\ row.status \in DispatchStatuses \ ActiveStatuses
          /\ row.task = dispatch[d].task /\ row.assignee = dispatch[d].assignee
      <4>1. "failed" \in DispatchStatuses \ ActiveStatuses
        BY DEF DispatchStatuses, ActiveStatuses
      <4> QED BY <1>2, <4>1 DEF DispatchRows
    <3> HIDE DEF row
    <3> QED BY <1>2, <3>1, <3>2, ClosedRowShrinks
  <2>2. CASE ~Active(d)
    <3>1. dispatch' = dispatch BY <2>2 DEF Stopped, RowsAfterStop
    <3> QED BY <2>2, <3>1 DEF IInv, TypeOK, RowsShrink, Active, Exists
  <2> QED BY <2>1, <2>2
<1>6. /\ worker' \in [DispatchIds -> SettledStates \cup UnsettledStates \cup {"none"}]
      /\ worker'[d] = "stopped"
      /\ \A e \in DispatchIds \ {d} : worker'[e] = worker[e]
  BY <1>1 DEF SettledStates, IInv, TypeOK
<1>7. TypeOK' BY <1>1, <1>4, <1>5, <1>6 DEF IInv, TypeOK
<1> QED BY <1>1, <1>4, <1>5, <1>6, <1>7, ClosingPreserves

LEMMA AbandonWorkerDispatchStep ==
    ASSUME IInv, NEW d \in DispatchIds, AbandonWorkerDispatch(d)
    PROVE  IInv' /\ QuietStep
<1> DEFINE t == dispatch[d].task
           st == IF Active(d) THEN "failed" ELSE dispatch[d].status
           cp == Revoked(dispatch[d].capability)
           row == [dispatch[d] EXCEPT !.status = st, !.capability = cp]
<1>1. /\ worker[d] # "none" /\ worker' = [worker EXCEPT ![d] = "abandoned"]
      /\ task' = [task EXCEPT ![t] = AfterInterruption(d)]
      /\ UNCHANGED <<gate, outbox>>
  BY DEF AbandonWorkerDispatch
<1>2. Exists(d) /\ t \in Tasks /\ dispatch[d] \in DispatchRows
  BY <1>1, RowOf
<1>3. dispatch' = [dispatch EXCEPT ![d] = row]
  BY DEF AbandonWorkerDispatch, IInv, TypeOK
<1>4. /\ row \in DispatchRows /\ row.status \in DispatchStatuses \ ActiveStatuses
      /\ row.task = dispatch[d].task /\ row.assignee = dispatch[d].assignee
  <2>1. cp \in {"none", "live", "revoked"} BY <1>2 DEF Revoked, DispatchRows
  <2>2. st \in DispatchStatuses \ ActiveStatuses
    BY <1>2 DEF DispatchStatuses, ActiveStatuses, Active, Exists, DispatchRows
  <2> HIDE DEF st, cp
  <2> QED BY <1>2, <2>1, <2>2 DEF DispatchRows
<1> HIDE DEF row
<1>5. /\ dispatch' \in [DispatchIds -> DispatchRows] /\ RowsShrink /\ ~Active(d)'
      /\ \A e \in DispatchIds \ {d} : dispatch'[e] = dispatch[e]
  BY <1>2, <1>3, <1>4, ClosedRowShrinks
<1>6. AfterInterruption(d) \in TaskStatuses \cup {"absent"}
  BY <1>2, AfterInterruptionType DEF IInv
<1>7. /\ task' \in [Tasks -> TaskStatuses \cup {"absent"}]
      /\ \A u \in Tasks \ {t} : task'[u] = task[u]
      /\ ActiveOf(t) \ {d} # {} => task'[t] \in {"dispatched", task[t]}
  BY <1>1, <1>2, <1>6, AfterInterruptionHolds DEF IInv, TypeOK
<1>8. /\ worker' \in [DispatchIds -> SettledStates \cup UnsettledStates \cup {"none"}]
      /\ worker'[d] = "abandoned"
      /\ \A e \in DispatchIds \ {d} : worker'[e] = worker[e]
  BY <1>1 DEF SettledStates, IInv, TypeOK
<1>9. TypeOK' BY <1>1, <1>5, <1>7, <1>8 DEF IInv, TypeOK
<1> QED BY <1>1, <1>5, <1>7, <1>8, <1>9, ClosingPreserves

LEMMA ReconcileMissingWorkerTerminalStep ==
    ASSUME IInv, NEW d \in DispatchIds, ReconcileMissingWorkerTerminal(d)
    PROVE  IInv' /\ QuietStep
<1> DEFINE t == dispatch[d].task
           row == Failed(dispatch[d], "other")
           end == IF worker[d] \in {"stopping", "stop_unknown"} THEN "stopped" ELSE "abandoned"
<1>1. /\ Active(d) /\ Unsettled(d) /\ dispatch' = [dispatch EXCEPT ![d] = row]
      /\ worker' = [worker EXCEPT ![d] = end]
      /\ UNCHANGED <<gate, outbox>>
  BY DEF ReconcileMissingWorkerTerminal
<1>2. Exists(d) /\ t \in Tasks /\ dispatch[d] \in DispatchRows
  BY <1>1, RowOf
<1>3. /\ row \in DispatchRows /\ row.status \in DispatchStatuses \ ActiveStatuses
      /\ row.task = dispatch[d].task /\ row.assignee = dispatch[d].assignee
  <2>1. "other" \in {"stalled", "other"} OBVIOUS
  <2> QED BY <1>2, <2>1, FailedType DEF DispatchStatuses, ActiveStatuses
<1>4. AfterInterruption(d) \in TaskStatuses \cup {"absent"}
  BY <1>2, AfterInterruptionType DEF IInv
<1>5. /\ task' \in [Tasks -> TaskStatuses \cup {"absent"}]
      /\ \A u \in Tasks \ {t} : task'[u] = task[u]
      /\ ActiveOf(t) \ {d} # {} => task'[t] \in {"dispatched", task[t]}
  BY <1>2, <1>4, AfterInterruptionHolds
  DEF ReconcileMissingWorkerTerminal, IInv, TypeOK, TaskStatuses
<1> HIDE DEF row
<1>6. /\ dispatch' \in [DispatchIds -> DispatchRows] /\ RowsShrink /\ ~Active(d)'
      /\ \A e \in DispatchIds \ {d} : dispatch'[e] = dispatch[e]
  BY <1>1, <1>2, <1>3, ClosedRowShrinks
<1>7. /\ worker' \in [DispatchIds -> SettledStates \cup UnsettledStates \cup {"none"}]
      /\ worker'[d] \in {"stopped", "abandoned"}
      /\ \A e \in DispatchIds \ {d} : worker'[e] = worker[e]
  BY <1>1 DEF SettledStates, IInv, TypeOK
<1>8. worker[d] # "none" BY <1>1 DEF Unsettled, UnsettledStates
<1>9. TypeOK' BY <1>1, <1>5, <1>6, <1>7 DEF IInv, TypeOK
<1> QED BY <1>1, <1>5, <1>6, <1>7, <1>8, <1>9, ClosingPreserves

LEMMA ReconcileFederatedWorkerEndedStep ==
    ASSUME IInv, NEW d \in DispatchIds, NEW state \in {"failed", "stopped"},
           NEW cause \in {"stalled", "other"}, ReconcileFederatedWorkerEnded(d, state, cause)
    PROVE  IInv' /\ QuietStep
<1> DEFINE t == dispatch[d].task
           row == Closed(dispatch[d], "failed", cause)
<1>1. /\ worker[d] \in {"starting", "start_unknown"}
      /\ worker' = [worker EXCEPT ![d] = state]
      /\ UNCHANGED <<gate, outbox>>
  BY DEF ReconcileFederatedWorkerEnded
<1>2. Exists(d) /\ t \in Tasks /\ dispatch[d] \in DispatchRows
  BY <1>1, RowOf
<1>3. /\ row \in DispatchRows /\ row.status \in DispatchStatuses \ ActiveStatuses
      /\ row.task = dispatch[d].task /\ row.assignee = dispatch[d].assignee
  <2>1. "failed" \in DispatchStatuses \ ActiveStatuses BY DEF DispatchStatuses, ActiveStatuses
  <2> QED BY <1>2, <2>1, ClosedType
<1> HIDE DEF row
<1>4. Active(d)
  BY <1>1 DEF IInv, StartingIsPending, Active, ActiveStatuses
<1>5. dispatch' = [dispatch EXCEPT ![d] = row]
  BY <1>4 DEF ReconcileFederatedWorkerEnded, row
<1>6. /\ dispatch' \in [DispatchIds -> DispatchRows] /\ RowsShrink /\ ~Active(d)'
      /\ \A e \in DispatchIds \ {d} : dispatch'[e] = dispatch[e]
  BY <1>2, <1>3, <1>5, ClosedRowShrinks
<1>7. AfterInterruption(d) \in TaskStatuses \cup {"absent"}
  BY <1>2, AfterInterruptionType DEF IInv
<1>8. /\ task' \in [Tasks -> TaskStatuses \cup {"absent"}]
      /\ \A u \in Tasks \ {t} : task'[u] = task[u]
      /\ ActiveOf(t) \ {d} # {} => task'[t] \in {"dispatched", task[t]}
  BY <1>2, <1>7, AfterInterruptionHolds
  DEF ReconcileFederatedWorkerEnded, IInv, TypeOK, TaskStatuses
<1>9. /\ worker' \in [DispatchIds -> SettledStates \cup UnsettledStates \cup {"none"}]
      /\ worker'[d] = state
      /\ \A e \in DispatchIds \ {d} : worker'[e] = worker[e]
  BY <1>1 DEF SettledStates, IInv, TypeOK
<1>10. TypeOK' BY <1>1, <1>6, <1>8, <1>9 DEF IInv, TypeOK
<1> QED BY <1>1, <1>6, <1>8, <1>9, <1>10, ClosingPreserves

-----------------------------------------------------------------------------
(* Steps that end every dispatch of one task.                                 *)

LEMMA ActiveTaskFact ==
    ASSUME IInv, NEW e \in DispatchIds, Active(e)
    PROVE  task[dispatch[e].task] \in {"dispatched", "blocked"} /\ dispatch[e].task \in Tasks
BY ActiveExists DEF IInv, ActiveDispatchHoldsTask, RowsBelongToTasks

\* Promotion reaches pending tasks only, and those have no active dispatch.
LEMMA MovedElsewhere ==
    ASSUME TypeOK, NEW t \in Tasks, NEW status \in TaskStatuses, NEW u \in Tasks, u # t,
           task[u] # "pending"
    PROVE  Moved(t, status)[u] = task[u]
BY DEF Moved, Promote, TypeOK

\* The board after task t moved to status and, when that is an outcome, every active
\* dispatch of t was settled.
LEMMA MoveTaskPreserves ==
    ASSUME IInv, NEW t \in Tasks, NEW status \in TaskStatuses, MoveTask(t, status),
           worker' = worker, gate' \in [GateIds -> GateRows], outbox' = outbox
    PROVE  IInv' /\ QuietStep
<1>1. task' = Moved(t, status) /\ MayMove(t, status) BY DEF MoveTask
<1>2. task' \in [Tasks -> TaskStatuses \cup {"absent"}]
  BY <1>1, MovedType DEF IInv, TypeOK
<1>3. task'[t] = status
  BY <1>1 DEF Moved, Promote, IInv, TypeOK
<1>4. CASE status \in {"completed", "failed"}
  <2>1. dispatch' = SettleActive(dispatch, t, status) BY <1>4 DEF MoveTask
  <2>2. dispatch \in [DispatchIds -> DispatchRows] BY DEF IInv, TypeOK
  <2>3. /\ dispatch' \in [DispatchIds -> DispatchRows]
        /\ \A e \in DispatchIds :
              /\ dispatch'[e].task = dispatch[e].task
              /\ dispatch'[e].assignee = dispatch[e].assignee
              /\ dispatch[e].task = t => dispatch'[e].status \notin ActiveStatuses
              /\ dispatch[e].status \notin ActiveStatuses \/ dispatch[e].task # t =>
                     dispatch'[e] = dispatch[e]
    BY <1>4, <2>1, <2>2, SettleActiveType
  <2>4. \A e \in DispatchIds : Exists(e)' <=> Exists(e)
    BY <1>4, <2>1 DEF SettleActive, Closed, Exists, ActiveStatuses, IInv, TypeOK, DispatchRows
  <2>5. RowsShrink BY <2>3, <2>4 DEF RowsShrink, Active
  <2>6. TypeOK' BY <1>2, <2>3 DEF IInv, TypeOK
  <2>7. RowsBelongToTasks' /\ ActiveIsLatest' /\ OneActiveDispatchPerTerminal'
    BY <2>5, ShrinkPreserves
  <2>8. ActiveWorkers(t) = {} BY <1>1, <1>4 DEF MayMove
  <2>9. StartingIsPending'
    BY <2>3, <2>8 DEF IInv, StartingIsPending, ActiveWorkers, ActiveOf, Active, Unsettled,
                      UnsettledStates
  <2>10. SettledWorkerHoldsNothing'
    BY <2>5 DEF IInv, SettledWorkerHoldsNothing, RowsShrink
  <2>11. ActiveDispatchHoldsTask'
    <3> SUFFICES ASSUME NEW e \in DispatchIds, Active(e)'
                 PROVE  \/ task'[dispatch'[e].task] = "dispatched"
                        \/ /\ task'[dispatch'[e].task] = "blocked"
                           /\ worker'[e] \in {"start_unknown", "stopping", "stop_unknown"}
      BY DEF ActiveDispatchHoldsTask
    <3>1. Active(e) /\ dispatch'[e].task = dispatch[e].task /\ dispatch[e].task # t
      BY <2>3, <2>5 DEF RowsShrink, Active
    <3>2. task'[dispatch[e].task] = task[dispatch[e].task]
      BY <1>1, <3>1, ActiveTaskFact, MovedElsewhere DEF IInv
    <3> QED BY <3>1, <3>2 DEF IInv, ActiveDispatchHoldsTask
  <2>12. QuietStep BY <2>3, <2>5, OnlyActive DEF QuietStep, ActiveOf, Active
  <2> QED BY <2>6, <2>7, <2>9, <2>10, <2>11, <2>12 DEF IInv
<1>5. CASE status \notin {"completed", "failed"}
  <2>1. dispatch' = dispatch BY <1>5 DEF MoveTask
  <2>2. task' = [task EXCEPT ![t] = status] BY <1>1, <1>5 DEF Moved
  <2>3. TypeOK' BY <1>2, <2>1 DEF IInv, TypeOK
  <2>4. ActiveDispatchHoldsTask'
    <3> SUFFICES ASSUME NEW e \in DispatchIds, Active(e)
                 PROVE  \/ task'[dispatch[e].task] = "dispatched"
                        \/ /\ task'[dispatch[e].task] = "blocked"
                           /\ worker[e] \in {"start_unknown", "stopping", "stop_unknown"}
      BY <2>1 DEF ActiveDispatchHoldsTask, Active
    <3>1. CASE dispatch[e].task = t
      <4>1. ActiveOf(t) # {} BY <3>1 DEF ActiveOf
      <4>2. status = "dispatched" BY <1>1, <1>5, <4>1 DEF MayMove, TaskStatuses
      <4> QED BY <1>3, <3>1, <4>2
    <3>2. CASE dispatch[e].task # t
      BY <2>2, <3>2, ActiveTaskFact DEF IInv, TypeOK, ActiveDispatchHoldsTask
    <3> QED BY <3>1, <3>2
  <2>5. QuietStep BY <2>1 DEF QuietStep, RowsShrink, Active, Exists
  <2> QED BY <2>1, <2>3, <2>4, <2>5
      DEF IInv, RowsBelongToTasks, StartingIsPending, ActiveIsLatest, Exists, Active,
          SettledWorkerHoldsNothing, OneActiveDispatchPerTerminal, Occupied
<1> QED BY <1>4, <1>5

LEMMA UpdateTaskStatusStep ==
    ASSUME IInv, NEW t \in Tasks, NEW status \in TaskStatuses, UpdateTaskStatus(t, status)
    PROVE  IInv' /\ QuietStep
BY MoveTaskPreserves DEF UpdateTaskStatus, IInv, TypeOK

\* A gate answered by anyone, pending or not.
LEMMA AnswerStep ==
    ASSUME IInv, NEW g \in GateIds, ResolveGate(g) \/ RetireGate(g)
    PROVE  IInv' /\ QuietStep
<1>1. /\ gate[g].status # "absent" /\ MoveTask(gate[g].task, "ready")
      /\ gate' = [gate EXCEPT ![g].status = "resolved"]
      /\ worker' = worker /\ outbox' = outbox
  BY DEF ResolveGate, RetireGate
<1>2. gate' \in [GateIds -> GateRows]
  BY <1>1 DEF IInv, TypeOK, GateRows
<1>3. CASE gate[g].task \in Tasks
  <2>1. "ready" \in TaskStatuses BY DEF TaskStatuses
  <2> QED BY <1>1, <1>2, <1>3, <2>1, MoveTaskPreserves
<1>4. CASE gate[g].task \notin Tasks
  <2>1. dispatch' = dispatch BY <1>1 DEF MoveTask
  <2>2. task' = task
    BY <1>1, <1>4 DEF MoveTask, Moved, IInv, TypeOK
  <2>3. QuietStep BY <1>1, <2>1 DEF QuietStep, RowsShrink, Active, Exists
  <2> QED BY <1>1, <1>2, <2>1, <2>2, <2>3
      DEF IInv, TypeOK, RowsBelongToTasks, StartingIsPending, ActiveIsLatest, Exists, Active,
          SettledWorkerHoldsNothing, OneActiveDispatchPerTerminal, Occupied,
          ActiveDispatchHoldsTask
<1> QED BY <1>3, <1>4

LEMMA CreateGateStep ==
    ASSUME IInv, NEW g \in GateIds, NEW t \in Tasks, NEW fromWorker \in BOOLEAN,
           CreateGate(g, t, fromWorker)
    PROVE  IInv' /\ QuietStep
<1>1. /\ ActiveWorkers(t) = {}
      /\ gate' = [gate EXCEPT ![g] = [task |-> t, status |-> "pending"]]
      /\ dispatch' = SettleActive(dispatch, t, "completed")
      /\ task' = [task EXCEPT ![t] = "blocked"]
      /\ worker' = worker /\ outbox' = outbox
  BY DEF CreateGate
<1>2. dispatch \in [DispatchIds -> DispatchRows] BY DEF IInv, TypeOK
<1>3. /\ dispatch' \in [DispatchIds -> DispatchRows]
      /\ \A e \in DispatchIds :
            /\ dispatch'[e].task = dispatch[e].task
            /\ dispatch'[e].assignee = dispatch[e].assignee
            /\ dispatch[e].task = t => dispatch'[e].status \notin ActiveStatuses
            /\ dispatch[e].status \notin ActiveStatuses \/ dispatch[e].task # t =>
                   dispatch'[e] = dispatch[e]
  BY <1>1, <1>2, SettleActiveType
<1>4. \A e \in DispatchIds : Exists(e)' <=> Exists(e)
  BY <1>1 DEF SettleActive, Closed, Exists, ActiveStatuses, IInv, TypeOK, DispatchRows
<1>5. RowsShrink BY <1>3, <1>4 DEF RowsShrink, Active
<1>6. TypeOK' BY <1>1, <1>3 DEF IInv, TypeOK, TaskStatuses, GateRows
<1>7. RowsBelongToTasks' /\ ActiveIsLatest' /\ OneActiveDispatchPerTerminal'
  BY <1>1, <1>5, ShrinkPreserves
<1>8. StartingIsPending'
  BY <1>1, <1>3 DEF IInv, StartingIsPending, ActiveWorkers, ActiveOf, Active, Unsettled,
                    UnsettledStates
<1>9. SettledWorkerHoldsNothing'
  BY <1>1, <1>5 DEF IInv, SettledWorkerHoldsNothing, RowsShrink
<1>10. ActiveDispatchHoldsTask'
  <2> SUFFICES ASSUME NEW e \in DispatchIds, Active(e)'
               PROVE  \/ task'[dispatch'[e].task] = "dispatched"
                      \/ /\ task'[dispatch'[e].task] = "blocked"
                         /\ worker'[e] \in {"start_unknown", "stopping", "stop_unknown"}
    BY DEF ActiveDispatchHoldsTask
  <2>1. Active(e) /\ dispatch'[e].task = dispatch[e].task /\ dispatch[e].task # t
    BY <1>3, <1>5 DEF RowsShrink, Active
  <2>2. task'[dispatch[e].task] = task[dispatch[e].task]
    BY <1>1, <2>1, ActiveTaskFact DEF IInv, TypeOK
  <2> QED BY <1>1, <2>1, <2>2 DEF IInv, ActiveDispatchHoldsTask
<1>11. QuietStep BY <1>1, <1>3, <1>5, OnlyActive DEF QuietStep, ActiveOf, Active
<1> QED BY <1>6, <1>7, <1>8, <1>9, <1>10, <1>11 DEF IInv

\* What a report does to the claims: its own ends, and no other was held for the task.
ReportEnds(d) ==
    /\ RowsShrink
    /\ Exists(d) /\ ~Active(d)'
    /\ ActiveOf(dispatch[d].task) \subseteq {d}
    /\ \A e \in DispatchIds \ {d} : Active(e)' <=> Active(e)

\* The report closes its own dispatch first and then every other active one of the task.
LEMMA SettleWorkerReportStep ==
    ASSUME IInv, NEW d \in DispatchIds, NEW outcome \in {"succeeded", "failed"},
           SettleWorkerReport(d, outcome)
    PROVE  IInv' /\ ReportEnds(d)
<1> DEFINE t == dispatch[d].task
           settled == IF outcome = "succeeded" THEN "completed" ELSE "failed"
           row == Closed(dispatch[d], settled, "other")
           own == [dispatch EXCEPT ![d] = row]
<1>1. /\ Exists(d)
      /\ \/ SettledByUnobservedPrompt(d)
         \/ dispatch[d].status = "dispatched" /\ task[t] = "dispatched"
      /\ ActiveWorkers(t) \subseteq {d}
      /\ dispatch' = SettleActive(own, t, settled)
      /\ task' = Moved(t, settled)
      /\ worker' = worker \/ worker' = [worker EXCEPT ![d] = outcome]
      /\ outbox' = outbox \/ outbox' = [outbox EXCEPT ![d] = outcome]
      /\ gate' = gate
  BY DEF SettleWorkerReport, AcceptsReport
<1>2. t \in Tasks /\ dispatch[d] \in DispatchRows /\ dispatch \in [DispatchIds -> DispatchRows]
  BY <1>1 DEF IInv, TypeOK, RowsBelongToTasks
<1>3. settled \in {"completed", "failed"} /\ settled \in TaskStatuses
      /\ settled \in DispatchStatuses \ ActiveStatuses
  BY DEF TaskStatuses, DispatchStatuses, ActiveStatuses
<1> HIDE DEF settled
<1>4. /\ row \in DispatchRows /\ row.status \in DispatchStatuses \ ActiveStatuses
      /\ row.task = t /\ row.assignee = dispatch[d].assignee
  BY <1>2, <1>3, ClosedType
<1> HIDE DEF row
<1>5. /\ own \in [DispatchIds -> DispatchRows] /\ own[d] = row
      /\ \A e \in DispatchIds \ {d} : own[e] = dispatch[e]
  BY <1>2, <1>4
<1>6. \A e \in DispatchIds : own[e].task = dispatch[e].task /\ own[e].assignee = dispatch[e].assignee
  BY <1>4, <1>5
<1> HIDE DEF own
<1>7. /\ dispatch' \in [DispatchIds -> DispatchRows]
      /\ \A e \in DispatchIds :
            /\ dispatch'[e].task = own[e].task
            /\ dispatch'[e].assignee = own[e].assignee
            /\ own[e].task = t => dispatch'[e].status \notin ActiveStatuses
            /\ own[e].status \notin ActiveStatuses \/ own[e].task # t => dispatch'[e] = own[e]
  BY <1>1, <1>3, <1>5, SettleActiveType
<1>8. dispatch'[d] = row BY <1>4, <1>5, <1>7
<1>9. \A e \in DispatchIds : dispatch[e].task # t => dispatch'[e] = dispatch[e]
  BY <1>5, <1>6, <1>7
<1>10. \A e \in DispatchIds : dispatch[e].task = t => ~Active(e)'
  BY <1>6, <1>7 DEF Active
<1>11. \A e \in DispatchIds \ {d} : dispatch'[e].status = "absent" <=> dispatch[e].status = "absent"
  BY <1>1, <1>3, <1>5 DEF SettleActive, Closed, ActiveStatuses, DispatchStatuses, DispatchRows
<1>12. RowsShrink
  <2>1. "absent" \notin DispatchStatuses BY DEF DispatchStatuses, ActiveStatuses
  <2>2. \A e \in DispatchIds : Exists(e)' <=> Exists(e)
    BY <1>1, <1>4, <1>8, <1>11, <2>1 DEF Exists
  <2> QED BY <1>6, <1>7, <1>9, <1>10, <2>2 DEF RowsShrink, Active
<1>13. worker[d] \notin {"starting", "start_unknown"} \/ dispatch[d].status = "pending"
  BY DEF IInv, StartingIsPending
<1>14. worker[d] \notin {"starting", "start_unknown"}
  BY <1>1, <1>13 DEF SettledByUnobservedPrompt
<1>15. /\ worker' \in [DispatchIds -> SettledStates \cup UnsettledStates \cup {"none"}]
       /\ worker'[d] \notin {"starting", "start_unknown"}
       /\ \A e \in DispatchIds \ {d} : worker'[e] = worker[e]
  BY <1>1, <1>14 DEF SettledStates, IInv, TypeOK
<1>16. TypeOK'
  <2>1. task' \in [Tasks -> TaskStatuses \cup {"absent"}]
    BY <1>1, <1>2, <1>3, MovedType DEF IInv, TypeOK
  <2>2. outbox' \in [DispatchIds -> {"none", "succeeded", "failed"}]
    BY <1>1 DEF IInv, TypeOK
  <2> QED BY <1>1, <1>7, <1>15, <2>1, <2>2 DEF IInv, TypeOK
<1>17. RowsBelongToTasks'
  BY <1>1, <1>12, <1>15 DEF IInv, RowsBelongToTasks, RowsShrink
<1>18. ActiveIsLatest'
  BY <1>12 DEF IInv, ActiveIsLatest, RowsShrink
<1>19. OneActiveDispatchPerTerminal'
  <2> SUFFICES ASSUME NEW term \in Terminals, NEW e \in Occupied(term)',
                      NEW f \in Occupied(term)'
               PROVE  e = f
    BY DEF OneActiveDispatchPerTerminal
  <2>1. e \in Occupied(term) /\ f \in Occupied(term) BY <1>12 DEF Occupied, RowsShrink
  <2> QED BY <2>1 DEF IInv, OneActiveDispatchPerTerminal
<1>20. StartingIsPending'
  <2> SUFFICES ASSUME NEW e \in DispatchIds, worker'[e] \in {"starting", "start_unknown"}
               PROVE  dispatch'[e].status = "pending"
    BY DEF StartingIsPending
  <2>1. e # d /\ worker[e] = worker'[e] BY <1>15
  <2>2. dispatch[e].status = "pending" BY <2>1 DEF IInv, StartingIsPending
  <2>3. dispatch[e].task # t
    BY <1>1, <2>1, <2>2
    DEF ActiveWorkers, ActiveOf, Active, ActiveStatuses, Unsettled, UnsettledStates
  <2> QED BY <1>9, <2>2, <2>3
<1>21. SettledWorkerHoldsNothing'
  BY <1>10, <1>12, <1>15 DEF IInv, SettledWorkerHoldsNothing, RowsShrink
<1>22. ActiveDispatchHoldsTask'
  <2> SUFFICES ASSUME NEW e \in DispatchIds, Active(e)'
               PROVE  \/ task'[dispatch'[e].task] = "dispatched"
                      \/ /\ task'[dispatch'[e].task] = "blocked"
                         /\ worker'[e] \in {"start_unknown", "stopping", "stop_unknown"}
    BY DEF ActiveDispatchHoldsTask
  <2>1. /\ Active(e) /\ dispatch'[e].task = dispatch[e].task
        /\ dispatch[e].task # t /\ e # d /\ worker'[e] = worker[e]
    BY <1>10, <1>12, <1>15 DEF RowsShrink
  <2>2. task'[dispatch[e].task] = task[dispatch[e].task]
    BY <1>1, <1>2, <1>3, <2>1, ActiveTaskFact, MovedElsewhere DEF IInv
  <2> QED BY <2>1, <2>2 DEF IInv, ActiveDispatchHoldsTask
<1>23. ReportEnds(d)
  <2>1. ActiveOf(t) \subseteq {d}
    <3>1. CASE SettledByUnobservedPrompt(d)
      BY <3>1, ActiveTaskFact DEF SettledByUnobservedPrompt, ActiveOf
    <3>2. CASE dispatch[d].status = "dispatched"
      BY <3>2, OnlyActive DEF Active, ActiveStatuses
    <3> QED BY <1>1, <3>1, <3>2
  <2>2. \A e \in DispatchIds \ {d} : Active(e)' <=> Active(e)
    BY <1>9, <1>10, <2>1 DEF ActiveOf, Active
  <2>3. ~Active(d)' BY <1>2, <1>10
  <2> QED BY <1>1, <1>12, <2>1, <2>2, <2>3 DEF ReportEnds
<1> QED BY <1>16, <1>17, <1>18, <1>19, <1>20, <1>21, <1>22, <1>23 DEF IInv

-----------------------------------------------------------------------------
(* Steps that leave the claim where it is.                                    *)

\* A step on the row and the worker of d that keeps the row's task, terminal and activity.
LEMMA MovingPreserves ==
    ASSUME IInv, TypeOK', outbox' = outbox, NEW d \in DispatchIds, Exists(d),
           \A e \in DispatchIds \ {d} : worker'[e] = worker[e] /\ dispatch'[e] = dispatch[e],
           dispatch'[d].task = dispatch[d].task,
           dispatch'[d].assignee = dispatch[d].assignee,
           dispatch'[d].status # "absent",
           Active(d)' => Active(d) /\ worker'[d] \notin SettledStates,
           worker'[d] \in {"starting", "start_unknown"} => dispatch'[d].status = "pending",
           \A u \in Tasks \ {dispatch[d].task} : task'[u] = task[u],
           ActiveOf(dispatch[d].task) \ {d} # {} =>
               task'[dispatch[d].task] \in {"dispatched", task[dispatch[d].task]},
           Active(d)' =>
               \/ task'[dispatch[d].task] = "dispatched"
               \/ /\ task'[dispatch[d].task] = "blocked"
                  /\ worker'[d] \in {"start_unknown", "stopping", "stop_unknown"}
    PROVE  IInv' /\ QuietStep
<1>1. RowsShrink BY DEF RowsShrink, Active, Exists
<1>2. RowsBelongToTasks' BY DEF IInv, RowsBelongToTasks, Exists
<1>3. ActiveIsLatest' BY <1>1 DEF IInv, ActiveIsLatest, RowsShrink
<1>4. OneActiveDispatchPerTerminal'
  <2> SUFFICES ASSUME NEW term \in Terminals, NEW e \in Occupied(term)',
                      NEW f \in Occupied(term)'
               PROVE  e = f
    BY DEF OneActiveDispatchPerTerminal
  <2>1. e \in Occupied(term) /\ f \in Occupied(term) BY <1>1 DEF Occupied, RowsShrink
  <2> QED BY <2>1 DEF IInv, OneActiveDispatchPerTerminal
<1>5. StartingIsPending' BY DEF IInv, StartingIsPending
<1>6. SettledWorkerHoldsNothing' BY DEF IInv, SettledWorkerHoldsNothing, Active
<1>7. ActiveDispatchHoldsTask'
  <2> SUFFICES ASSUME NEW e \in DispatchIds, Active(e)'
               PROVE  \/ task'[dispatch'[e].task] = "dispatched"
                      \/ /\ task'[dispatch'[e].task] = "blocked"
                         /\ worker'[e] \in {"start_unknown", "stopping", "stop_unknown"}
    BY DEF ActiveDispatchHoldsTask
  <2>1. CASE e = d BY <2>1
  <2>2. CASE e # d
    <3>1. Active(e) /\ worker'[e] = worker[e] /\ dispatch'[e].task = dispatch[e].task
      BY <2>2, <1>1 DEF RowsShrink
    <3>2. CASE dispatch[e].task = dispatch[d].task
      <4>1. e \in ActiveOf(dispatch[d].task) \ {d} BY <2>2, <3>1, <3>2 DEF ActiveOf
      <4> QED BY <3>1, <3>2, <4>1 DEF IInv, ActiveDispatchHoldsTask
    <3>3. CASE dispatch[e].task # dispatch[d].task
      BY <3>1, <3>3, ActiveTaskFact DEF IInv, ActiveDispatchHoldsTask
    <3> QED BY <3>2, <3>3
  <2> QED BY <2>1, <2>2
<1>8. QuietStep BY <1>1 DEF QuietStep, Active
<1> QED BY <1>2, <1>3, <1>4, <1>5, <1>6, <1>7, <1>8 DEF IInv

LEMMA MintDispatchCapabilityStep ==
    ASSUME IInv, NEW d \in DispatchIds, MintDispatchCapability(d)
    PROVE  IInv' /\ QuietStep
<1>1. /\ Active(d) /\ dispatch' = [dispatch EXCEPT ![d].capability = "live"]
      /\ task' = task /\ worker' = worker /\ gate' = gate /\ outbox' = outbox
  BY DEF MintDispatchCapability
<1>2. Exists(d) /\ dispatch[d].task \in Tasks /\ dispatch[d] \in DispatchRows BY <1>1, RowOf
<1>3. /\ dispatch' \in [DispatchIds -> DispatchRows]
      /\ \A e \in DispatchIds \ {d} : dispatch'[e] = dispatch[e]
      /\ dispatch'[d].task = dispatch[d].task /\ dispatch'[d].assignee = dispatch[d].assignee
      /\ dispatch'[d].status = dispatch[d].status
  BY <1>1, <1>2 DEF IInv, TypeOK, DispatchRows
<1>4. TypeOK' BY <1>1, <1>3 DEF IInv, TypeOK
<1>5. Active(d) /\ worker[d] \notin SettledStates
  BY <1>1 DEF IInv, SettledWorkerHoldsNothing
<1>6. \/ task[dispatch[d].task] = "dispatched"
      \/ /\ task[dispatch[d].task] = "blocked"
         /\ worker[d] \in {"start_unknown", "stopping", "stop_unknown"}
  BY <1>1 DEF IInv, ActiveDispatchHoldsTask
<1>7. worker[d] \in {"starting", "start_unknown"} => dispatch[d].status = "pending"
  BY DEF IInv, StartingIsPending
<1> QED BY <1>1, <1>2, <1>3, <1>4, <1>5, <1>6, <1>7, MovingPreserves DEF Exists

LEMMA MarkWorkerDispatchReadyStep ==
    ASSUME IInv, NEW d \in DispatchIds, MarkWorkerDispatchReady(d)
    PROVE  IInv' /\ QuietStep
<1>1. /\ dispatch[d].status = "pending" /\ worker[d] = "starting"
      /\ dispatch' = [dispatch EXCEPT ![d].status = "dispatched"]
      /\ worker' = [worker EXCEPT ![d] = "ready"]
      /\ task' = task /\ gate' = gate /\ outbox' = outbox
  BY DEF MarkWorkerDispatchReady, Starting
<1>2. Exists(d) /\ dispatch[d].task \in Tasks /\ dispatch[d] \in DispatchRows BY <1>1, RowOf
<1>3. /\ dispatch' \in [DispatchIds -> DispatchRows]
      /\ \A e \in DispatchIds \ {d} : dispatch'[e] = dispatch[e]
      /\ dispatch'[d].task = dispatch[d].task /\ dispatch'[d].assignee = dispatch[d].assignee
      /\ dispatch'[d].status = "dispatched"
  BY <1>1, <1>2 DEF IInv, TypeOK, DispatchRows, DispatchStatuses, ActiveStatuses
<1>4. /\ worker' \in [DispatchIds -> SettledStates \cup UnsettledStates \cup {"none"}]
      /\ worker'[d] = "ready" /\ \A e \in DispatchIds \ {d} : worker'[e] = worker[e]
  BY <1>1 DEF UnsettledStates, IInv, TypeOK
<1>5. TypeOK' BY <1>1, <1>3, <1>4 DEF IInv, TypeOK
<1>6. Active(d) /\ "ready" \notin SettledStates BY <1>1 DEF Active, ActiveStatuses, SettledStates
<1>7. task[dispatch[d].task] = "dispatched"
  BY <1>1, <1>6 DEF IInv, ActiveDispatchHoldsTask
<1> QED BY <1>1, <1>2, <1>3, <1>4, <1>5, <1>6, <1>7, MovingPreserves

LEMMA MarkWorkerStartUnknownStep ==
    ASSUME IInv, NEW d \in DispatchIds, MarkWorkerStartUnknown(d)
    PROVE  IInv' /\ QuietStep
<1>1. /\ worker[d] = "starting" /\ worker' = [worker EXCEPT ![d] = "start_unknown"]
      /\ dispatch' = [dispatch EXCEPT ![d].capability = Revoked(@)]
      /\ task' = [task EXCEPT ![dispatch[d].task] = "blocked"]
      /\ gate' = gate /\ outbox' = outbox
  BY DEF MarkWorkerStartUnknown
<1>2. Exists(d) /\ dispatch[d].task \in Tasks /\ dispatch[d] \in DispatchRows BY <1>1, RowOf
<1>3. dispatch[d].status = "pending" /\ Active(d)
  BY <1>1 DEF IInv, StartingIsPending, Active, ActiveStatuses
<1>4. Revoked(dispatch[d].capability) \in {"none", "live", "revoked"}
  BY <1>2 DEF Revoked, DispatchRows
<1>5. /\ dispatch' \in [DispatchIds -> DispatchRows]
      /\ \A e \in DispatchIds \ {d} : dispatch'[e] = dispatch[e]
      /\ dispatch'[d].task = dispatch[d].task /\ dispatch'[d].assignee = dispatch[d].assignee
      /\ dispatch'[d].status = dispatch[d].status
  BY <1>1, <1>2, <1>4 DEF IInv, TypeOK, DispatchRows
<1>6. /\ worker' \in [DispatchIds -> SettledStates \cup UnsettledStates \cup {"none"}]
      /\ worker'[d] = "start_unknown" /\ \A e \in DispatchIds \ {d} : worker'[e] = worker[e]
  BY <1>1 DEF UnsettledStates, IInv, TypeOK
<1>7. /\ task' \in [Tasks -> TaskStatuses \cup {"absent"}]
      /\ task'[dispatch[d].task] = "blocked"
      /\ \A u \in Tasks \ {dispatch[d].task} : task'[u] = task[u]
  BY <1>1, <1>2 DEF TaskStatuses, IInv, TypeOK
<1>8. TypeOK' BY <1>1, <1>5, <1>6, <1>7 DEF IInv, TypeOK
<1>9. "start_unknown" \notin SettledStates BY DEF SettledStates
<1>10. ActiveOf(dispatch[d].task) \ {d} = {} BY <1>3, OnlyActive
<1> QED BY <1>1, <1>2, <1>3, <1>5, <1>6, <1>7, <1>8, <1>9, <1>10, MovingPreserves

LEMMA BeginWorkerStopStep ==
    ASSUME IInv, NEW d \in DispatchIds, BeginWorkerStop(d)
    PROVE  IInv' /\ QuietStep
<1>1. /\ worker[d] \in {"ready", "start_unknown"}
      /\ worker' = [worker EXCEPT ![d] = "stopping"]
      /\ dispatch' = [dispatch EXCEPT ![d].capability = Revoked(@)]
      /\ task' = [task EXCEPT ![dispatch[d].task] = AfterInterruption(d)]
      /\ gate' = gate /\ outbox' = outbox
  BY DEF BeginWorkerStop
<1>2. Exists(d) /\ dispatch[d].task \in Tasks /\ dispatch[d] \in DispatchRows BY <1>1, RowOf
<1>3. Revoked(dispatch[d].capability) \in {"none", "live", "revoked"}
  BY <1>2 DEF Revoked, DispatchRows
<1>4. /\ dispatch' \in [DispatchIds -> DispatchRows]
      /\ \A e \in DispatchIds \ {d} : dispatch'[e] = dispatch[e]
      /\ dispatch'[d].task = dispatch[d].task /\ dispatch'[d].assignee = dispatch[d].assignee
      /\ dispatch'[d].status = dispatch[d].status
  BY <1>1, <1>2, <1>3 DEF IInv, TypeOK, DispatchRows
<1>5. /\ worker' \in [DispatchIds -> SettledStates \cup UnsettledStates \cup {"none"}]
      /\ worker'[d] = "stopping" /\ \A e \in DispatchIds \ {d} : worker'[e] = worker[e]
  BY <1>1 DEF UnsettledStates, IInv, TypeOK
<1>6. AfterInterruption(d) \in TaskStatuses \cup {"absent"}
  BY <1>2, AfterInterruptionType DEF IInv
<1>7. /\ task' \in [Tasks -> TaskStatuses \cup {"absent"}]
      /\ task'[dispatch[d].task] = AfterInterruption(d)
      /\ \A u \in Tasks \ {dispatch[d].task} : task'[u] = task[u]
  BY <1>1, <1>2, <1>6 DEF IInv, TypeOK
<1>8. TypeOK' BY <1>1, <1>4, <1>5, <1>7 DEF IInv, TypeOK
<1>9. "stopping" \notin SettledStates BY DEF SettledStates
<1>10. Active(d) => AfterInterruption(d) \in {"dispatched", "blocked"}
  BY ActiveTaskFact DEF AfterInterruption
<1>11. Active(d)' => Active(d) BY <1>4 DEF Active
<1> QED BY <1>1, <1>2, <1>4, <1>5, <1>7, <1>8, <1>9, <1>10, <1>11, AfterInterruptionHolds,
           MovingPreserves DEF Exists

LEMMA MarkWorkerStopUnknownStep ==
    ASSUME IInv, NEW d \in DispatchIds, MarkWorkerStopUnknown(d)
    PROVE  IInv' /\ QuietStep
<1>1. /\ worker[d] = "stopping" /\ worker' = [worker EXCEPT ![d] = "stop_unknown"]
      /\ task' = task /\ dispatch' = dispatch /\ gate' = gate /\ outbox' = outbox
  BY DEF MarkWorkerStopUnknown
<1>2. Exists(d) /\ dispatch[d].task \in Tasks BY <1>1, RowOf
<1>3. /\ worker' \in [DispatchIds -> SettledStates \cup UnsettledStates \cup {"none"}]
      /\ worker'[d] = "stop_unknown" /\ \A e \in DispatchIds \ {d} : worker'[e] = worker[e]
  BY <1>1 DEF UnsettledStates, IInv, TypeOK
<1>4. TypeOK' BY <1>1, <1>3 DEF IInv, TypeOK
<1>5. "stop_unknown" \notin SettledStates BY DEF SettledStates
<1>6. Active(d)' => Active(d) /\ task[dispatch[d].task] \in {"dispatched", "blocked"}
  BY <1>1, ActiveTaskFact DEF Active
<1> QED BY <1>1, <1>2, <1>3, <1>4, <1>5, <1>6, MovingPreserves DEF Exists

LEMMA ReconcileFederatedWorkerReadyStep ==
    ASSUME IInv, NEW d \in DispatchIds, ReconcileFederatedWorkerReady(d)
    PROVE  IInv' /\ QuietStep
<1> DEFINE t == dispatch[d].task
<1>1. /\ worker[d] \in {"starting", "start_unknown"}
      /\ worker' = [worker EXCEPT ![d] = "ready"]
      /\ dispatch' = [dispatch EXCEPT ![d].status = IF @ = "pending" THEN "dispatched" ELSE @]
      /\ task' = [task EXCEPT ![t] = IF @ = "blocked" THEN "dispatched" ELSE @]
      /\ gate' = gate /\ outbox' = outbox
  BY DEF ReconcileFederatedWorkerReady
<1>2. Exists(d) /\ t \in Tasks /\ dispatch[d] \in DispatchRows BY <1>1, RowOf
<1>3. dispatch[d].status = "pending" /\ Active(d)
  BY <1>1 DEF IInv, StartingIsPending, Active, ActiveStatuses
<1>4. /\ dispatch' \in [DispatchIds -> DispatchRows]
      /\ \A e \in DispatchIds \ {d} : dispatch'[e] = dispatch[e]
      /\ dispatch'[d].task = t /\ dispatch'[d].assignee = dispatch[d].assignee
      /\ dispatch'[d].status = "dispatched"
  BY <1>1, <1>2, <1>3 DEF IInv, TypeOK, DispatchRows, DispatchStatuses, ActiveStatuses
<1>5. /\ worker' \in [DispatchIds -> SettledStates \cup UnsettledStates \cup {"none"}]
      /\ worker'[d] = "ready" /\ \A e \in DispatchIds \ {d} : worker'[e] = worker[e]
  BY <1>1 DEF UnsettledStates, IInv, TypeOK
<1>6. task[t] \in {"dispatched", "blocked"} BY <1>3, ActiveTaskFact
<1>7. /\ task' \in [Tasks -> TaskStatuses \cup {"absent"}]
      /\ task'[t] = "dispatched"
      /\ \A u \in Tasks \ {t} : task'[u] = task[u]
  BY <1>1, <1>2, <1>6 DEF TaskStatuses, IInv, TypeOK
<1>8. TypeOK' BY <1>1, <1>4, <1>5, <1>7 DEF IInv, TypeOK
<1>9. "ready" \notin SettledStates BY DEF SettledStates
<1> QED BY <1>1, <1>2, <1>3, <1>4, <1>5, <1>7, <1>8, <1>9, MovingPreserves

LEMMA ResumeFederatedWorkerForTerminalRelayStep ==
    ASSUME IInv, NEW d \in DispatchIds, ResumeFederatedWorkerForTerminalRelay(d)
    PROVE  IInv' /\ QuietStep
<1> DEFINE t == dispatch[d].task
<1>1. /\ worker[d] = "stopping" /\ worker' = [worker EXCEPT ![d] = "ready"]
      /\ task' = [task EXCEPT ![t] = IF @ = "blocked" THEN "dispatched" ELSE @]
      /\ dispatch' = dispatch /\ gate' = gate /\ outbox' = outbox
  BY DEF ResumeFederatedWorkerForTerminalRelay
<1>2. Exists(d) /\ t \in Tasks BY <1>1, RowOf
<1>3. /\ worker' \in [DispatchIds -> SettledStates \cup UnsettledStates \cup {"none"}]
      /\ worker'[d] = "ready" /\ \A e \in DispatchIds \ {d} : worker'[e] = worker[e]
  BY <1>1 DEF UnsettledStates, IInv, TypeOK
<1>4. /\ task' \in [Tasks -> TaskStatuses \cup {"absent"}]
      /\ task'[t] \in {"dispatched", task[t]}
      /\ task[t] \in {"dispatched", "blocked"} => task'[t] = "dispatched"
      /\ \A u \in Tasks \ {t} : task'[u] = task[u]
  BY <1>1, <1>2 DEF TaskStatuses, IInv, TypeOK
<1>5. TypeOK' BY <1>1, <1>3, <1>4 DEF IInv, TypeOK
<1>6. "ready" \notin SettledStates BY DEF SettledStates
<1>7. Active(d)' => Active(d) /\ task[t] \in {"dispatched", "blocked"}
  BY <1>1, ActiveTaskFact DEF Active
<1> QED BY <1>1, <1>2, <1>3, <1>4, <1>5, <1>6, <1>7, MovingPreserves DEF Exists

\* Creating a task touches no row, and a task without a row was handed to nobody.
LEMMA CreateTaskStep ==
    ASSUME IInv, NEW t \in Tasks, CreateTask(t)
    PROVE  IInv' /\ QuietStep
<1>1. /\ task[t] = "absent" /\ task' = [task EXCEPT ![t] = InitialStatus(t)]
      /\ dispatch' = dispatch /\ worker' = worker /\ gate' = gate /\ outbox' = outbox
  BY DEF CreateTask
<1>2. TypeOK' BY <1>1 DEF IInv, TypeOK, InitialStatus, TaskStatuses
<1>3. ActiveDispatchHoldsTask'
  <2> SUFFICES ASSUME NEW d \in DispatchIds, Active(d)
               PROVE  \/ task'[dispatch[d].task] = "dispatched"
                      \/ /\ task'[dispatch[d].task] = "blocked"
                         /\ worker[d] \in {"start_unknown", "stopping", "stop_unknown"}
    BY <1>1 DEF ActiveDispatchHoldsTask, Active
  <2>1. dispatch[d].task # t /\ dispatch[d].task \in Tasks BY <1>1, ActiveTaskFact
  <2> QED BY <1>1, <2>1 DEF IInv, TypeOK, ActiveDispatchHoldsTask
<1>4. QuietStep BY <1>1 DEF QuietStep, RowsShrink, Active, Exists
<1> QED BY <1>1, <1>2, <1>3, <1>4
    DEF IInv, RowsBelongToTasks, StartingIsPending, ActiveIsLatest, Exists, Active,
        SettledWorkerHoldsNothing, OneActiveDispatchPerTerminal, Occupied

-----------------------------------------------------------------------------
(* Steps that hand out a claim.                                               *)

\* A terminal is attached to a starting worker only when no other dispatch has it.
LEMMA PrepareStartingWorkerAuthorityStep ==
    ASSUME IInv, NEW d \in DispatchIds, NEW term \in Terminals,
           PrepareStartingWorkerAuthority(d, term)
    PROVE  IInv'
<1>1. /\ worker[d] = "starting" /\ dispatch[d].status = "pending"
      /\ Occupied(term) \subseteq {d}
      /\ dispatch' = [dispatch EXCEPT ![d].assignee = term, ![d].capability = "live"]
      /\ task' = task /\ worker' = worker /\ gate' = gate /\ outbox' = outbox
  BY DEF PrepareStartingWorkerAuthority, Starting
<1>2. Exists(d) /\ dispatch[d].task \in Tasks /\ dispatch[d] \in DispatchRows BY <1>1, RowOf
<1>3. /\ dispatch' \in [DispatchIds -> DispatchRows]
      /\ \A e \in DispatchIds \ {d} : dispatch'[e] = dispatch[e]
      /\ dispatch'[d].task = dispatch[d].task /\ dispatch'[d].assignee = term
      /\ dispatch'[d].status = dispatch[d].status
  BY <1>1, <1>2 DEF IInv, TypeOK, DispatchRows
<1>4. TypeOK' BY <1>1, <1>3 DEF IInv, TypeOK
<1>5. OneActiveDispatchPerTerminal'
  <2> SUFFICES ASSUME NEW u \in Terminals, NEW e \in Occupied(u)', NEW f \in Occupied(u)'
               PROVE  e = f
    BY DEF OneActiveDispatchPerTerminal
  <2>1. CASE u = term
    BY <1>1, <1>3, <2>1 DEF Occupied, Active
  <2>2. CASE u # term
    <3>1. e \in Occupied(u) /\ f \in Occupied(u) BY <1>3, <2>2 DEF Occupied, Active
    <3> QED BY <3>1 DEF IInv, OneActiveDispatchPerTerminal
  <2> QED BY <2>1, <2>2
<1>6. \A e \in DispatchIds : /\ dispatch'[e].task = dispatch[e].task
                             /\ dispatch'[e].status = dispatch[e].status
  BY <1>3
<1>7. \A e \in DispatchIds : (Active(e)' <=> Active(e)) /\ (Exists(e)' <=> Exists(e))
  BY <1>6 DEF Active, Exists
<1>8. RowsBelongToTasks' BY <1>1, <1>6, <1>7 DEF IInv, RowsBelongToTasks
<1>9. StartingIsPending' BY <1>1, <1>6 DEF IInv, StartingIsPending
<1>10. ActiveIsLatest' BY <1>6, <1>7 DEF IInv, ActiveIsLatest
<1>11. SettledWorkerHoldsNothing' BY <1>1, <1>7 DEF IInv, SettledWorkerHoldsNothing
<1>12. ActiveDispatchHoldsTask' BY <1>1, <1>6, <1>7 DEF IInv, ActiveDispatchHoldsTask
<1> QED BY <1>4, <1>5, <1>8, <1>9, <1>10, <1>11, <1>12 DEF IInv

\* A new active row for a task that has no active dispatch: the row is the newest, and
\* its terminal, if it has one, carries nothing else.
LEMMA ClaimPreserves ==
    ASSUME IInv, TypeOK', NEW d \in DispatchIds, NEW t \in Tasks, FreshDispatch(d),
           ActiveOf(t) = {},
           \A e \in DispatchIds \ {d} : worker'[e] = worker[e] /\ dispatch'[e] = dispatch[e],
           dispatch'[d].task = t,
           dispatch'[d].status \in ActiveStatuses,
           worker'[d] \notin SettledStates,
           worker'[d] \in {"starting", "start_unknown"} => dispatch'[d].status = "pending",
           dispatch'[d].assignee \in Terminals => Occupied(dispatch'[d].assignee) = {},
           task' = [task EXCEPT ![t] = "dispatched"]
    PROVE  IInv'
<1>1. \A e \in DispatchIds : Exists(e) <=> e < d BY DEF FreshDispatch
<1>2. d \in Int /\ \A e \in DispatchIds : e \in Int BY BoundsAssumption DEF DispatchIds
<1>3. Active(d)' /\ Exists(d)' /\ ~Exists(d)
  BY <1>1, <1>2 DEF Active, Exists, ActiveStatuses
<1>4. \A e \in DispatchIds : e > d => dispatch[e].task = NoTask
  BY <1>1, <1>2 DEF IInv, RowsBelongToTasks
<1>5. RowsBelongToTasks' BY <1>3 DEF IInv, RowsBelongToTasks, Exists
<1>6. ActiveIsLatest'
  <2> SUFFICES ASSUME NEW e \in DispatchIds, Active(e)', NEW f \in DispatchIds, f > e
               PROVE  dispatch'[f].task # dispatch'[e].task
    BY DEF ActiveIsLatest
  <2>1. CASE e = d
    BY <1>2, <1>4, <2>1, NullAssumption
  <2>2. CASE e # d
    <3>1. Active(e) BY <2>2 DEF Active
    <3>2. dispatch[e].task # t BY <3>1 DEF ActiveOf
    <3> QED BY <2>2, <3>1, <3>2 DEF IInv, ActiveIsLatest
  <2> QED BY <2>1, <2>2
<1>7. StartingIsPending' BY DEF IInv, StartingIsPending
<1>8. SettledWorkerHoldsNothing' BY DEF IInv, SettledWorkerHoldsNothing, Active
<1>9. ActiveDispatchHoldsTask'
  <2> SUFFICES ASSUME NEW e \in DispatchIds, Active(e)'
               PROVE  \/ task'[dispatch'[e].task] = "dispatched"
                      \/ /\ task'[dispatch'[e].task] = "blocked"
                         /\ worker'[e] \in {"start_unknown", "stopping", "stop_unknown"}
    BY DEF ActiveDispatchHoldsTask
  <2>1. CASE e = d BY <2>1 DEF IInv, TypeOK
  <2>2. CASE e # d
    <3>1. Active(e) /\ dispatch[e].task # t BY <2>2 DEF Active, ActiveOf
    <3>2. task'[dispatch[e].task] = task[dispatch[e].task]
      BY <3>1, ActiveTaskFact DEF IInv, TypeOK
    <3> QED BY <2>2, <3>1, <3>2 DEF IInv, ActiveDispatchHoldsTask
  <2> QED BY <2>1, <2>2
<1>10. OneActiveDispatchPerTerminal'
  <2> SUFFICES ASSUME NEW term \in Terminals, NEW e \in Occupied(term)',
                      NEW f \in Occupied(term)'
               PROVE  e = f
    BY DEF OneActiveDispatchPerTerminal
  <2>1. CASE e # d /\ f # d
    <3>1. e \in Occupied(term) /\ f \in Occupied(term) BY <2>1 DEF Occupied, Active
    <3> QED BY <3>1 DEF IInv, OneActiveDispatchPerTerminal
  <2>2. CASE e = d \/ f = d
    <3>1. dispatch'[d].assignee = term BY <2>2 DEF Occupied
    <3>2. Occupied(term) = {} BY <3>1
    <3>3. \A g \in DispatchIds \ {d} : g \notin Occupied(term)' BY <3>2 DEF Occupied, Active
    <3> QED BY <2>2, <3>3 DEF Occupied
  <2> QED BY <2>1, <2>2
<1> QED BY <1>5, <1>6, <1>7, <1>8, <1>9, <1>10 DEF IInv

LEMMA CreateDispatchContextStep ==
    ASSUME IInv, NEW d \in DispatchIds, NEW t \in Tasks, NEW term \in Terminals,
           CreateDispatchContext(d, t, term)
    PROVE  IInv'
<1>0. PICK prior \in FailureCounts(t) :
          dispatch' = [dispatch EXCEPT ![d] =
              [NoDispatch EXCEPT !.task = t, !.kind = "context", !.status = "dispatched",
                                 !.failures = prior, !.assignee = term]]
  BY DEF CreateDispatchContext
<1> DEFINE row == [NoDispatch EXCEPT !.task = t, !.kind = "context", !.status = "dispatched",
                       !.failures = prior, !.assignee = term]
<1>1. /\ FreshDispatch(d) /\ task[t] = "ready" /\ Occupied(term) = {}
      /\ dispatch' = [dispatch EXCEPT ![d] = row]
      /\ task' = [task EXCEPT ![t] = "dispatched"]
      /\ worker' = worker /\ gate' = gate /\ outbox' = outbox
  BY <1>0 DEF CreateDispatchContext, MayClaim
<1>2. /\ row \in DispatchRows /\ row.task = t /\ row.status = "dispatched"
      /\ row.assignee = term
  <2>1. prior \in Nat BY DEF FailureCounts, IInv, TypeOK, DispatchRows
  <2> QED BY <2>1, NoDispatchType DEF DispatchRows, Kinds, DispatchStatuses, ActiveStatuses
<1> HIDE DEF row
<1>3. /\ dispatch' \in [DispatchIds -> DispatchRows] /\ dispatch'[d] = row
      /\ \A e \in DispatchIds \ {d} : dispatch'[e] = dispatch[e]
  BY <1>1, <1>2 DEF IInv, TypeOK
<1>4. TypeOK' BY <1>1, <1>3 DEF IInv, TypeOK, TaskStatuses
<1>5. ActiveOf(t) = {} BY <1>1, ActiveTaskFact DEF ActiveOf
<1>6. worker[d] = "none"
  <2>1. ~Exists(d) BY <1>1, BoundsAssumption DEF FreshDispatch, DispatchIds
  <2> QED BY <2>1 DEF IInv, RowsBelongToTasks
<1>7. "none" \notin SettledStates /\ "dispatched" \in ActiveStatuses
  BY DEF SettledStates, ActiveStatuses
<1> QED BY <1>1, <1>2, <1>3, <1>4, <1>5, <1>6, <1>7, ClaimPreserves

\* A retry replaces the newest attempt, whose worker is settled and so holds nothing;
\* an older attempt is never active.
LEMMA MayStartFree ==
    ASSUME IInv, NEW t \in Tasks, NEW retryOf \in {0} \cup DispatchIds, MayStart(t, retryOf)
    PROVE  ActiveOf(t) = {}
<1>1. CASE retryOf = 0
  <2>1. task[t] = "ready" BY <1>1 DEF MayStart
  <2> QED BY <2>1, ActiveTaskFact DEF ActiveOf
<1>2. CASE retryOf # 0
  <2>1. /\ Latest(t, retryOf) /\ worker[retryOf] \in {"failed", "stopped", "abandoned"}
        /\ retryOf \in DispatchIds
    BY <1>2 DEF MayStart
  <2>2. ~Active(retryOf) BY <2>1 DEF IInv, SettledWorkerHoldsNothing, SettledStates
  <2> SUFFICES ASSUME NEW e \in ActiveOf(t) PROVE FALSE
    OBVIOUS
  <2>3. e \in DispatchIds /\ Active(e) /\ dispatch[e].task = t BY DEF ActiveOf
  <2>4. e # retryOf BY <2>2, <2>3
  <2>5. ~(e > retryOf) BY <2>1, <2>3 DEF Latest
  <2>6. retryOf > e BY <2>1, <2>3, <2>4, <2>5, BoundsAssumption DEF DispatchIds
  <2> QED BY <2>1, <2>3, <2>6 DEF IInv, ActiveIsLatest, Latest
<1> QED BY <1>1, <1>2

LEMMA CreateStartingWorkerDispatchStep ==
    ASSUME IInv, NEW d \in DispatchIds, NEW t \in Tasks, NEW kind \in {"local", "federated"},
           NEW retryOf \in {0} \cup DispatchIds,
           CreateStartingWorkerDispatch(d, t, kind, retryOf)
    PROVE  IInv'
<1> DEFINE row == [NoDispatch EXCEPT !.task = t, !.kind = kind, !.status = "pending"]
<1>1. /\ FreshDispatch(d) /\ MayStart(t, retryOf)
      /\ dispatch' = [dispatch EXCEPT ![d] = row]
      /\ worker' = [worker EXCEPT ![d] = "starting"]
      /\ task' = [task EXCEPT ![t] = "dispatched"]
      /\ gate' = gate /\ outbox' = outbox
  BY DEF CreateStartingWorkerDispatch
<1>2. /\ row \in DispatchRows /\ row.task = t /\ row.status = "pending"
      /\ row.assignee = NoTerminal
  BY NoDispatchType DEF NoDispatch, DispatchRows, Kinds, DispatchStatuses, ActiveStatuses
<1> HIDE DEF row
<1>3. /\ dispatch' \in [DispatchIds -> DispatchRows] /\ dispatch'[d] = row
      /\ \A e \in DispatchIds \ {d} : dispatch'[e] = dispatch[e]
  BY <1>1, <1>2 DEF IInv, TypeOK
<1>4. /\ worker' \in [DispatchIds -> SettledStates \cup UnsettledStates \cup {"none"}]
      /\ worker'[d] = "starting" /\ \A e \in DispatchIds \ {d} : worker'[e] = worker[e]
  BY <1>1 DEF UnsettledStates, IInv, TypeOK
<1>5. TypeOK' BY <1>1, <1>3, <1>4 DEF IInv, TypeOK, TaskStatuses
<1>6. ActiveOf(t) = {} BY <1>1, MayStartFree
<1>7. "starting" \notin SettledStates /\ "pending" \in ActiveStatuses
  BY DEF SettledStates, ActiveStatuses
<1> QED BY <1>1, <1>2, <1>3, <1>4, <1>5, <1>6, <1>7, NullAssumption, ClaimPreserves

-----------------------------------------------------------------------------
(* The theorems.                                                              *)

LEMMA InitIInv == Init => IInv
<1> SUFFICES ASSUME Init PROVE IInv OBVIOUS
<1>1. /\ task = [t \in Tasks |-> "absent"]
      /\ dispatch = [d \in DispatchIds |-> NoDispatch]
      /\ worker = [d \in DispatchIds |-> "none"]
      /\ gate = [g \in GateIds |-> NoGate]
      /\ outbox = [d \in DispatchIds |-> "none"]
  BY DEF Init
<1>2. TypeOK
  BY <1>1, NoDispatchType DEF TypeOK, NoGate, GateRows
<1>3. \A d \in DispatchIds : /\ ~Active(d) /\ ~Exists(d)
                             /\ dispatch[d].task = NoTask /\ worker[d] = "none"
  BY <1>1 DEF NoDispatch, Active, Exists, ActiveStatuses
<1> QED BY <1>2, <1>3
    DEF IInv, RowsBelongToTasks, StartingIsPending, ActiveIsLatest, ActiveDispatchHoldsTask,
        SettledWorkerHoldsNothing, OneActiveDispatchPerTerminal, Occupied

LEMMA NextIInv == IInv /\ [Next]_vars => IInv'
<1> SUFFICES ASSUME IInv, [Next]_vars PROVE IInv' OBVIOUS
<1>1. CASE TaskStep
  BY <1>1, CreateTaskStep, UpdateTaskStatusStep DEF TaskStep
<1>2. CASE ContextStep
  BY <1>2, CreateDispatchContextStep, MintDispatchCapabilityStep, FailDispatchStep,
     ReleaseContextOnlyDispatchStep DEF ContextStep
<1>3. CASE StartStep
  BY <1>3, CreateStartingWorkerDispatchStep, PrepareStartingWorkerAuthorityStep,
     MarkWorkerDispatchReadyStep, FailWorkerStartStep, MarkWorkerStartUnknownStep DEF StartStep
<1>4. CASE StopStep
  <2>1. \A d \in DispatchIds : SettleWorkerStop(d) => IInv'
    BY StoppedStep DEF SettleWorkerStop
  <2> QED BY <1>4, <2>1, BeginWorkerStopStep, MarkWorkerStopUnknownStep,
             AbandonWorkerDispatchStep, ReconcileMissingWorkerTerminalStep DEF StopStep
<1>5. CASE FederationStep
  <2>1. \A d \in DispatchIds : ReconcileFederatedWorkerStop(d) => IInv'
    BY StoppedStep DEF ReconcileFederatedWorkerStop
  <2> QED BY <1>5, <2>1, ReconcileFederatedWorkerReadyStep, ReconcileFederatedWorkerEndedStep,
             ResumeFederatedWorkerForTerminalRelayStep DEF FederationStep
<1>6. CASE ReportStep
  BY <1>6, SettleWorkerReportStep DEF ReportStep
<1>7. CASE GateStep
  BY <1>7, CreateGateStep, AnswerStep DEF GateStep
<1>8. CASE UNCHANGED vars
  BY <1>8 DEF vars, IInv, TypeOK, RowsBelongToTasks, StartingIsPending, ActiveIsLatest, Exists,
     Active, ActiveDispatchHoldsTask, SettledWorkerHoldsNothing,
     OneActiveDispatchPerTerminal, Occupied
<1> QED BY <1>1, <1>2, <1>3, <1>4, <1>5, <1>6, <1>7, <1>8 DEF Next

\* The inductive invariant holds of every behaviour of the board.
THEOREM Inductive == Spec => []IInv
BY InitIInv, NextIInv, PTL DEF Spec

\* Every reachable board has the types of the schema: each status of tasks,
\* dispatch_contexts, worker_dispatches and decision_gates is one its CHECK allows.
THEOREM TypeCorrect == Spec => []TypeOK
<1>1. IInv => TypeOK BY DEF IInv
<1> QED BY <1>1, Inductive, PTL

\* Whatever operators, retries, gates, exits and peers do, no task is ever in the hands
\* of two active dispatches.
THEOREM OneActivePerTask == Spec => []OneActiveDispatchPerTask
<1>1. IInv => OneActiveDispatchPerTask
  <2> SUFFICES ASSUME IInv, NEW t \in Tasks, NEW d \in ActiveOf(t), NEW e \in ActiveOf(t)
               PROVE  d = e
    BY DEF OneActiveDispatchPerTask
  <2>1. d \in DispatchIds /\ Active(d) /\ dispatch[d].task = t BY DEF ActiveOf
  <2> QED BY <2>1, OnlyActive
<1> QED BY <1>1, Inductive, PTL

\* No terminal is ever given a second task while it carries an active dispatch, by
\* either way a terminal is taken.
THEOREM OneActivePerTerminal == Spec => []OneActiveDispatchPerTerminal
<1>1. IInv => OneActiveDispatchPerTerminal BY DEF IInv
<1> QED BY <1>1, Inductive, PTL

\* No path of the code reopens or finishes a task under a dispatch that is still active.
THEOREM ActiveHoldsTask == Spec => []ActiveDispatchHoldsTask
<1>1. IInv => ActiveDispatchHoldsTask BY DEF IInv
<1> QED BY <1>1, Inductive, PTL

\* A worker that is failed, succeeded, stopped or abandoned locks nothing.
THEOREM SettledHoldsNothing == Spec => []SettledWorkerHoldsNothing
<1>1. IInv => SettledWorkerHoldsNothing BY DEF IInv
<1> QED BY <1>1, Inductive, PTL

-----------------------------------------------------------------------------
(* The board implements exclusive claims: every step is a step of TaskClaim, under   *)
(* the mapping Claim, or leaves the claims as they are.                             *)

LEMMA ClaimOf ==
    \A d \in DispatchIds :
        /\ ClaimLife[d] = "held" <=> Active(d)
        /\ ClaimLife[d] = "unused" <=> ~Exists(d)
        /\ ClaimOwner[d] = dispatch[d].task
        /\ ClaimPlace[d] = IF Active(d) THEN dispatch[d].assignee ELSE NoTerminal
BY ActiveExists DEF ClaimLife, ClaimOwner, ClaimPlace

\* A step that hands out nothing releases the one claim that ends, or none.
LEMMA QuietRefines ==
    ASSUME IInv, QuietStep
    PROVE  [Claim!Next]_(Claim!vars)
<1>1. ClaimOwner' = ClaimOwner BY DEF ClaimOwner, QuietStep, RowsShrink
<1>2. CASE \E d \in DispatchIds : Active(d) /\ ~Active(d)'
  <2>1. PICK d \in DispatchIds : Active(d) /\ ~Active(d)' BY <1>2
  <2>2. \A e \in DispatchIds \ {d} : Active(e)' <=> Active(e)
    BY <2>1 DEF QuietStep, RowsShrink
  <2>3. Exists(d) BY <2>1, ActiveExists
  <2>4. ClaimLife' = [ClaimLife EXCEPT ![d] = "over"]
    BY <2>1, <2>2, <2>3 DEF ClaimLife, QuietStep, RowsShrink
  <2>5. ClaimPlace' = [ClaimPlace EXCEPT ![d] = NoTerminal]
    BY <2>1, <2>2 DEF ClaimPlace, QuietStep, RowsShrink
  <2>6. Claim!Release(d)
    BY <1>1, <2>1, <2>4, <2>5, ClaimOf DEF Claim!Release, Claim!Held, QuietStep
  <2> QED BY <2>6 DEF Claim!Next
<1>3. CASE ~ \E d \in DispatchIds : Active(d) /\ ~Active(d)'
  <2>1. \A d \in DispatchIds : Active(d)' <=> Active(d) BY <1>3 DEF QuietStep, RowsShrink
  <2>2. ClaimLife' = ClaimLife /\ ClaimPlace' = ClaimPlace
    BY <2>1 DEF ClaimLife, ClaimPlace, QuietStep, RowsShrink
  <2> QED BY <1>1, <2>2 DEF Claim!vars, QuietStep
<1> QED BY <1>2, <1>3

\* A report whose outcome is new ends its claim and records the outcome; one whose key
\* already has an outcome only ends the claim, if it was held.
LEMMA ReportRefines ==
    ASSUME IInv, NEW d \in DispatchIds, NEW outcome \in {"succeeded", "failed"},
           SettleWorkerReport(d, outcome)
    PROVE  [Claim!Next]_(Claim!vars)
<1>1. ReportEnds(d) BY SettleWorkerReportStep
<1>2. ClaimOwner' = ClaimOwner BY <1>1 DEF ClaimOwner, ReportEnds, RowsShrink
<1>3. CASE outbox[d] = "none"
  <2>1. outbox' = [outbox EXCEPT ![d] = outcome] BY <1>3 DEF SettleWorkerReport
  <2>2. ClaimLife' = [ClaimLife EXCEPT ![d] = "over"]
    BY <1>1 DEF ClaimLife, ReportEnds, RowsShrink
  <2>3. ClaimPlace' = [ClaimPlace EXCEPT ![d] = NoTerminal]
    BY <1>1 DEF ClaimPlace, ReportEnds, RowsShrink
  <2>4. \A e \in DispatchIds : Claim!Held(e) /\ ClaimOwner[e] = ClaimOwner[d] => e = d
    BY <1>1, ClaimOf DEF Claim!Held, ReportEnds, ActiveOf
  <2>5. Claim!Report(d, outcome)
    BY <1>1, <1>2, <1>3, <2>1, <2>2, <2>3, <2>4, ClaimOf
    DEF Claim!Report, Claim!Sole, ReportEnds
  <2> QED BY <2>5 DEF Claim!Next
<1>4. CASE outbox[d] # "none"
  <2>1. outbox' = outbox BY <1>4 DEF SettleWorkerReport
  <2>2. QuietStep BY <1>1, <2>1 DEF ReportEnds, QuietStep
  <2> QED BY <2>2, QuietRefines
<1> QED BY <1>3, <1>4

\* Attaching a terminal to a starting worker attaches it to the claim.
LEMMA AttachRefines ==
    ASSUME IInv, NEW d \in DispatchIds, NEW term \in Terminals,
           PrepareStartingWorkerAuthority(d, term)
    PROVE  [Claim!Next]_(Claim!vars)
<1>1. /\ dispatch[d].status = "pending" /\ Occupied(term) \subseteq {d}
      /\ dispatch' = [dispatch EXCEPT ![d].assignee = term, ![d].capability = "live"]
      /\ outbox' = outbox
  BY DEF PrepareStartingWorkerAuthority, Starting
<1>2. /\ \A e \in DispatchIds \ {d} : dispatch'[e] = dispatch[e]
      /\ dispatch'[d].task = dispatch[d].task /\ dispatch'[d].assignee = term
      /\ dispatch'[d].status = dispatch[d].status
  BY <1>1 DEF IInv, TypeOK, DispatchRows
<1>3. Active(d) /\ Active(d)' BY <1>1, <1>2 DEF Active, ActiveStatuses
<1>4. ClaimLife' = ClaimLife BY <1>2 DEF ClaimLife, Active, Exists
<1>5. ClaimOwner' = ClaimOwner BY <1>2 DEF ClaimOwner
<1>6. ClaimPlace' = [ClaimPlace EXCEPT ![d] = term]
  BY <1>2, <1>3 DEF ClaimPlace, Active
<1>7. \A e \in DispatchIds : Claim!Held(e) /\ ClaimPlace[e] = term => e = d
  BY <1>1, ClaimOf DEF Claim!Held, Occupied
<1>8. Claim!Attach(d, term)
  BY <1>1, <1>3, <1>4, <1>5, <1>6, <1>7, ClaimOf DEF Claim!Attach, Claim!Free, Claim!Held
<1> QED BY <1>8 DEF Claim!Next

\* A new active row takes the task and, if it starts with one, the terminal.
LEMMA TakeRefines ==
    ASSUME IInv, NEW d \in DispatchIds, NEW t \in Tasks,
           NEW term \in Terminals \cup {NoTerminal}, FreshDispatch(d),
           \A e \in DispatchIds \ {d} : dispatch'[e] = dispatch[e],
           dispatch'[d].task = t, dispatch'[d].assignee = term,
           dispatch'[d].status \in ActiveStatuses,
           ActiveOf(t) = {}, term # NoTerminal => Occupied(term) = {}, outbox' = outbox
    PROVE  [Claim!Next]_(Claim!vars)
<1>1. ~Exists(d) /\ ~Active(d)
  BY ActiveExists, BoundsAssumption DEF FreshDispatch, DispatchIds
<1>2. Active(d)' /\ Exists(d)' BY DEF Active, Exists, ActiveStatuses
<1>3. ClaimLife' = [ClaimLife EXCEPT ![d] = "held"] BY <1>2 DEF ClaimLife, Active, Exists
<1>4. ClaimOwner' = [ClaimOwner EXCEPT ![d] = t] BY DEF ClaimOwner
<1>5. ClaimPlace' = [ClaimPlace EXCEPT ![d] = term] BY <1>2 DEF ClaimPlace, Active
<1>6. Claim!Sole(d, t) BY ClaimOf DEF Claim!Sole, Claim!Held, ActiveOf
<1>7. Claim!Free(term, d)
  BY ClaimOf DEF Claim!Free, Claim!Held, Occupied
<1>8. Claim!Take(d, t, term)
  BY <1>1, <1>3, <1>4, <1>5, <1>6, <1>7, ClaimOf DEF Claim!Take
<1> QED BY <1>8 DEF Claim!Next

LEMMA CreateDispatchContextRefines ==
    ASSUME IInv, NEW d \in DispatchIds, NEW t \in Tasks, NEW term \in Terminals,
           CreateDispatchContext(d, t, term)
    PROVE  [Claim!Next]_(Claim!vars)
<1>1. PICK prior \in FailureCounts(t) :
          dispatch' = [dispatch EXCEPT ![d] =
              [NoDispatch EXCEPT !.task = t, !.kind = "context", !.status = "dispatched",
                                 !.failures = prior, !.assignee = term]]
  BY DEF CreateDispatchContext
<1>2. /\ FreshDispatch(d) /\ task[t] = "ready" /\ Occupied(term) = {} /\ outbox' = outbox
  BY DEF CreateDispatchContext, MayClaim
<1>3. /\ \A e \in DispatchIds \ {d} : dispatch'[e] = dispatch[e]
      /\ dispatch'[d].task = t /\ dispatch'[d].assignee = term
      /\ dispatch'[d].status = "dispatched"
  BY <1>1 DEF NoDispatch, IInv, TypeOK
<1>4. ActiveOf(t) = {} BY <1>2, ActiveTaskFact DEF ActiveOf
<1> QED BY <1>2, <1>3, <1>4, TakeRefines DEF ActiveStatuses

LEMMA CreateStartingWorkerDispatchRefines ==
    ASSUME IInv, NEW d \in DispatchIds, NEW t \in Tasks, NEW kind \in {"local", "federated"},
           NEW retryOf \in {0} \cup DispatchIds,
           CreateStartingWorkerDispatch(d, t, kind, retryOf)
    PROVE  [Claim!Next]_(Claim!vars)
<1>1. /\ FreshDispatch(d) /\ MayStart(t, retryOf) /\ outbox' = outbox
      /\ dispatch' = [dispatch EXCEPT ![d] =
             [NoDispatch EXCEPT !.task = t, !.kind = kind, !.status = "pending"]]
  BY DEF CreateStartingWorkerDispatch
<1>2. /\ \A e \in DispatchIds \ {d} : dispatch'[e] = dispatch[e]
      /\ dispatch'[d].task = t /\ dispatch'[d].assignee = NoTerminal
      /\ dispatch'[d].status = "pending"
  BY <1>1 DEF NoDispatch, IInv, TypeOK
<1>3. ActiveOf(t) = {} BY <1>1, MayStartFree
<1> QED BY <1>1, <1>2, <1>3, TakeRefines DEF ActiveStatuses

LEMMA StepRefines == IInv /\ [Next]_vars => [Claim!Next]_(Claim!vars)
<1> SUFFICES ASSUME IInv, [Next]_vars PROVE [Claim!Next]_(Claim!vars) OBVIOUS
<1>1. CASE TaskStep
  <2>1. QuietStep BY <1>1, CreateTaskStep, UpdateTaskStatusStep DEF TaskStep
  <2> QED BY <2>1, QuietRefines
<1>2. CASE ContextStep
  <2>1. \A d \in DispatchIds, t \in Tasks, term \in Terminals :
            CreateDispatchContext(d, t, term) => [Claim!Next]_(Claim!vars)
    BY CreateDispatchContextRefines
  <2>2. \/ \E d \in DispatchIds, t \in Tasks, term \in Terminals :
               CreateDispatchContext(d, t, term)
        \/ QuietStep
    BY <1>2, MintDispatchCapabilityStep, FailDispatchStep, ReleaseContextOnlyDispatchStep
    DEF ContextStep
  <2> QED BY <2>1, <2>2, QuietRefines
<1>3. CASE StartStep
  <2>1. \A d \in DispatchIds, t \in Tasks, kind \in {"local", "federated"},
           retryOf \in {0} \cup DispatchIds :
            CreateStartingWorkerDispatch(d, t, kind, retryOf) => [Claim!Next]_(Claim!vars)
    BY CreateStartingWorkerDispatchRefines
  <2>2. \A d \in DispatchIds, term \in Terminals :
            PrepareStartingWorkerAuthority(d, term) => [Claim!Next]_(Claim!vars)
    BY AttachRefines
  <2>3. \/ \E d \in DispatchIds, t \in Tasks, kind \in {"local", "federated"},
              retryOf \in {0} \cup DispatchIds : CreateStartingWorkerDispatch(d, t, kind, retryOf)
        \/ \E d \in DispatchIds, term \in Terminals : PrepareStartingWorkerAuthority(d, term)
        \/ QuietStep
    BY <1>3, MarkWorkerDispatchReadyStep, FailWorkerStartStep, MarkWorkerStartUnknownStep
    DEF StartStep
  <2> QED BY <2>1, <2>2, <2>3, QuietRefines
<1>4. CASE StopStep
  <2>1. \A d \in DispatchIds : SettleWorkerStop(d) => QuietStep
    BY StoppedStep DEF SettleWorkerStop
  <2>2. QuietStep
    BY <1>4, <2>1, BeginWorkerStopStep, MarkWorkerStopUnknownStep,
       AbandonWorkerDispatchStep, ReconcileMissingWorkerTerminalStep DEF StopStep
  <2> QED BY <2>2, QuietRefines
<1>5. CASE FederationStep
  <2>1. \A d \in DispatchIds : ReconcileFederatedWorkerStop(d) => QuietStep
    BY StoppedStep DEF ReconcileFederatedWorkerStop
  <2>2. QuietStep
    BY <1>5, <2>1, ReconcileFederatedWorkerReadyStep, ReconcileFederatedWorkerEndedStep,
       ResumeFederatedWorkerForTerminalRelayStep DEF FederationStep
  <2> QED BY <2>2, QuietRefines
<1>6. CASE ReportStep
  BY <1>6, ReportRefines DEF ReportStep
<1>7. CASE GateStep
  <2>1. QuietStep BY <1>7, CreateGateStep, AnswerStep DEF GateStep
  <2> QED BY <2>1, QuietRefines
<1>8. CASE UNCHANGED vars
  <2>1. Claim!vars' = Claim!vars
    BY <1>8 DEF vars, Claim!vars, ClaimLife, ClaimOwner, ClaimPlace, Active, Exists
  <2> QED BY <2>1
<1> QED BY <1>1, <1>2, <1>3, <1>4, <1>5, <1>6, <1>7, <1>8 DEF Next

LEMMA InitRefines == Init => Claim!Init
<1> SUFFICES ASSUME Init PROVE Claim!Init OBVIOUS
<1>1. /\ dispatch = [d \in DispatchIds |-> NoDispatch] /\ outbox = [d \in DispatchIds |-> "none"]
  BY DEF Init
<1>2. \A d \in DispatchIds : ~Exists(d) /\ ~Active(d) /\ dispatch[d].task = NoTask
  BY <1>1 DEF NoDispatch, Active, Exists, ActiveStatuses
<1> QED BY <1>1, <1>2 DEF Claim!Init, ClaimLife, ClaimOwner, ClaimPlace

\* The board keeps the promise of TaskClaim for every set of tasks and terminals and any
\* number of dispatches: exclusive claims, over for good, one recorded outcome each.
THEOREM BoardImplementsTaskClaim == Spec => ImplementsTaskClaim
<1>1. Spec => []IInv BY Inductive
<1> QED BY <1>1, InitRefines, StepRefines, PTL DEF Spec, ImplementsTaskClaim, Claim!Spec
=============================================================================
