----------------------- MODULE TaskDispatchReportProofs -----------------------
(***************************************************************************)
(* What the rows of a dispatch, of its worker and of its outbox entry say   *)
(* of each other: who may report, when a capability ends, and that a        *)
(* settled dispatch stays settled.  The invariant of TaskDispatchProofs is  *)
(* used throughout; it says when a row is active, this one what follows.    *)
(***************************************************************************)
EXTENDS TaskDispatchProofs

\* row, w and o: the dispatch, the worker's state and the outbox entry of one attempt.
Sound(row, w, o) ==
    /\ row.status # "absent" => (row.kind = "context" <=> w = "none")
    \* a capability that outlives its row belongs to a stalled start
    /\ row.capability = "live" /\ row.status \notin ActiveStatuses =>
           row.lastFailure = "stalled" /\ w = "failed"
    \* a stop, or a start of unknown outcome, took it back
    /\ w \in {"start_unknown", "stopping", "stop_unknown"} => row.capability # "live"
    \* the outbox repeats what the row says, and such a row can no longer be corrected
    /\ o = "succeeded" => row.status = "completed"
    /\ o = "failed" => row.status = "failed" /\ row.lastFailure # "stalled"
    \* a terminal is attached with a capability, before the worker is ready
    /\ w = "ready" /\ row.kind = "local" =>
           row.status = "dispatched" /\ row.capability = "live"
    /\ w = "starting" /\ row.kind = "local" /\ row.assignee # NoTerminal =>
           row.capability = "live"

SInv == \A d \in DispatchIds : Sound(dispatch[d], worker[d], outbox[d])

\* new may follow old: a settled row keeps its status, unless a stalled start completes.
Final(old, new) ==
    old.status \notin ActiveStatuses \cup {"absent"} =>
        \/ new.status = old.status
        \/ old.status = "failed" /\ old.lastFailure = "stalled" /\ new.status = "completed"

StaysFinal == \A d \in DispatchIds : Final(dispatch[d], dispatch'[d])

-----------------------------------------------------------------------------
(* Rows that close.                                                           *)

LEMMA ClosedFields ==
    ASSUME NEW row \in DispatchRows, NEW status, NEW cause
    PROVE  /\ Closed(row, status, cause).status = status
           /\ Closed(row, status, cause).kind = row.kind
           /\ Closed(row, status, cause).assignee = row.assignee
           /\ Closed(row, status, cause).capability # "live"
           /\ Closed(row, status, cause).lastFailure =
                  IF status = "completed" THEN row.lastFailure ELSE cause
BY DEF Closed, Revoked, DispatchRows

LEMMA FailedFields ==
    ASSUME NEW row \in DispatchRows, NEW cause
    PROVE  /\ Failed(row, cause).status \in {"failed", "circuit_broken"}
           /\ Failed(row, cause).kind = row.kind
           /\ Failed(row, cause).capability # "live"
<1> DEFINE st == IF row.failures + 1 >= BreakAfter THEN "circuit_broken" ELSE "failed"
           c == Closed(row, st, cause)
<1>1. st \in {"failed", "circuit_broken"} OBVIOUS
<1>2. Failed(row, cause) = [c EXCEPT !.failures = @ + 1] BY DEF Failed
<1> HIDE DEF st
<1>3. c.status = st /\ c.kind = row.kind /\ c.capability # "live" BY ClosedFields
<1>4. \E x \in DispatchRows : DOMAIN c = DOMAIN x BY DEF Closed, DispatchRows
<1> HIDE DEF c
<1>5. DOMAIN c = {"task", "kind", "status", "failures", "lastFailure", "assignee", "capability"}
  BY <1>4 DEF DispatchRows
<1> QED BY <1>1, <1>2, <1>3, <1>5

\* A row that is not active any more, of a worker that is not open any more.
LEMMA ClosedSound ==
    ASSUME NEW d \in DispatchIds, Active(d), SInv, NEW row, NEW w,
           row.status \in {"completed", "failed", "circuit_broken"},
           row.kind = dispatch[d].kind, row.capability # "live",
           w = worker[d] \/ (worker[d] # "none" /\ w \in SettledStates),
           w \notin {"ready", "starting"}
    PROVE  Sound(row, w, outbox[d]) /\ Final(dispatch[d], row)
<1>1. Sound(dispatch[d], worker[d], outbox[d]) BY DEF SInv
<1>2. dispatch[d].status \in ActiveStatuses BY DEF Active
<1>3. outbox[d] # "succeeded" /\ outbox[d] # "failed"
  BY <1>1, <1>2 DEF Sound, ActiveStatuses
<1>4. w = "none" <=> worker[d] = "none" BY DEF SettledStates
<1> QED BY <1>1, <1>2, <1>3, <1>4 DEF Sound, Final, ActiveStatuses

LEMMA OneRow ==
    ASSUME SInv, NEW d \in DispatchIds,
           \A e \in DispatchIds \ {d} :
               dispatch'[e] = dispatch[e] /\ worker'[e] = worker[e] /\ outbox'[e] = outbox[e],
           Sound(dispatch'[d], worker'[d], outbox'[d]), Final(dispatch[d], dispatch'[d])
    PROVE  SInv' /\ StaysFinal
<1>1. \A e \in DispatchIds \ {d} : Final(dispatch[e], dispatch'[e]) BY DEF Final
<1>2. StaysFinal BY <1>1 DEF StaysFinal
<1>3. SInv' BY DEF SInv
<1> QED BY <1>2, <1>3

LEMMA NoRow ==
    ASSUME SInv, dispatch' = dispatch, worker' = worker, outbox' = outbox
    PROVE  SInv' /\ StaysFinal
BY DEF SInv, StaysFinal, Final

-----------------------------------------------------------------------------
(* Steps that end one dispatch.                                               *)

LEMMA FailDispatchSound ==
    ASSUME IInv, SInv, NEW d \in DispatchIds, NEW exited \in BOOLEAN,
           NEW cause \in {"stalled", "other"}, FailDispatch(d, exited, cause)
    PROVE  SInv' /\ StaysFinal
<1> DEFINE row == Failed(dispatch[d], cause)
<1>1. /\ Active(d) /\ dispatch' = [dispatch EXCEPT ![d] = row]
      /\ worker' = WorkerAfterFailure(d, exited) /\ outbox' = outbox
      /\ exited \/ ~Unsettled(d)
  BY DEF FailDispatch
<1>2. dispatch[d] \in DispatchRows BY <1>1, RowOf
<1>3. /\ row.status \in {"completed", "failed", "circuit_broken"}
      /\ row.kind = dispatch[d].kind /\ row.capability # "live"
  BY <1>2, FailedFields
<1> HIDE DEF row
<1>4. dispatch'[d] = row /\ \A e \in DispatchIds \ {d} : dispatch'[e] = dispatch[e]
  BY <1>1 DEF IInv, TypeOK
<1>5. /\ \A e \in DispatchIds \ {d} : worker'[e] = worker[e]
      /\ worker'[d] = worker[d] \/ (worker[d] # "none" /\ worker'[d] \in SettledStates)
      /\ worker'[d] \notin {"ready", "starting"}
  BY <1>1 DEF WorkerAfterFailure, Unsettled, UnsettledStates, SettledStates, IInv, TypeOK
<1>6. Sound(row, worker'[d], outbox[d]) /\ Final(dispatch[d], row)
  BY <1>1, <1>3, <1>5, ClosedSound
<1> QED BY <1>1, <1>4, <1>5, <1>6, OneRow

LEMMA ReleaseContextOnlyDispatchSound ==
    ASSUME IInv, SInv, NEW d \in DispatchIds, ReleaseContextOnlyDispatch(d)
    PROVE  SInv' /\ StaysFinal
<1> DEFINE row == Closed(dispatch[d], "failed", "other")
<1>1. /\ Active(d) /\ dispatch' = [dispatch EXCEPT ![d] = row] /\ worker[d] = "none"
      /\ worker' = worker /\ outbox' = outbox
  BY DEF ReleaseContextOnlyDispatch
<1>2. dispatch[d] \in DispatchRows BY <1>1, RowOf
<1>3. row.status = "failed" /\ row.kind = dispatch[d].kind /\ row.capability # "live"
  BY <1>2, ClosedFields
<1> HIDE DEF row
<1>4. dispatch'[d] = row /\ \A e \in DispatchIds \ {d} : dispatch'[e] = dispatch[e]
  BY <1>1 DEF IInv, TypeOK
<1>5. Sound(row, worker[d], outbox[d]) /\ Final(dispatch[d], row)
  BY <1>1, <1>3, ClosedSound
<1> QED BY <1>1, <1>4, <1>5, OneRow

LEMMA FailWorkerStartSound ==
    ASSUME IInv, SInv, NEW d \in DispatchIds, NEW stalled \in BOOLEAN,
           FailWorkerStart(d, stalled)
    PROVE  SInv' /\ StaysFinal
<1> DEFINE lf == IF stalled THEN "stalled" ELSE "other"
           cp == IF stalled THEN dispatch[d].capability ELSE Revoked(dispatch[d].capability)
           row == [dispatch[d] EXCEPT !.status = "failed", !.lastFailure = lf, !.capability = cp]
<1>1. /\ worker[d] = "starting" /\ worker' = [worker EXCEPT ![d] = "failed"] /\ outbox' = outbox
  BY DEF FailWorkerStart
<1>2. dispatch[d] \in DispatchRows BY <1>1, RowOf
<1>3. dispatch' = [dispatch EXCEPT ![d] = row]
  BY DEF FailWorkerStart, IInv, TypeOK
<1>4. cp # "live" \/ lf = "stalled" BY DEF Revoked
<1>5. row.status = "failed" /\ row.kind = dispatch[d].kind /\ row.capability = cp
      /\ row.lastFailure = lf
  BY <1>2 DEF DispatchRows
<1> HIDE DEF row, cp, lf
<1>6. /\ dispatch'[d] = row /\ \A e \in DispatchIds \ {d} : dispatch'[e] = dispatch[e]
      /\ worker'[d] = "failed" /\ \A e \in DispatchIds \ {d} : worker'[e] = worker[e]
  BY <1>1, <1>3 DEF IInv, TypeOK
<1>7. dispatch[d].status = "pending" BY <1>1 DEF IInv, StartingIsPending
<1>8. Sound(dispatch[d], worker[d], outbox[d]) BY DEF SInv
<1>9. Sound(row, "failed", outbox[d])
  BY <1>1, <1>4, <1>5, <1>7, <1>8 DEF Sound, ActiveStatuses
<1>10. Final(dispatch[d], row) BY <1>7 DEF Final, ActiveStatuses
<1> QED BY <1>1, <1>6, <1>9, <1>10, OneRow

LEMMA StoppedSound ==
    ASSUME IInv, SInv, NEW d \in DispatchIds, worker[d] \in {"stopping", "stop_unknown"},
           Stopped(d)
    PROVE  SInv' /\ StaysFinal
<1> DEFINE row == [dispatch[d] EXCEPT !.status = "failed", !.lastFailure = "other"]
<1>1. worker' = [worker EXCEPT ![d] = "stopped"] /\ outbox' = outbox
      /\ dispatch' = RowsAfterStop(d)
  BY DEF Stopped
<1>2. dispatch[d] \in DispatchRows BY RowOf
<1>3. worker'[d] = "stopped" /\ \A e \in DispatchIds \ {d} : worker'[e] = worker[e]
  BY <1>1 DEF IInv, TypeOK
<1>4. Sound(dispatch[d], worker[d], outbox[d]) BY DEF SInv
<1>5. CASE Active(d)
  <2>1. dispatch' = [dispatch EXCEPT ![d] = row]
    BY <1>1, <1>5 DEF RowsAfterStop, IInv, TypeOK
  <2>2. row.status = "failed" /\ row.kind = dispatch[d].kind
        /\ row.capability = dispatch[d].capability
    BY <1>2 DEF DispatchRows
  <2> HIDE DEF row
  <2>3. dispatch'[d] = row /\ \A e \in DispatchIds \ {d} : dispatch'[e] = dispatch[e]
    BY <2>1 DEF IInv, TypeOK
  <2>4. row.capability # "live" BY <1>4, <2>2 DEF Sound
  <2>5. "stopped" \in SettledStates BY DEF SettledStates
  <2>6. Sound(row, "stopped", outbox[d]) /\ Final(dispatch[d], row)
    BY <1>5, <2>2, <2>4, <2>5, ClosedSound
  <2> QED BY <1>1, <1>3, <2>3, <2>6, OneRow
<1>6. CASE ~Active(d)
  <2>1. dispatch' = dispatch BY <1>1, <1>6 DEF RowsAfterStop
  <2>2. Sound(dispatch[d], "stopped", outbox[d]) BY <1>4 DEF Sound
  <2>3. Final(dispatch[d], dispatch[d]) BY DEF Final
  <2> QED BY <1>1, <1>3, <2>1, <2>2, <2>3, OneRow
<1> QED BY <1>5, <1>6

LEMMA AbandonWorkerDispatchSound ==
    ASSUME IInv, SInv, NEW d \in DispatchIds, AbandonWorkerDispatch(d)
    PROVE  SInv' /\ StaysFinal
<1> DEFINE st == IF Active(d) THEN "failed" ELSE dispatch[d].status
           cp == Revoked(dispatch[d].capability)
           row == [dispatch[d] EXCEPT !.status = st, !.capability = cp]
<1>1. /\ worker[d] # "none" /\ worker' = [worker EXCEPT ![d] = "abandoned"] /\ outbox' = outbox
  BY DEF AbandonWorkerDispatch
<1>2. dispatch[d] \in DispatchRows /\ Exists(d) BY <1>1, RowOf
<1>3. dispatch' = [dispatch EXCEPT ![d] = row]
  BY DEF AbandonWorkerDispatch, IInv, TypeOK
<1>4. cp # "live" BY DEF Revoked
<1>5. row.status = st /\ row.kind = dispatch[d].kind /\ row.capability = cp
      /\ row.lastFailure = dispatch[d].lastFailure
  BY <1>2 DEF DispatchRows
<1>6. Active(d) => st = "failed" BY DEF Active
<1>7. ~Active(d) => st = dispatch[d].status BY DEF Active
<1> HIDE DEF row, cp, st
<1>8. /\ dispatch'[d] = row /\ \A e \in DispatchIds \ {d} : dispatch'[e] = dispatch[e]
      /\ worker'[d] = "abandoned" /\ \A e \in DispatchIds \ {d} : worker'[e] = worker[e]
  BY <1>1, <1>3 DEF IInv, TypeOK
<1>9. Sound(dispatch[d], worker[d], outbox[d]) BY DEF SInv
<1>10. Sound(row, "abandoned", outbox[d])
  BY <1>1, <1>2, <1>4, <1>5, <1>6, <1>7, <1>9 DEF Sound, ActiveStatuses, Active, Exists
<1>11. Final(dispatch[d], row) BY <1>5, <1>7 DEF Final, Active
<1> QED BY <1>1, <1>8, <1>10, <1>11, OneRow

LEMMA ReconcileMissingWorkerTerminalSound ==
    ASSUME IInv, SInv, NEW d \in DispatchIds, ReconcileMissingWorkerTerminal(d)
    PROVE  SInv' /\ StaysFinal
<1> DEFINE row == Failed(dispatch[d], "other")
           end == IF worker[d] \in {"stopping", "stop_unknown"} THEN "stopped" ELSE "abandoned"
<1>1. /\ Active(d) /\ Unsettled(d) /\ dispatch' = [dispatch EXCEPT ![d] = row]
      /\ worker' = [worker EXCEPT ![d] = end] /\ outbox' = outbox
  BY DEF ReconcileMissingWorkerTerminal
<1>2. dispatch[d] \in DispatchRows BY <1>1, RowOf
<1>3. /\ row.status \in {"completed", "failed", "circuit_broken"}
      /\ row.kind = dispatch[d].kind /\ row.capability # "live"
  BY <1>2, FailedFields
<1>4. end \in {"stopped", "abandoned"} /\ end \in SettledStates /\ worker[d] # "none"
  BY <1>1 DEF SettledStates, Unsettled, UnsettledStates
<1> HIDE DEF row, end
<1>5. /\ dispatch'[d] = row /\ \A e \in DispatchIds \ {d} : dispatch'[e] = dispatch[e]
      /\ worker'[d] = end /\ \A e \in DispatchIds \ {d} : worker'[e] = worker[e]
  BY <1>1 DEF IInv, TypeOK
<1>6. Sound(row, end, outbox[d]) /\ Final(dispatch[d], row)
  BY <1>1, <1>3, <1>4, ClosedSound
<1> QED BY <1>1, <1>5, <1>6, OneRow

LEMMA ReconcileFederatedWorkerEndedSound ==
    ASSUME IInv, SInv, NEW d \in DispatchIds, NEW state \in {"failed", "stopped"},
           NEW cause \in {"stalled", "other"}, ReconcileFederatedWorkerEnded(d, state, cause)
    PROVE  SInv' /\ StaysFinal
<1> DEFINE row == Closed(dispatch[d], "failed", cause)
<1>1. worker[d] \in {"starting", "start_unknown"} /\ outbox' = outbox
      /\ worker' = [worker EXCEPT ![d] = state]
  BY DEF ReconcileFederatedWorkerEnded
<1>2. dispatch[d].status = "pending" /\ Active(d) /\ dispatch[d] \in DispatchRows
  BY <1>1, RowOf DEF IInv, StartingIsPending, Active, ActiveStatuses
<1>3. dispatch' = [dispatch EXCEPT ![d] = row]
  BY <1>2 DEF ReconcileFederatedWorkerEnded
<1>4. row.status = "failed" /\ row.kind = dispatch[d].kind /\ row.capability # "live"
  BY <1>2, ClosedFields
<1> HIDE DEF row
<1>5. /\ dispatch'[d] = row /\ \A e \in DispatchIds \ {d} : dispatch'[e] = dispatch[e]
      /\ worker'[d] = state /\ \A e \in DispatchIds \ {d} : worker'[e] = worker[e]
  BY <1>1, <1>3 DEF IInv, TypeOK
<1>6. state \in SettledStates /\ worker[d] # "none" BY <1>1 DEF SettledStates
<1>7. Sound(row, state, outbox[d]) /\ Final(dispatch[d], row)
  BY <1>2, <1>4, <1>6, ClosedSound
<1> QED BY <1>1, <1>5, <1>7, OneRow

-----------------------------------------------------------------------------
(* Steps that settle every active dispatch of a task.                         *)

\* A row under no supervised worker closes soundly.
LEMMA SettleActiveSound ==
    ASSUME IInv, SInv, NEW t, NEW status \in {"completed", "failed"}, ActiveWorkers(t) = {},
           dispatch' = SettleActive(dispatch, t, status), worker' = worker, outbox' = outbox
    PROVE  SInv' /\ StaysFinal
<1>1. \A e \in DispatchIds : dispatch[e] \in DispatchRows BY DEF IInv, TypeOK
<1> SUFFICES ASSUME NEW e \in DispatchIds
             PROVE  /\ Sound(dispatch'[e], worker'[e], outbox'[e])
                    /\ Final(dispatch[e], dispatch'[e])
  BY DEF SInv, StaysFinal
<1>2. CASE dispatch[e].task = t /\ Active(e)
  <2> DEFINE row == Closed(dispatch[e], status, "other")
  <2>1. dispatch'[e] = row BY <1>2 DEF SettleActive, Active
  <2>2. row.status = status /\ row.kind = dispatch[e].kind /\ row.capability # "live"
    BY <1>1, ClosedFields
  <2> HIDE DEF row
  <2>3. worker[e] \notin {"ready", "starting"}
    BY <1>2 DEF ActiveWorkers, ActiveOf, Unsettled, UnsettledStates
  <2> QED BY <1>2, <2>1, <2>2, <2>3, ClosedSound
<1>3. CASE ~(dispatch[e].task = t /\ Active(e))
  <2>1. dispatch'[e] = dispatch[e] BY <1>3 DEF SettleActive, Active
  <2> QED BY <2>1 DEF SInv, Final
<1> QED BY <1>2, <1>3

LEMMA MoveTaskSound ==
    ASSUME IInv, SInv, NEW t, NEW status, MoveTask(t, status),
           worker' = worker, outbox' = outbox
    PROVE  SInv' /\ StaysFinal
<1>1. CASE status \in {"completed", "failed"}
  <2>1. ActiveWorkers(t) = {} /\ dispatch' = SettleActive(dispatch, t, status)
    BY <1>1 DEF MoveTask, MayMove
  <2> QED BY <1>1, <2>1, SettleActiveSound
<1>2. CASE status \notin {"completed", "failed"}
  <2>1. dispatch' = dispatch BY <1>2 DEF MoveTask
  <2> QED BY <2>1, NoRow
<1> QED BY <1>1, <1>2

LEMMA CreateGateSound ==
    ASSUME IInv, SInv, NEW g \in GateIds, NEW t \in Tasks, NEW fromWorker \in BOOLEAN,
           CreateGate(g, t, fromWorker)
    PROVE  SInv' /\ StaysFinal
<1>1. /\ ActiveWorkers(t) = {} /\ dispatch' = SettleActive(dispatch, t, "completed")
      /\ worker' = worker /\ outbox' = outbox
  BY DEF CreateGate
<1> QED BY <1>1, SettleActiveSound

\* The row of the report closes; no other dispatch of the task is active, so the rest stay.
LEMMA SettleWorkerReportSound ==
    ASSUME IInv, SInv, NEW d \in DispatchIds, NEW outcome \in {"succeeded", "failed"},
           SettleWorkerReport(d, outcome)
    PROVE  SInv' /\ StaysFinal
<1> DEFINE t == dispatch[d].task
           settled == IF outcome = "succeeded" THEN "completed" ELSE "failed"
           row == Closed(dispatch[d], settled, "other")
           own == [dispatch EXCEPT ![d] = row]
<1>1. /\ Exists(d)
      /\ \/ SettledByUnobservedPrompt(d)
         \/ dispatch[d].status = "dispatched"
      /\ worker[d] = "none" => Active(d)
      /\ dispatch' = SettleActive(own, t, settled)
      /\ worker' = worker \/ (worker' = [worker EXCEPT ![d] = outcome] /\ worker[d] # "none")
      /\ dispatch[d].status = "dispatched" /\ worker[d] = "ready" =>
             worker' = [worker EXCEPT ![d] = outcome]
      /\ outbox' = IF outbox[d] = "none" THEN [outbox EXCEPT ![d] = outcome] ELSE outbox
  BY DEF SettleWorkerReport, AcceptsReport, SettledByUnobservedPrompt
<1>2. t \in Tasks /\ dispatch[d] \in DispatchRows /\ dispatch \in [DispatchIds -> DispatchRows]
  BY <1>1 DEF IInv, TypeOK, RowsBelongToTasks
<1>3. settled \in {"completed", "failed"} /\ settled \in DispatchStatuses \ ActiveStatuses
      /\ (outcome = "succeeded" <=> settled = "completed")
  BY DEF DispatchStatuses, ActiveStatuses
<1> HIDE DEF settled
<1>4. /\ row.status = settled /\ row.kind = dispatch[d].kind /\ row.capability # "live"
      /\ row.lastFailure = IF settled = "completed" THEN dispatch[d].lastFailure ELSE "other"
  BY <1>2, ClosedFields
<1> HIDE DEF row
<1>5. own[d] = row /\ \A e \in DispatchIds \ {d} : own[e] = dispatch[e]
  BY <1>2
<1> HIDE DEF own
<1>6. dispatch'[d] = row
  BY <1>1, <1>3, <1>4, <1>5 DEF SettleActive
<1>7. ActiveOf(t) \subseteq {d} BY SettleWorkerReportStep DEF ReportEnds
<1>8. \A e \in DispatchIds \ {d} : dispatch'[e] = dispatch[e]
  BY <1>1, <1>5, <1>7 DEF SettleActive, ActiveOf, Active
<1>9. /\ \A e \in DispatchIds \ {d} : worker'[e] = worker[e] /\ outbox'[e] = outbox[e]
      /\ worker'[d] \in {worker[d], outcome}
      /\ worker[d] = "none" => worker'[d] = "none"
      /\ dispatch[d].status = "dispatched" /\ worker[d] = "ready" => worker'[d] = outcome
      /\ outbox'[d] = IF outbox[d] = "none" THEN outcome ELSE outbox[d]
      /\ outbox[d] \in {"none", "succeeded", "failed"}
  BY <1>1 DEF IInv, TypeOK
<1>10. Sound(dispatch[d], worker[d], outbox[d]) BY DEF SInv
<1>11. worker[d] \in {"starting", "start_unknown"} => dispatch[d].status = "pending"
  BY DEF IInv, StartingIsPending
<1>12. \/ dispatch[d].status = "failed" /\ dispatch[d].lastFailure = "stalled"
       \/ dispatch[d].status = "dispatched"
  BY <1>1 DEF SettledByUnobservedPrompt
<1>13. outbox'[d] = outcome BY <1>9, <1>10, <1>12 DEF Sound
<1>14. worker'[d] = "ready" => row.kind # "local"
  BY <1>4, <1>9, <1>10, <1>12 DEF Sound
<1>15. worker'[d] # "starting" BY <1>9, <1>11, <1>12
<1>16. Sound(row, worker'[d], outcome)
  BY <1>1, <1>3, <1>4, <1>9, <1>10, <1>14, <1>15 DEF Sound, Exists
<1>17. Final(dispatch[d], row) BY <1>3, <1>4, <1>12 DEF Final, ActiveStatuses
<1> QED BY <1>6, <1>8, <1>9, <1>13, <1>16, <1>17, OneRow

-----------------------------------------------------------------------------
(* Steps that leave the row active, and new rows.                             *)

LEMMA MintDispatchCapabilitySound ==
    ASSUME IInv, SInv, NEW d \in DispatchIds, MintDispatchCapability(d)
    PROVE  SInv' /\ StaysFinal
<1>1. /\ Active(d) /\ dispatch[d].kind = "context"
      /\ dispatch' = [dispatch EXCEPT ![d].capability = "live"]
      /\ worker' = worker /\ outbox' = outbox
  BY DEF MintDispatchCapability
<1>2. dispatch[d] \in DispatchRows /\ Exists(d) BY <1>1, RowOf
<1>3. /\ \A e \in DispatchIds \ {d} : dispatch'[e] = dispatch[e]
      /\ dispatch'[d].status = dispatch[d].status /\ dispatch'[d].kind = dispatch[d].kind
      /\ dispatch'[d].lastFailure = dispatch[d].lastFailure
  BY <1>1, <1>2 DEF IInv, TypeOK, DispatchRows
<1>4. Sound(dispatch[d], worker[d], outbox[d]) BY DEF SInv
<1>5. Sound(dispatch'[d], worker[d], outbox[d])
  BY <1>1, <1>2, <1>3, <1>4 DEF Sound, Active, Exists
<1>6. Final(dispatch[d], dispatch'[d]) BY <1>3 DEF Final
<1> QED BY <1>1, <1>3, <1>5, <1>6, OneRow

LEMMA PrepareStartingWorkerAuthoritySound ==
    ASSUME IInv, SInv, NEW d \in DispatchIds, NEW term \in Terminals,
           PrepareStartingWorkerAuthority(d, term)
    PROVE  SInv' /\ StaysFinal
<1>1. /\ worker[d] = "starting" /\ dispatch[d].status = "pending"
      /\ dispatch' = [dispatch EXCEPT ![d].assignee = term, ![d].capability = "live"]
      /\ worker' = worker /\ outbox' = outbox
  BY DEF PrepareStartingWorkerAuthority, Starting
<1>2. dispatch[d] \in DispatchRows BY <1>1, RowOf
<1>3. /\ \A e \in DispatchIds \ {d} : dispatch'[e] = dispatch[e]
      /\ dispatch'[d].status = "pending" /\ dispatch'[d].kind = dispatch[d].kind
      /\ dispatch'[d].capability = "live"
  BY <1>1, <1>2 DEF IInv, TypeOK, DispatchRows
<1>4. Sound(dispatch[d], worker[d], outbox[d]) BY DEF SInv
<1>5. Sound(dispatch'[d], worker[d], outbox[d])
  BY <1>1, <1>3, <1>4 DEF Sound, ActiveStatuses
<1>6. Final(dispatch[d], dispatch'[d]) BY <1>1 DEF Final, ActiveStatuses
<1> QED BY <1>1, <1>3, <1>5, <1>6, OneRow

LEMMA MarkWorkerDispatchReadySound ==
    ASSUME IInv, SInv, NEW d \in DispatchIds, MarkWorkerDispatchReady(d)
    PROVE  SInv' /\ StaysFinal
<1>1. /\ dispatch[d].status = "pending" /\ worker[d] = "starting"
      /\ dispatch[d].kind = "local" => dispatch[d].assignee # NoTerminal
      /\ dispatch' = [dispatch EXCEPT ![d].status = "dispatched"]
      /\ worker' = [worker EXCEPT ![d] = "ready"] /\ outbox' = outbox
  BY DEF MarkWorkerDispatchReady, Starting
<1>2. dispatch[d] \in DispatchRows BY <1>1, RowOf
<1>3. /\ \A e \in DispatchIds \ {d} : dispatch'[e] = dispatch[e] /\ worker'[e] = worker[e]
      /\ dispatch'[d].status = "dispatched" /\ dispatch'[d].kind = dispatch[d].kind
      /\ dispatch'[d].capability = dispatch[d].capability /\ worker'[d] = "ready"
  BY <1>1, <1>2 DEF IInv, TypeOK, DispatchRows
<1>4. Sound(dispatch[d], worker[d], outbox[d]) BY DEF SInv
<1>5. Sound(dispatch'[d], "ready", outbox[d])
  BY <1>1, <1>3, <1>4 DEF Sound, ActiveStatuses
<1>6. Final(dispatch[d], dispatch'[d]) BY <1>1 DEF Final, ActiveStatuses
<1> QED BY <1>1, <1>3, <1>5, <1>6, OneRow

\* A start of unknown outcome and a stop that begins write the same row.
LEMMA RevokingSound ==
    ASSUME IInv, SInv, NEW d \in DispatchIds, NEW w \in {"start_unknown", "stopping"},
           worker[d] \in {"starting", "ready", "start_unknown"},
           worker' = [worker EXCEPT ![d] = w],
           dispatch' = [dispatch EXCEPT ![d].capability = Revoked(@)], outbox' = outbox
    PROVE  SInv' /\ StaysFinal
<1>1. dispatch[d] \in DispatchRows BY RowOf
<1>2. Revoked(dispatch[d].capability) # "live" BY DEF Revoked
<1>3. /\ \A e \in DispatchIds \ {d} : dispatch'[e] = dispatch[e] /\ worker'[e] = worker[e]
      /\ dispatch'[d].status = dispatch[d].status /\ dispatch'[d].kind = dispatch[d].kind
      /\ dispatch'[d].lastFailure = dispatch[d].lastFailure
      /\ dispatch'[d].capability # "live" /\ worker'[d] = w
  BY <1>1, <1>2 DEF IInv, TypeOK, DispatchRows
<1>4. Sound(dispatch[d], worker[d], outbox[d]) BY DEF SInv
<1>5. Sound(dispatch'[d], w, outbox[d]) BY <1>3, <1>4 DEF Sound
<1>6. Final(dispatch[d], dispatch'[d]) BY <1>3 DEF Final
<1> QED BY <1>3, <1>5, <1>6, OneRow

LEMMA MarkWorkerStopUnknownSound ==
    ASSUME IInv, SInv, NEW d \in DispatchIds, MarkWorkerStopUnknown(d)
    PROVE  SInv' /\ StaysFinal
<1>1. /\ worker[d] = "stopping" /\ worker' = [worker EXCEPT ![d] = "stop_unknown"]
      /\ dispatch' = dispatch /\ outbox' = outbox
  BY DEF MarkWorkerStopUnknown
<1>2. worker'[d] = "stop_unknown" /\ \A e \in DispatchIds \ {d} : worker'[e] = worker[e]
  BY <1>1 DEF IInv, TypeOK
<1>3. Sound(dispatch[d], worker[d], outbox[d]) BY DEF SInv
<1>4. Sound(dispatch[d], "stop_unknown", outbox[d]) BY <1>1, <1>3 DEF Sound
<1>5. Final(dispatch[d], dispatch[d]) BY DEF Final
<1> QED BY <1>1, <1>2, <1>4, <1>5, OneRow

LEMMA ReconcileFederatedWorkerReadySound ==
    ASSUME IInv, SInv, NEW d \in DispatchIds, ReconcileFederatedWorkerReady(d)
    PROVE  SInv' /\ StaysFinal
<1>1. /\ dispatch[d].kind = "federated" /\ worker[d] \in {"starting", "start_unknown"}
      /\ worker' = [worker EXCEPT ![d] = "ready"] /\ outbox' = outbox
      /\ dispatch' = [dispatch EXCEPT ![d].status = IF @ = "pending" THEN "dispatched" ELSE @]
  BY DEF ReconcileFederatedWorkerReady
<1>2. dispatch[d] \in DispatchRows /\ dispatch[d].status = "pending"
  BY <1>1, RowOf DEF IInv, StartingIsPending
<1>3. /\ \A e \in DispatchIds \ {d} : dispatch'[e] = dispatch[e] /\ worker'[e] = worker[e]
      /\ dispatch'[d].status = "dispatched" /\ dispatch'[d].kind = "federated"
      /\ worker'[d] = "ready"
  BY <1>1, <1>2 DEF IInv, TypeOK, DispatchRows
<1>4. Sound(dispatch[d], worker[d], outbox[d]) BY DEF SInv
<1>5. Sound(dispatch'[d], "ready", outbox[d])
  BY <1>2, <1>3, <1>4 DEF Sound, ActiveStatuses
<1>6. Final(dispatch[d], dispatch'[d]) BY <1>2 DEF Final, ActiveStatuses
<1> QED BY <1>1, <1>3, <1>5, <1>6, OneRow

LEMMA ResumeFederatedWorkerForTerminalRelaySound ==
    ASSUME IInv, SInv, NEW d \in DispatchIds, ResumeFederatedWorkerForTerminalRelay(d)
    PROVE  SInv' /\ StaysFinal
<1>1. /\ dispatch[d].kind = "federated" /\ worker[d] = "stopping"
      /\ worker' = [worker EXCEPT ![d] = "ready"]
      /\ dispatch' = dispatch /\ outbox' = outbox
  BY DEF ResumeFederatedWorkerForTerminalRelay
<1>2. worker'[d] = "ready" /\ \A e \in DispatchIds \ {d} : worker'[e] = worker[e]
  BY <1>1 DEF IInv, TypeOK
<1>3. Sound(dispatch[d], worker[d], outbox[d]) BY DEF SInv
<1>4. Sound(dispatch[d], "ready", outbox[d]) BY <1>1, <1>3 DEF Sound
<1>5. Final(dispatch[d], dispatch[d]) BY DEF Final
<1> QED BY <1>1, <1>2, <1>4, <1>5, OneRow

\* A fresh row has no outbox entry, and no worker but the one the step gives it.
LEMMA FreshSound ==
    ASSUME IInv, SInv, NEW d \in DispatchIds, FreshDispatch(d),
           \A e \in DispatchIds \ {d} : dispatch'[e] = dispatch[e] /\ worker'[e] = worker[e],
           outbox' = outbox, dispatch'[d].status \in ActiveStatuses,
           \/ worker'[d] = "none" /\ dispatch'[d].kind = "context"
           \/ /\ worker'[d] = "starting" /\ dispatch'[d].kind # "context"
              /\ dispatch'[d].assignee = NoTerminal
    PROVE  SInv' /\ StaysFinal
<1>1. dispatch[d].status = "absent"
  BY BoundsAssumption DEF FreshDispatch, Exists, DispatchIds
<1>2. Sound(dispatch[d], worker[d], outbox[d]) BY DEF SInv
<1>3. outbox[d] # "succeeded" /\ outbox[d] # "failed" BY <1>1, <1>2 DEF Sound
<1>4. Sound(dispatch'[d], worker'[d], outbox[d]) BY <1>3 DEF Sound, ActiveStatuses
<1>5. Final(dispatch[d], dispatch'[d]) BY <1>1 DEF Final
<1> QED BY <1>4, <1>5, OneRow

LEMMA CreateDispatchContextSound ==
    ASSUME IInv, SInv, NEW d \in DispatchIds, NEW t \in Tasks, NEW term \in Terminals,
           CreateDispatchContext(d, t, term)
    PROVE  SInv' /\ StaysFinal
<1>1. PICK prior \in FailureCounts(t) :
          dispatch' = [dispatch EXCEPT ![d] =
              [NoDispatch EXCEPT !.task = t, !.kind = "context", !.status = "dispatched",
                                 !.failures = prior, !.assignee = term]]
  BY DEF CreateDispatchContext
<1>2. FreshDispatch(d) /\ worker' = worker /\ outbox' = outbox BY DEF CreateDispatchContext
<1> DEFINE row == [NoDispatch EXCEPT !.task = t, !.kind = "context", !.status = "dispatched",
                       !.failures = prior, !.assignee = term]
<1>3. row.kind = "context" /\ row.status \in ActiveStatuses BY DEF NoDispatch, ActiveStatuses
<1>4. dispatch' = [dispatch EXCEPT ![d] = row] BY <1>1
<1> HIDE DEF row
<1>5. dispatch'[d] = row /\ \A e \in DispatchIds \ {d} : dispatch'[e] = dispatch[e]
  BY <1>4 DEF IInv, TypeOK
<1>6. worker[d] = "none"
  <2>1. ~Exists(d) BY <1>2, BoundsAssumption DEF FreshDispatch, DispatchIds
  <2> QED BY <2>1 DEF IInv, RowsBelongToTasks
<1> QED BY <1>2, <1>3, <1>5, <1>6, FreshSound

LEMMA CreateStartingWorkerDispatchSound ==
    ASSUME IInv, SInv, NEW d \in DispatchIds, NEW t \in Tasks,
           NEW kind \in {"local", "federated"}, NEW retryOf \in {0} \cup DispatchIds,
           CreateStartingWorkerDispatch(d, t, kind, retryOf)
    PROVE  SInv' /\ StaysFinal
<1> DEFINE row == [NoDispatch EXCEPT !.task = t, !.kind = kind, !.status = "pending"]
<1>1. /\ FreshDispatch(d) /\ outbox' = outbox
      /\ dispatch' = [dispatch EXCEPT ![d] = row]
      /\ worker' = [worker EXCEPT ![d] = "starting"]
  BY DEF CreateStartingWorkerDispatch
<1>2. row.kind # "context" /\ row.status \in ActiveStatuses /\ row.assignee = NoTerminal
  BY DEF NoDispatch, ActiveStatuses
<1> HIDE DEF row
<1>3. /\ dispatch'[d] = row /\ worker'[d] = "starting"
      /\ \A e \in DispatchIds \ {d} : dispatch'[e] = dispatch[e] /\ worker'[e] = worker[e]
  BY <1>1 DEF IInv, TypeOK
<1> QED BY <1>1, <1>2, <1>3, FreshSound

-----------------------------------------------------------------------------
(* The theorems.                                                              *)

LEMMA InitSound == Init => SInv
BY DEF Init, SInv, Sound, NoDispatch

LEMMA NextSound == IInv /\ SInv /\ [Next]_vars => SInv' /\ StaysFinal
<1> SUFFICES ASSUME IInv, SInv, [Next]_vars PROVE SInv' /\ StaysFinal OBVIOUS
<1>1. CASE TaskStep
  <2>1. PICK t \in Tasks : CreateTask(t) \/ \E status \in TaskStatuses : UpdateTaskStatus(t, status)
    BY <1>1 DEF TaskStep
  <2>2. CASE CreateTask(t) BY <2>2, NoRow DEF CreateTask
  <2>3. CASE \E status \in TaskStatuses : UpdateTaskStatus(t, status)
    BY <2>3, MoveTaskSound DEF UpdateTaskStatus
  <2> QED BY <2>1, <2>2, <2>3
<1>2. CASE ContextStep
  BY <1>2, CreateDispatchContextSound, MintDispatchCapabilitySound, FailDispatchSound,
     ReleaseContextOnlyDispatchSound DEF ContextStep
<1>3. CASE StartStep
  <2>1. \A d \in DispatchIds : MarkWorkerStartUnknown(d) => SInv' /\ StaysFinal
    BY RevokingSound DEF MarkWorkerStartUnknown
  <2> QED BY <1>3, <2>1, CreateStartingWorkerDispatchSound, PrepareStartingWorkerAuthoritySound,
             MarkWorkerDispatchReadySound, FailWorkerStartSound DEF StartStep
<1>4. CASE StopStep
  <2>1. \A d \in DispatchIds : BeginWorkerStop(d) => SInv' /\ StaysFinal
    BY RevokingSound DEF BeginWorkerStop
  <2>2. \A d \in DispatchIds : SettleWorkerStop(d) => SInv' /\ StaysFinal
    BY StoppedSound DEF SettleWorkerStop
  <2> QED BY <1>4, <2>1, <2>2, MarkWorkerStopUnknownSound, AbandonWorkerDispatchSound,
             ReconcileMissingWorkerTerminalSound DEF StopStep
<1>5. CASE FederationStep
  <2>1. \A d \in DispatchIds : ReconcileFederatedWorkerStop(d) => SInv' /\ StaysFinal
    BY StoppedSound DEF ReconcileFederatedWorkerStop
  <2> QED BY <1>5, <2>1, ReconcileFederatedWorkerReadySound, ReconcileFederatedWorkerEndedSound,
             ResumeFederatedWorkerForTerminalRelaySound DEF FederationStep
<1>6. CASE ReportStep
  BY <1>6, SettleWorkerReportSound DEF ReportStep
<1>7. CASE GateStep
  <2>1. \A g \in GateIds : ResolveGate(g) \/ RetireGate(g) => SInv' /\ StaysFinal
    BY MoveTaskSound DEF ResolveGate, RetireGate
  <2> QED BY <1>7, <2>1, CreateGateSound DEF GateStep
<1>8. CASE UNCHANGED vars
  BY <1>8, NoRow DEF vars
<1> QED BY <1>1, <1>2, <1>3, <1>4, <1>5, <1>6, <1>7, <1>8 DEF Next

\* The second invariant holds beside the first in every reachable state.
THEOREM SoundRows == Spec => [](IInv /\ SInv)
<1>1. Init => IInv /\ SInv BY InitIInv, InitSound
<1>2. (IInv /\ SInv) /\ [Next]_vars => (IInv /\ SInv)' BY NextIInv, NextSound
<1> QED BY <1>1, <1>2, PTL DEF Spec

\* No stop, exit, report, abandon, gate or failed start leaves a usable capability behind,
\* except a start whose prompt only looked stalled, whose worker may still report.
THEOREM CapabilityDies == Spec => []CapabilityDiesWithDispatch
<1>1. IInv /\ SInv => CapabilityDiesWithDispatch
  BY DEF SInv, Sound, CapabilityDiesWithDispatch, Active
<1> QED BY <1>1, SoundRows, PTL

\* The outcome queued for the ledger is the one the dispatch row ends with, through
\* corrected failures and replayed reports.
THEOREM OutboxAgrees == Spec => []OutboxAgreesWithDispatch
<1>1. IInv /\ SInv => OutboxAgreesWithDispatch
  BY DEF SInv, Sound, OutboxAgreesWithDispatch
<1> QED BY <1>1, SoundRows, PTL

\* From the moment a local worker is ready until it is stopped or settled, nothing that
\* happens around it makes its own report unacceptable.
THEOREM ReadyCanReport == Spec => []ReadyWorkerCanReport
<1>1. IInv /\ SInv => ReadyWorkerCanReport
  <2> SUFFICES ASSUME IInv, SInv, NEW d \in DispatchIds, worker[d] = "ready",
                      dispatch[d].kind = "local"
               PROVE  /\ dispatch[d].status = "dispatched"
                      /\ task[dispatch[d].task] = "dispatched"
                      /\ dispatch[d].capability = "live"
                      /\ ActiveWorkers(dispatch[d].task) = {d}
    BY DEF ReadyWorkerCanReport
  <2>1. dispatch[d].status = "dispatched" /\ dispatch[d].capability = "live"
    BY DEF SInv, Sound
  <2>2. Active(d) BY <2>1 DEF Active, ActiveStatuses
  <2>3. task[dispatch[d].task] = "dispatched" BY <2>2 DEF IInv, ActiveDispatchHoldsTask
  <2>4. d \in ActiveWorkers(dispatch[d].task)
    BY <2>2 DEF ActiveWorkers, ActiveOf, Unsettled, UnsettledStates
  <2>5. ActiveWorkers(dispatch[d].task) = {d} BY <2>2, <2>4, OnlyActive DEF ActiveWorkers
  <2> QED BY <2>1, <2>3, <2>5
<1> QED BY <1>1, SoundRows, PTL

\* No order of late exits, stops, reports, abandons, gates and operators changes how an
\* attempt ended, but for a stalled start that its worker's report corrects.
THEOREM SettledIsFinal == Spec => SettledDispatchIsFinal
<1>1. StaysFinal =>
          \A d \in DispatchIds : Exists(d) /\ ~Active(d) =>
              \/ dispatch'[d].status = dispatch[d].status
              \/ /\ dispatch[d].status = "failed" /\ dispatch[d].lastFailure = "stalled"
                 /\ dispatch'[d].status = "completed"
  BY DEF StaysFinal, Final, Exists, Active
<1>2. (IInv /\ SInv) /\ [Next]_vars =>
          [\A d \in DispatchIds : Exists(d) /\ ~Active(d) =>
              \/ dispatch'[d].status = dispatch[d].status
              \/ /\ dispatch[d].status = "failed" /\ dispatch[d].lastFailure = "stalled"
                 /\ dispatch'[d].status = "completed"]_vars
  BY <1>1, NextSound
<1> QED BY <1>2, SoundRows, PTL DEF Spec, SettledDispatchIsFinal

=============================================================================
