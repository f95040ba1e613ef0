------------------------ MODULE WorkerTerminalEndProofs ------------------------
(***************************************************************************)
(* How the life of a worker's terminal ends: what the user took over stays  *)
(* the user's, a stop is pursued until it has an outcome, and a terminal     *)
(* accounted as released runs no more.                                      *)
(***************************************************************************)
EXTENDS WorkerTerminalProofs

-----------------------------------------------------------------------------
(* What the user took over.                                                   *)

\* One row keeps being the user's.
Remains(r) == resource'[r].ownership = "user_owned"

LEMMA TakenRow ==
    ASSUME RInv, NEW r \in DispatchIds, resource[r].ownership = "user_owned"
    PROVE  /\ attached[r] # 0
           /\ \A q \in DispatchIds : /\ Settle(q)[r] = resource[r]
                                    /\ MarkUnknown(q)[r] = resource[r]
                                    /\ Revert(q)[r] = resource[r]
<1>1. resource \in [DispatchIds -> ResourceRows] BY DEF RInv, ResourceTypeOK
<1>2. resource[r].release = "retained" BY DEF RInv, RowsHold, UserKeepsTerminal
<1>3. attached[r] # 0 BY RowFacts
<1> QED BY <1>1, <1>2, <1>3 DEF Settle, MarkUnknown, Revert, WithRelease, Committed

LEMMA TakenThroughRelease ==
    ASSUME RInv, NEW r \in DispatchIds, resource[r].ownership = "user_owned", Runs(r), ReleaseStep
    PROVE  Remains(r)
<1>1. resource \in [DispatchIds -> ResourceRows] BY DEF RInv, ResourceTypeOK
<1>2. ASSUME NEW d \in DispatchIds, RequestRelease(d) PROVE Remains(r)
  <2>1. PICK q \in OwnedBy(d) :
            /\ MayRequest(d, q)
            /\ resource' = [resource EXCEPT
                   ![q].release = IF @ = "releasing" THEN @ ELSE "requested", ![q].byUser = FALSE]
    BY <1>2 DEF RequestRelease
  <2>2. q # r BY <2>1 DEF MayRequest
  <2> QED BY <1>1, <2>1, <2>2 DEF Remains
<1>3. ASSUME NEW d \in DispatchIds, Retain(d) PROVE Remains(r)
  <2>1. PICK q \in OwnedBy(d) :
            resource' = [resource EXCEPT ![q].release = "retained", ![q].byUser = TRUE]
    BY <1>3 DEF Retain
  <2>2. q \in DispatchIds BY DEF OwnedBy
  <2>3. CASE q = r
    <3> DEFINE row == [resource[r] EXCEPT !.release = "retained", !.byUser = TRUE]
    <3>1. resource'[r] = row BY <1>1, <2>1, <2>3
    <3>2. row.ownership = "user_owned" BY <1>1 DEF ResourceRows
    <3> QED BY <3>1, <3>2 DEF Remains
  <2>4. CASE q # r BY <1>1, <2>1, <2>4 DEF Remains
  <2> QED BY <2>3, <2>4
<1>4. ASSUME NEW d \in DispatchIds, NEW q \in DispatchIds, SettleDead(d, q) PROVE Remains(r)
  <2>1. /\ q # r
        /\ resource' = [resource EXCEPT ![q].release = "released", ![q].ownership = "released"]
    BY <1>4 DEF SettleDead
  <2> QED BY <1>1, <2>1 DEF Remains
<1>5. ASSUME NEW q \in DispatchIds,
             resource' \in {resource, Settle(q), MarkUnknown(q), Revert(q)}
      PROVE  Remains(r)
  BY <1>5, TakenRow DEF Remains
<1>6. ASSUME NEW q \in DispatchIds, NEW archived, Commit(q, archived) PROVE Remains(r)
  <2>1. CASE resource' \in {resource, Revert(q)} BY <1>5, <2>1
  <2>2. CASE resource[q].ownership = "owned" /\ resource' = WithRelease(q, "releasing")
    BY <1>1, <2>2 DEF WithRelease, Remains
  <2> QED BY <1>6, <2>1, <2>2 DEF Commit
<1>7. ASSUME NEW q \in DispatchIds, NEW shown \in BOOLEAN, Inspected(q, shown) PROVE Remains(r)
  BY <1>5, <1>6, <1>7 DEF Inspected
<1>8. ASSUME NEW q \in DispatchIds, NEW captured \in BOOLEAN, Captured(q, captured) PROVE Remains(r)
  BY <1>5, <1>6, <1>8 DEF Captured
<1>9. ASSUME NEW q \in DispatchIds, NEW answer \in {"killed", "unconfirmed", "unavailable"},
             ReleaseKills(q) \/ ReleaseCloses(q, answer)
      PROVE  Remains(r)
  BY <1>5, <1>9 DEF ReleaseKills, ReleaseCloses, AfterClose, rowVars
<1> QED BY <1>2, <1>3, <1>4, <1>7, <1>8, <1>9 DEF ReleaseStep

LEMMA TakenThroughAttachment ==
    ASSUME RInv, NEW r \in DispatchIds, resource[r].ownership = "user_owned",
           NEW d \in DispatchIds, NEW x \in Terminals, AttachCreated(d, x) \/ AttachExisting(d, x)
    PROVE  Remains(r)
<1>1. resource \in [DispatchIds -> ResourceRows] BY DEF RInv, ResourceTypeOK
<1>2. d # r BY TakenRow DEF AttachCreated, AttachExisting, Attaches
<1>3. ASSUME NEW ownership, resource' = NewResource(d, ownership) PROVE Remains(r)
  BY <1>1, <1>2, <1>3 DEF NewResource, Remains
<1>4. ASSUME NEW q \in Transferable(x, pane[x].inc),
             resource' = [resource EXCEPT ![q] =
                 [NoResource EXCEPT !.owner = d, !.priors = resource[q].priors \cup {resource[q].owner},
                                    !.ownership = "owned"]]
      PROVE  Remains(r)
  <2>1. q # r BY DEF Transferable
  <2> QED BY <1>1, <1>4, <2>1 DEF Remains
<1>5. CASE AttachCreated(d, x) BY <1>3, <1>5 DEF AttachCreated
<1>6. CASE AttachExisting(d, x) BY <1>3, <1>4, <1>6 DEF AttachExisting
<1> QED BY <1>5, <1>6

LEMMA TakenThroughStep ==
    ASSUME RInv, NEW r \in DispatchIds, resource[r].ownership = "user_owned", Runs(r),
           [TerminalNext]_<<boardVars, terminalVars>>
    PROVE  Remains(r)
<1>1. CASE resource' = resource BY <1>1 DEF Remains
<1>2. CASE ReleaseStep BY <1>2, TakenThroughRelease
<1>3. ASSUME NEW x \in Terminals, UserInput(x) PROVE Remains(r)
  BY <1>3 DEF UserInput, TakenOver, Remains
<1>4. CASE ProcessStep
  BY <1>1, <1>3, <1>4
     DEF ProcessStep, Open, Exit, ExitReported, Disconnect, Reconnect, Restart, rowVars
<1>5. CASE WorkerStep
  BY <1>1, <1>5, TakenThroughAttachment
     DEF WorkerStep, Create, DispatchTo, EndContextOnly, StartWorker, FinishStart,
         ShowAfterRestart, Report, Abandon, RecoverMissing, terminalVars, rowVars
<1>6. CASE EndStep \/ RecoverNext \/ UNCHANGED <<boardVars, terminalVars>>
  BY <1>1, <1>6
     DEF EndStep, BeginStop, StopInspected, StopKills, StopCloses, RecoverNext, terminalVars, rowVars
<1> QED BY <1>2, <1>4, <1>5, <1>6 DEF TerminalNext

\* No release, retention, stop, transfer, recovery or restart takes back a terminal that
\* the user took over and whose process still runs.
THEOREM TakeoverDurable == TerminalSpec => TakeoverIsDurable
<1>1. RInv /\ [TerminalNext]_<<boardVars, terminalVars>> =>
          [\A r \in DispatchIds : resource[r].ownership = "user_owned" /\ Runs(r) =>
               resource'[r].ownership = "user_owned"]_<<boardVars, terminalVars>>
  BY TakenThroughStep DEF Remains
<1> QED BY <1>1, ResourcesInductive, PTL DEF TerminalSpec, TakeoverIsDurable

-----------------------------------------------------------------------------
(* What the terminals do to a dispatch and its worker.                        *)

\* The row of e stays, on its terminal, and its worker begins no stop.
RowStays(e) ==
    /\ Exists(e) => Exists(e)' /\ dispatch'[e].assignee = dispatch[e].assignee
    /\ worker'[e] = "stopping" => worker[e] = "stopping"

LEMMA RowStaysBy ==
    ASSUME IInv, NEW d \in DispatchIds, NEW e \in DispatchIds, NEW row,
           dispatch' = dispatch \/ dispatch' = [dispatch EXCEPT ![d] = row],
           Exists(d) => row.assignee = dispatch[d].assignee /\ row.status # "absent"
    PROVE  Exists(e) => Exists(e)' /\ dispatch'[e].assignee = dispatch[e].assignee
<1>1. dispatch \in [DispatchIds -> DispatchRows] BY DEF IInv, TypeOK
<1>2. dispatch'[e] = dispatch[e] \/ (e = d /\ dispatch'[e] = row) BY <1>1
<1> QED BY <1>2 DEF Exists

LEMMA WorkerStaysBy ==
    ASSUME IInv, NEW d \in DispatchIds, NEW e \in DispatchIds,
           NEW state \in {"starting", "ready", "failed", "start_unknown", "stop_unknown", "stopped",
                          "abandoned", "succeeded"},
           worker' = worker \/ worker' = [worker EXCEPT ![d] = state]
    PROVE  worker'[e] = "stopping" => worker[e] = "stopping"
BY DEF IInv, TypeOK

LEMMA EndedRows ==
    ASSUME IInv, NEW d \in DispatchIds, NEW cause
    PROVE  /\ Failed(dispatch[d], cause).assignee = dispatch[d].assignee
           /\ Failed(dispatch[d], cause).status # "absent"
           /\ Closed(dispatch[d], "failed", cause).assignee = dispatch[d].assignee
           /\ Closed(dispatch[d], "failed", cause).status # "absent"
<1>1. dispatch[d] \in DispatchRows BY DEF IInv, TypeOK
<1> QED BY <1>1 DEF DispatchRows, Failed, Closed

LEMMA ExitsStay ==
    ASSUME IInv, NEW d \in DispatchIds, NEW e \in DispatchIds,
           \/ \E exited \in BOOLEAN : FailDispatch(d, exited, "other")
           \/ ReleaseContextOnlyDispatch(d)
           \/ ReconcileMissingWorkerTerminal(d)
    PROVE  RowStays(e)
<1> DEFINE failed == Failed(dispatch[d], "other")
           closed == Closed(dispatch[d], "failed", "other")
<1>1. \/ dispatch' = [dispatch EXCEPT ![d] = failed]
      \/ dispatch' = [dispatch EXCEPT ![d] = closed]
  BY DEF FailDispatch, ReleaseContextOnlyDispatch, ReconcileMissingWorkerTerminal
<1>2. /\ failed.assignee = dispatch[d].assignee /\ failed.status # "absent"
      /\ closed.assignee = dispatch[d].assignee /\ closed.status # "absent"
  BY EndedRows
<1> HIDE DEF failed, closed
<1>3. Exists(e) => Exists(e)' /\ dispatch'[e].assignee = dispatch[e].assignee
  <2>1. CASE dispatch' = [dispatch EXCEPT ![d] = failed] BY <1>2, <2>1, RowStaysBy
  <2>2. CASE dispatch' = [dispatch EXCEPT ![d] = closed] BY <1>2, <2>2, RowStaysBy
  <2> QED BY <1>1, <2>1, <2>2
<1>4. \E state \in {"failed", "stopped", "abandoned"} :
          worker' = worker \/ worker' = [worker EXCEPT ![d] = state]
  BY DEF FailDispatch, WorkerAfterFailure, ReleaseContextOnlyDispatch, ReconcileMissingWorkerTerminal
<1>5. worker'[e] = "stopping" => worker[e] = "stopping" BY <1>4, WorkerStaysBy
<1> QED BY <1>3, <1>5 DEF RowStays

LEMMA WorkersStay ==
    ASSUME IInv, NEW d \in DispatchIds, NEW e \in DispatchIds,
           \/ MarkWorkerDispatchReady(d)
           \/ \E stalled \in BOOLEAN : FailWorkerStart(d, stalled)
           \/ MarkWorkerStartUnknown(d)
           \/ MarkWorkerStopUnknown(d)
           \/ SettleWorkerStop(d)
           \/ AbandonWorkerDispatch(d)
    PROVE  RowStays(e)
<1>1. dispatch[d] \in DispatchRows BY DEF IInv, TypeOK
<1>2. \E row :
          /\ dispatch' = dispatch \/ dispatch' = [dispatch EXCEPT ![d] = row]
          /\ Exists(d) => row.assignee = dispatch[d].assignee /\ row.status # "absent"
  <2>1. CASE MarkWorkerDispatchReady(d)
    <3> DEFINE row == [dispatch[d] EXCEPT !.status = "dispatched"]
    <3>1. dispatch' = [dispatch EXCEPT ![d] = row] BY <2>1 DEF MarkWorkerDispatchReady
    <3>2. row.assignee = dispatch[d].assignee /\ row.status # "absent" BY <1>1 DEF DispatchRows
    <3> QED BY <3>1, <3>2
  <2>2. CASE \E stalled \in BOOLEAN : FailWorkerStart(d, stalled)
    <3>1. PICK stalled \in BOOLEAN : FailWorkerStart(d, stalled) BY <2>2
    <3> DEFINE row == [dispatch[d] EXCEPT !.status = "failed",
                                          !.lastFailure = IF stalled THEN "stalled" ELSE "other",
                                          !.capability = IF stalled THEN @ ELSE Revoked(@)]
    <3>2. dispatch' = [dispatch EXCEPT ![d] = row] BY <3>1 DEF FailWorkerStart
    <3>3. row.assignee = dispatch[d].assignee /\ row.status # "absent" BY <1>1 DEF DispatchRows
    <3> QED BY <3>2, <3>3
  <2>3. CASE MarkWorkerStartUnknown(d)
    <3> DEFINE row == [dispatch[d] EXCEPT !.capability = Revoked(@)]
    <3>1. dispatch' = [dispatch EXCEPT ![d] = row] BY <2>3 DEF MarkWorkerStartUnknown
    <3>2. row.assignee = dispatch[d].assignee /\ row.status = dispatch[d].status
      BY <1>1 DEF DispatchRows
    <3> QED BY <3>1, <3>2 DEF Exists
  <2>4. CASE MarkWorkerStopUnknown(d)
    <3>1. dispatch' = dispatch BY <2>4 DEF MarkWorkerStopUnknown
    <3> QED BY <3>1 DEF Exists
  <2>5. CASE SettleWorkerStop(d)
    <3> DEFINE row == [dispatch[d] EXCEPT !.status = "failed", !.lastFailure = "other"]
    <3>1. dispatch' = dispatch \/ dispatch' = [dispatch EXCEPT ![d] = row]
      BY <2>5 DEF SettleWorkerStop, Stopped, RowsAfterStop
    <3>2. row.assignee = dispatch[d].assignee /\ row.status # "absent" BY <1>1 DEF DispatchRows
    <3> QED BY <3>1, <3>2
  <2>6. CASE AbandonWorkerDispatch(d)
    <3> DEFINE row == [dispatch[d] EXCEPT !.status = IF Active(d) THEN "failed" ELSE @,
                                          !.capability = Revoked(@)]
    <3>1. dispatch' = [dispatch EXCEPT ![d] = row] BY <2>6 DEF AbandonWorkerDispatch
    <3>2. row.assignee = dispatch[d].assignee BY <1>1 DEF DispatchRows
    <3>3. Exists(d) => row.status # "absent" BY <1>1 DEF DispatchRows, Exists
    <3> QED BY <3>1, <3>2, <3>3
  <2> QED BY <2>1, <2>2, <2>3, <2>4, <2>5, <2>6
<1>3. \E state \in {"ready", "failed", "start_unknown", "stop_unknown", "stopped", "abandoned"} :
          worker' = [worker EXCEPT ![d] = state]
  BY DEF MarkWorkerDispatchReady, FailWorkerStart, MarkWorkerStartUnknown, MarkWorkerStopUnknown,
         SettleWorkerStop, Stopped, AbandonWorkerDispatch
<1>4. Exists(e) => Exists(e)' /\ dispatch'[e].assignee = dispatch[e].assignee
  BY <1>2, RowStaysBy
<1>5. worker'[e] = "stopping" => worker[e] = "stopping" BY <1>3, WorkerStaysBy
<1> QED BY <1>4, <1>5 DEF RowStays

LEMMA ReportsStay ==
    ASSUME IInv, NEW d \in DispatchIds, NEW e \in DispatchIds,
           NEW outcome \in {"succeeded", "failed"}, SettleWorkerReport(d, outcome)
    PROVE  RowStays(e)
<1> DEFINE settled == IF outcome = "succeeded" THEN "completed" ELSE "failed"
           own == [dispatch EXCEPT ![d] = Closed(@, settled, "other")]
           t == dispatch[d].task
<1>1. dispatch \in [DispatchIds -> DispatchRows] BY DEF IInv, TypeOK
<1>2. \A row \in DispatchRows : /\ Closed(row, settled, "other").assignee = row.assignee
                                /\ Closed(row, settled, "other").status # "absent"
                                /\ Closed(Closed(row, settled, "other"), settled, "other").assignee
                                       = row.assignee
                                /\ Closed(Closed(row, settled, "other"), settled, "other").status
                                       # "absent"
  BY DEF Closed, DispatchRows
<1>3. dispatch'[e] = IF own[e].task = t /\ own[e].status \in ActiveStatuses
                     THEN Closed(own[e], settled, "other") ELSE own[e]
  BY DEF SettleWorkerReport, SettleActive
<1>4. own[e] = IF e = d THEN Closed(dispatch[e], settled, "other") ELSE dispatch[e] BY <1>1
<1>5. dispatch'[e] \in {dispatch[e], Closed(dispatch[e], settled, "other"),
                        Closed(Closed(dispatch[e], settled, "other"), settled, "other")}
  BY <1>3, <1>4
<1>6. dispatch[e] \in DispatchRows BY <1>1
<1>7. Exists(e) => Exists(e)' /\ dispatch'[e].assignee = dispatch[e].assignee
  BY <1>2, <1>5, <1>6 DEF Exists
<1>8. worker'[e] = "stopping" => worker[e] = "stopping"
  BY DEF SettleWorkerReport, IInv, TypeOK
<1> QED BY <1>7, <1>8 DEF RowStays

LEMMA ClaimsStay ==
    ASSUME IInv, NEW d \in DispatchIds, NEW e \in DispatchIds, NEW t \in Tasks,
           \/ \E x \in Terminals : CreateDispatchContext(d, t, x)
           \/ \E kind, retryOf : CreateStartingWorkerDispatch(d, t, kind, retryOf)
    PROVE  RowStays(e) /\ ~Exists(d)
<1>1. FreshDispatch(d) BY DEF CreateDispatchContext, CreateStartingWorkerDispatch
<1>2. ~(d < d) BY DEF DispatchIds
<1>3. ~Exists(d) BY <1>1, <1>2 DEF FreshDispatch
<1>4. \E row : dispatch' = [dispatch EXCEPT ![d] = row]
  BY DEF CreateDispatchContext, CreateStartingWorkerDispatch
<1>5. worker' = worker \/ worker' = [worker EXCEPT ![d] = "starting"]
  BY DEF CreateDispatchContext, CreateStartingWorkerDispatch
<1>6. Exists(e) => Exists(e)' /\ dispatch'[e].assignee = dispatch[e].assignee
  BY <1>3, <1>4, RowStaysBy
<1>7. worker'[e] = "stopping" => worker[e] = "stopping" BY <1>5, WorkerStaysBy
<1> QED BY <1>3, <1>6, <1>7 DEF RowStays

LEMMA SameBoardStays ==
    ASSUME IInv, NEW e \in DispatchIds, UNCHANGED <<dispatch, worker>>
    PROVE  RowStays(e)
BY DEF RowStays, Exists

\* Only an attachment moves a dispatch, and only the beginning of a stop begins one.
LEMMA StepStays ==
    ASSUME IInv, NEW e \in DispatchIds, [TerminalNext]_<<boardVars, terminalVars>>
    PROVE  \/ RowStays(e)
           \/ \E x \in Terminals : AttachCreated(e, x) \/ AttachExisting(e, x)
           \/ BeginStop(e)
<1>1. UNCHANGED boardVars => RowStays(e) BY SameBoardStays DEF boardVars
<1>2. CASE ProcessStep
  BY <1>1, <1>2, ExitsStay
     DEF ProcessStep, Open, Exit, ExitReported, Disconnect, Reconnect, UserInput, Restart, Occupied
<1>3. CASE WorkerStep
  <2>1. ASSUME NEW t \in Tasks, Create(t) PROVE RowStays(e)
    BY <2>1, SameBoardStays DEF Create, CreateTask
  <2>2. ASSUME NEW d \in DispatchIds, NEW t \in Tasks,
               \/ \E x \in Terminals : DispatchTo(d, t, x)
               \/ \E retryOf \in {0} \cup DispatchIds : StartWorker(d, t, retryOf)
        PROVE  RowStays(e)
    BY <2>2, ClaimsStay DEF DispatchTo, StartWorker
  <2>3. ASSUME NEW d \in DispatchIds, EndContextOnly(d) \/ RecoverMissing(d) PROVE RowStays(e)
    BY <2>3, ExitsStay DEF EndContextOnly, RecoverMissing
  <2>4. ASSUME NEW d \in DispatchIds, NEW x \in Terminals, d # e,
               AttachCreated(d, x) \/ AttachExisting(d, x)
        PROVE  RowStays(e)
    <3>1. /\ dispatch' = [dispatch EXCEPT ![d].assignee = x, ![d].capability = "live"]
          /\ worker' = worker
      BY <2>4 DEF AttachCreated, AttachExisting, Attaches, PrepareStartingWorkerAuthority
    <3>2. dispatch'[e] = dispatch[e] BY <2>4, <3>1 DEF IInv, TypeOK
    <3> QED BY <3>1, <3>2 DEF RowStays, Exists
  <2>5. ASSUME NEW d \in DispatchIds, FinishStart(d) \/ ShowAfterRestart(d) \/ Abandon(d)
        PROVE  RowStays(e)
    BY <2>5, WorkersStay DEF FinishStart, ShowAfterRestart, Abandon
  <2>6. ASSUME NEW d \in DispatchIds, NEW outcome \in {"succeeded", "failed"}, Report(d, outcome)
        PROVE  RowStays(e)
    BY <2>6, ReportsStay DEF Report
  <2> QED BY <1>3, <2>1, <2>2, <2>3, <2>4, <2>5, <2>6 DEF WorkerStep
<1>4. CASE ReleaseStep \/ RecoverNext
  BY <1>4, ReleaseStepOnBoard, SameBoardStays DEF vars
<1>5. CASE EndStep
  <2>1. ASSUME NEW d \in DispatchIds, d # e, BeginStop(d) PROVE RowStays(e)
    <3>1. /\ dispatch' = [dispatch EXCEPT ![d].capability = Revoked(@)]
          /\ worker' = [worker EXCEPT ![d] = "stopping"]
      BY <2>1 DEF BeginStop, BeginWorkerStop
    <3>2. dispatch'[e] = dispatch[e] /\ worker'[e] = worker[e] BY <2>1, <3>1 DEF IInv, TypeOK
    <3> QED BY <3>1, <3>2 DEF RowStays, Exists
  <2>2. ASSUME NEW d \in DispatchIds,
               \/ StopKills(d)
               \/ \E shown \in BOOLEAN : StopInspected(d, shown)
               \/ \E killed \in BOOLEAN : StopCloses(d, killed)
        PROVE  RowStays(e)
    <3>1. \/ UNCHANGED boardVars
          \/ MarkWorkerStopUnknown(d) \/ SettleWorkerStop(d)
      BY <2>2 DEF StopKills, StopInspected, StopCloses, StopUnanswered
    <3> QED BY <1>1, <3>1, WorkersStay
  <2> QED BY <1>5, <2>1, <2>2 DEF EndStep
<1>6. CASE UNCHANGED <<boardVars, terminalVars>> BY <1>1, <1>6
<1> QED BY <1>2, <1>3, <1>4, <1>5, <1>6 DEF TerminalNext

-----------------------------------------------------------------------------
(* A stop is pursued.                                                         *)

\* The stops in flight and those a restart cut off, but for the steps of a stop.
LEMMA StopsStay ==
    ASSUME RInv, NEW d \in DispatchIds, [TerminalNext]_<<boardVars, terminalVars>>,
           stop[d] # "idle" \/ d \in lost
    PROVE  \/ stop'[d] # "idle" \/ d \in lost'
           \/ ShowAfterRestart(d)
           \/ \E shown \in BOOLEAN : StopInspected(d, shown)
           \/ \E killed \in BOOLEAN : StopCloses(d, killed)
           \/ Restart
<1>1. stop \in [DispatchIds -> StopCalls] BY DEF RInv, ResourceTypeOK
<1>2. UNCHANGED <<stop, lost>> => stop'[d] # "idle" \/ d \in lost' OBVIOUS
<1>3. CASE ProcessStep
  BY <1>2, <1>3
     DEF ProcessStep, Open, Exit, ExitReported, Disconnect, Reconnect, UserInput, callVars
<1>4. CASE WorkerStep
  <2>1. ASSUME NEW e \in DispatchIds, e # d, ShowAfterRestart(e)
        PROVE  stop'[d] # "idle" \/ d \in lost'
    BY <2>1 DEF ShowAfterRestart
  <2>2. \/ UNCHANGED <<stop, lost>>
        \/ \E e \in DispatchIds : ShowAfterRestart(e)
    BY <1>4
       DEF WorkerStep, Create, DispatchTo, EndContextOnly, StartWorker, AttachCreated,
           AttachExisting, FinishStart, Report, Abandon, RecoverMissing, terminalVars, callVars
  <2> QED BY <1>2, <2>1, <2>2
<1>5. CASE ReleaseStep \/ RecoverNext
  BY <1>2, <1>5
     DEF ReleaseStep, RequestRelease, Retain, SettleDead, Inspected, Captured, ReleaseKills,
         ReleaseCloses, RecoverNext, callVars
<1>6. CASE EndStep
  <2>1. ASSUME NEW e \in DispatchIds, BeginStop(e) \/ StopKills(e)
        PROVE  stop'[d] # "idle" \/ d \in lost'
    BY <1>1, <2>1 DEF BeginStop, StopKills, StopAt
  <2>2. ASSUME NEW e \in DispatchIds, e # d,
               \/ \E shown \in BOOLEAN : StopInspected(e, shown)
               \/ \E killed \in BOOLEAN : StopCloses(e, killed)
        PROVE  stop'[d] # "idle" \/ d \in lost'
    BY <1>1, <2>2 DEF StopInspected, StopCloses, StopAt
  <2> QED BY <1>6, <2>1, <2>2 DEF EndStep
<1>7. CASE UNCHANGED <<boardVars, terminalVars>> BY <1>2, <1>7 DEF terminalVars
<1> QED BY <1>3, <1>4, <1>5, <1>6, <1>7 DEF TerminalNext

\* The end of a stop leaves no worker stopping.
LEMMA StopEnds ==
    ASSUME IInv, RInv, NEW d \in DispatchIds,
           \/ ShowAfterRestart(d)
           \/ \E shown \in BOOLEAN : StopInspected(d, shown)
           \/ \E killed \in BOOLEAN : StopCloses(d, killed)
    PROVE  worker'[d] # "stopping" \/ stop'[d] = "closing"
<1>1. DOMAIN worker = DispatchIds /\ DOMAIN stop = DispatchIds
  BY DEF IInv, TypeOK, RInv, ResourceTypeOK
<1>2. ASSUME MarkWorkerStartUnknown(d) \/ MarkWorkerStopUnknown(d) \/ SettleWorkerStop(d)
      PROVE  worker'[d] # "stopping"
  BY <1>1, <1>2 DEF MarkWorkerStartUnknown, MarkWorkerStopUnknown, SettleWorkerStop, Stopped
<1>3. CASE ShowAfterRestart(d) BY <1>2, <1>3 DEF ShowAfterRestart
<1>4. StopUnanswered(d) => worker'[d] # "stopping" BY <1>2 DEF StopUnanswered, boardVars
<1>5. CASE \E killed \in BOOLEAN : StopCloses(d, killed) BY <1>2, <1>4, <1>5 DEF StopCloses
<1>6. CASE \E shown \in BOOLEAN : StopInspected(d, shown)
  <2>1. CASE stop' = StopAt(d, "closing") BY <1>1, <2>1 DEF StopAt
  <2>2. CASE StopUnanswered(d) BY <1>4, <2>2
  <2> QED BY <1>6, <2>1, <2>2 DEF StopInspected
<1> QED BY <1>3, <1>5, <1>6

LEMMA PursuedThroughStep ==
    IInv /\ RInv /\ StoppingIsPursued /\ [TerminalNext]_<<boardVars, terminalVars>>
        => StoppingIsPursued'
<1> SUFFICES ASSUME IInv, RInv, StoppingIsPursued, [TerminalNext]_<<boardVars, terminalVars>>,
                    NEW d \in DispatchIds, worker'[d] = "stopping"
             PROVE  stop'[d] # "idle" \/ d \in lost'
  BY DEF StoppingIsPursued
<1>1. DOMAIN stop = DispatchIds BY DEF RInv, ResourceTypeOK
<1>2. CASE BeginStop(d) BY <1>1, <1>2 DEF BeginStop
<1>3. CASE Restart
  BY <1>3 DEF Restart, boardVars
<1>4. CASE worker[d] = "stopping" /\ ~Restart
  <2>1. stop[d] # "idle" \/ d \in lost BY <1>4 DEF StoppingIsPursued
  <2>2. CASE \/ ShowAfterRestart(d)
             \/ \E shown \in BOOLEAN : StopInspected(d, shown)
             \/ \E killed \in BOOLEAN : StopCloses(d, killed)
    BY <2>2, StopEnds
  <2> QED BY <1>4, <2>1, <2>2, StopsStay
<1>5. worker[d] = "stopping" \/ BeginStop(d)
  BY StepStays DEF RowStays, AttachCreated, AttachExisting, Attaches, PrepareStartingWorkerAuthority
<1> QED BY <1>2, <1>3, <1>4, <1>5

\* A worker never stays stopping with nobody at it: whichever of its exits, its reports, a
\* restart or an unanswered inspection comes between the steps of a stop, the stop is in
\* flight, has an outcome, or is one that worker-show will close.
THEOREM StopsPursued == TerminalSpec => []StoppingIsPursued
<1>1. TerminalInit => StoppingIsPursued
  BY DEF TerminalInit, Init, StoppingIsPursued
<1> QED BY <1>1, PursuedThroughStep, ResourcesInductive, TerminalsKeepTheBoard, Inductive, PTL
        DEF TerminalSpec

-----------------------------------------------------------------------------
(* A released terminal is gone.                                               *)

\* Two dispatches that were given the same process: one handed it to the other.
SameAs(d, r) == attached[d] # 0 /\ attached[d] = attached[r] /\ PaneOf(d) = PaneOf(r)

AttachedExists ==
    \A d \in DispatchIds : attached[d] # 0 =>
        /\ Exists(d)
        /\ PaneOf(d) \in Terminals
        /\ attached[d] <= pane[PaneOf(d)].inc

\* Who owns a terminal, who releases it and for whom a recovery takes it up were all given
\* its process: what the close proves of theirs it proves of the terminal's.
OwnersShare == \A r \in DispatchIds : resource[r].owner # 0 => SameAs(resource[r].owner, r)
CallsShare ==
    \A r \in DispatchIds : release[r].pc # "idle" => release[r].by # 0 /\ SameAs(release[r].by, r)
PassShares == \A p \in recovery.left : SameAs(p[2], p[1])

GInv ==
    /\ AttachedExists
    /\ OwnersShare
    /\ CallsShare
    /\ PassShares
    /\ ReleasedIsGone

TerminalStep == [TerminalNext]_<<boardVars, terminalVars>>

\* What was attached stays attached, to the same pane.
LEMMA AttachedStays ==
    ASSUME IInv, RInv, GInv, TerminalStep, NEW e \in DispatchIds, attached[e] # 0
    PROVE  attached'[e] = attached[e] /\ PaneOf(e)' = PaneOf(e) /\ Exists(e)'
<1>1. Exists(e) BY DEF GInv, AttachedExists
<1>2. DOMAIN attached = DispatchIds BY DEF RInv, ResourceTypeOK
<1>3. Exists(e)' /\ dispatch'[e].assignee = dispatch[e].assignee
  <2>1. CASE BeginStop(e)
    <3>1. dispatch' = [dispatch EXCEPT ![e].capability = Revoked(@)]
      BY <2>1 DEF BeginStop, BeginWorkerStop
    <3>2. dispatch \in [DispatchIds -> DispatchRows] BY DEF IInv, TypeOK
    <3> QED BY <1>1, <3>1, <3>2 DEF Exists, DispatchRows
  <2>2. ~\E x \in Terminals : AttachCreated(e, x) \/ AttachExisting(e, x)
    BY DEF AttachCreated, AttachExisting, Attaches
  <2> QED BY <1>1, <2>1, <2>2, StepStays DEF RowStays, TerminalStep
<1>4. attached'[e] = attached[e]
  <2>1. CASE attached' = attached BY <2>1
  <2>2. ASSUME NEW d \in DispatchIds, NEW t \in Tasks, NEW x \in Terminals, DispatchTo(d, t, x)
        PROVE  attached'[e] = attached[e]
    <3>1. d # e BY <1>1, <2>2, ClaimsStay DEF DispatchTo
    <3> QED BY <1>2, <2>2, <3>1 DEF DispatchTo
  <2>3. ASSUME NEW d \in DispatchIds, NEW x \in Terminals,
               AttachCreated(d, x) \/ AttachExisting(d, x)
        PROVE  attached'[e] = attached[e]
    BY <1>2, <2>3 DEF AttachCreated, AttachExisting, Attaches
  <2>4. CASE WorkerStep
    BY <2>1, <2>2, <2>3, <2>4
       DEF WorkerStep, Create, EndContextOnly, StartWorker, FinishStart, ShowAfterRestart, Report,
           Abandon, RecoverMissing, terminalVars, rowVars
  <2>5. CASE ProcessStep
    BY <2>1, <2>5
       DEF ProcessStep, Open, Exit, ExitReported, Disconnect, Reconnect, UserInput, Restart, rowVars
  <2>6. CASE ReleaseStep \/ RecoverNext
    BY <2>1, <2>6
       DEF ReleaseStep, RequestRelease, Retain, SettleDead, Inspected, Captured, ReleaseKills,
           ReleaseCloses, RecoverNext, rowVars
  <2>7. CASE EndStep
    BY <2>1, <2>7 DEF EndStep, BeginStop, StopInspected, StopKills, StopCloses, rowVars
  <2>8. CASE UNCHANGED <<boardVars, terminalVars>> BY <2>1, <2>8 DEF terminalVars
  <2> QED BY <2>4, <2>5, <2>6, <2>7, <2>8 DEF TerminalStep, TerminalNext
<1> QED BY <1>3, <1>4 DEF PaneOf

LEMMA SharingStays ==
    ASSUME IInv, RInv, GInv, TerminalStep,
           NEW d \in DispatchIds, NEW r \in DispatchIds, SameAs(d, r)
    PROVE  SameAs(d, r)'
BY AttachedStays DEF SameAs

\* Processes only end and are followed by later ones: none comes back.
Advances(x) ==
    /\ pane[x].inc <= pane'[x].inc
    /\ pane'[x].inc = pane[x].inc /\ pane'[x].up => pane[x].up
    /\ pane'[x].exiting /\ pane'[x].up => pane[x].exiting /\ pane[x].up

LEMMA ProcessesAdvance ==
    ASSUME RInv, TerminalStep, NEW x \in Terminals
    PROVE  Advances(x)
<1>1. pane \in [Terminals -> PaneRows] BY DEF RInv, ResourceTypeOK
<1>2. pane[x] \in PaneRows BY <1>1
<1>3. pane[x].inc \in Nat BY <1>2, ProcessesAssumption DEF PaneRows, Incarnations
<1>4. /\ pane'[x].inc = pane[x].inc
      /\ pane'[x].up => pane[x].up
      /\ pane'[x].exiting /\ pane'[x].up => pane[x].exiting
      => Advances(x)
  BY <1>3 DEF Advances
<1>5. UNCHANGED pane => Advances(x) BY <1>4
<1>6. ASSUME NEW y, pane' = Ended(y) PROVE Advances(x)
  <2>1. \/ pane'[x] = pane[x]
        \/ pane'[x].inc = pane[x].inc /\ ~pane'[x].up
    BY <1>1, <1>6 DEF Ended, PaneRows
  <2> QED BY <1>4, <2>1
<1>7. ASSUME \/ pane'[x] = pane[x]
             \/ pane'[x] = [pane[x] EXCEPT !.exiting = FALSE]
      PROVE  Advances(x)
  <2>1. [pane[x] EXCEPT !.exiting = FALSE].inc = pane[x].inc BY <1>2 DEF PaneRows
  <2>2. [pane[x] EXCEPT !.exiting = FALSE].up => pane[x].up BY <1>2 DEF PaneRows
  <2>3. ~[pane[x] EXCEPT !.exiting = FALSE].exiting BY <1>2 DEF PaneRows
  <2> QED BY <1>4, <1>7, <2>1, <2>2, <2>3
<1>8. CASE ProcessStep
  <2>1. ASSUME NEW y \in Terminals, Open(y) PROVE Advances(x)
    <3>1. \/ pane'[x] = pane[x]
          \/ pane'[x].inc = pane[x].inc + 1 /\ ~pane'[x].exiting
      BY <1>1, <2>1 DEF Open
    <3> QED BY <1>3, <1>7, <3>1 DEF Advances
  <2>2. ASSUME NEW y \in Terminals, ExitReported(y) \/ Disconnect(y) PROVE Advances(x)
    <3>1. pane' = [pane EXCEPT ![y].exiting = FALSE] BY <2>2 DEF ExitReported, Disconnect
    <3> QED BY <1>1, <1>7, <3>1
  <2>3. CASE Restart BY <1>7, <2>3 DEF Restart
  <2>4. ASSUME NEW y \in Terminals, Exit(y) PROVE Advances(x) BY <1>6, <2>4 DEF Exit
  <2>5. ASSUME NEW y \in Terminals, Reconnect(y) \/ UserInput(y) PROVE Advances(x)
    BY <1>5, <2>5 DEF Reconnect, UserInput, processVars
  <2> QED BY <1>8, <2>1, <2>2, <2>3, <2>4, <2>5 DEF ProcessStep
<1>9. CASE WorkerStep
  <2>1. ASSUME NEW d \in DispatchIds, NEW y \in Terminals, AttachCreated(d, y) PROVE Advances(x)
    <3>1. \/ pane'[x] = pane[x]
          \/ pane[x].inc = 0 /\ pane'[x].inc = 1 /\ ~pane'[x].exiting
      BY <1>1, <2>1 DEF AttachCreated
    <3> QED BY <1>7, <3>1 DEF Advances
  <2>2. pane' = pane \/ \E d \in DispatchIds, y \in Terminals : AttachCreated(d, y)
    BY <1>9
       DEF WorkerStep, Create, DispatchTo, EndContextOnly, StartWorker, AttachExisting, FinishStart,
           ShowAfterRestart, Report, Abandon, RecoverMissing, terminalVars, processVars
  <2> QED BY <1>5, <2>1, <2>2
<1>10. CASE ReleaseStep \/ RecoverNext
  <2>1. pane' = pane \/ \E y : pane' = Ended(y)
    BY <1>10
       DEF ReleaseStep, RequestRelease, Retain, SettleDead, Inspected, Captured, ReleaseKills,
           ReleaseCloses, RecoverNext, Kills, processVars
  <2> QED BY <1>5, <1>6, <2>1
<1>11. CASE EndStep
  <2>1. pane' = pane \/ \E y : pane' = Ended(y)
    BY <1>11 DEF EndStep, BeginStop, StopInspected, StopKills, StopCloses, Kills, processVars
  <2> QED BY <1>5, <1>6, <2>1
<1>12. CASE UNCHANGED <<boardVars, terminalVars>> BY <1>5, <1>12 DEF terminalVars
<1> QED BY <1>8, <1>9, <1>10, <1>11, <1>12 DEF TerminalStep, TerminalNext

\* A process that was seen to be gone never runs again.
LEMMA GoneStays ==
    ASSUME IInv, RInv, GInv, TerminalStep, NEW r \in DispatchIds, attached[r] # 0, ~Runs(r)
    PROVE  ~Runs(r)'
<1>1. attached'[r] = attached[r] /\ PaneOf(r)' = PaneOf(r) BY AttachedStays
<1>2. PaneOf(r) \in Terminals /\ attached[r] <= pane[PaneOf(r)].inc BY DEF GInv, AttachedExists
<1>3. attached[r] \in Nat /\ pane[PaneOf(r)].inc \in Nat
  BY <1>2, ProcessesAssumption DEF RInv, ResourceTypeOK, Incarnations, PaneRows
<1>4. SUFFICES ASSUME pane'[PaneOf(r)].inc = attached[r], pane'[PaneOf(r)].up PROVE FALSE
  BY <1>1 DEF Runs, IsCurrent
<1>5. pane[PaneOf(r)].inc = attached[r] /\ pane[PaneOf(r)].up
  BY <1>2, <1>3, <1>4, ProcessesAdvance DEF Advances
<1> QED BY <1>5 DEF Runs, IsCurrent

\* A row keeps its owner and is not written off; or it is, by somebody who saw the process
\* gone; or it names the dispatch just attached to its process.
OwnerStays(r) == resource'[r].owner = resource[r].owner
StaysOpen(r) == resource'[r].release = "released" => resource[r].release = "released"
WrittenOff(r) == ReleaseCloses(r, "killed") \/ \E d \in DispatchIds : SettleDead(d, r)
Given(r) ==
    \E d \in DispatchIds, x \in Terminals :
        /\ AttachCreated(d, x) \/ AttachExisting(d, x)
        /\ resource'[r].owner = d
        /\ r = d \/ (attached[r] = pane[x].inc /\ PaneOf(r) = x /\ AttachExisting(d, x))

LEMMA OutcomeStays ==
    ASSUME RInv, NEW r \in DispatchIds, NEW q \in DispatchIds,
           resource' \in {resource, MarkUnknown(q), Revert(q), WithRelease(q, "releasing")}
    PROVE  OwnerStays(r) /\ StaysOpen(r)
<1>1. resource \in [DispatchIds -> ResourceRows] /\ resource[r] \in ResourceRows
  BY DEF RInv, ResourceTypeOK
<1>2. CASE resource' = resource BY <1>2 DEF OwnerStays, StaysOpen
<1>3. CASE resource' = MarkUnknown(q)
  BY <1>1, <1>3 DEF MarkUnknown, WithRelease, OwnerStays, StaysOpen, ResourceRows
<1>4. CASE resource' = WithRelease(q, "releasing")
  BY <1>1, <1>4 DEF WithRelease, OwnerStays, StaysOpen, ResourceRows
<1>5. CASE resource' = Revert(q)
  <2> DEFINE row == [resource[q] EXCEPT !.release = "retained", !.byUser = FALSE]
  <2>1. row.owner = resource[q].owner /\ row.release = "retained" BY <1>1 DEF ResourceRows
  <2>2. resource' = resource \/ resource' = [resource EXCEPT ![q] = row] BY <1>5 DEF Revert
  <2> HIDE DEF row
  <2> QED BY <1>1, <2>1, <2>2 DEF OwnerStays, StaysOpen
<1> QED BY <1>2, <1>3, <1>4, <1>5

LEMMA RowThroughRelease ==
    ASSUME RInv, NEW r \in DispatchIds, ReleaseStep
    PROVE  OwnerStays(r) /\ (StaysOpen(r) \/ WrittenOff(r))
<1> DEFINE Goal == OwnerStays(r) /\ (StaysOpen(r) \/ WrittenOff(r))
<1>1. resource \in [DispatchIds -> ResourceRows] BY DEF RInv, ResourceTypeOK
<1>2. ASSUME NEW d \in DispatchIds, RequestRelease(d) PROVE Goal
  <2>1. PICK q \in OwnedBy(d) :
            resource' = [resource EXCEPT
                ![q].release = IF @ = "releasing" THEN @ ELSE "requested", ![q].byUser = FALSE]
    BY <1>2 DEF RequestRelease
  <2> DEFINE state == IF resource[q].release = "releasing" THEN "releasing" ELSE "requested"
             row == [resource[q] EXCEPT !.release = state, !.byUser = FALSE]
  <2>2. q \in DispatchIds BY DEF OwnedBy
  <2>3. row.owner = resource[q].owner /\ row.release # "released"
    BY <1>1, <2>2 DEF ResourceRows
  <2>4. resource' = [resource EXCEPT ![q] = row] BY <2>1
  <2> HIDE DEF row
  <2> QED BY <1>1, <2>2, <2>3, <2>4 DEF OwnerStays, StaysOpen
<1>3. ASSUME NEW d \in DispatchIds, Retain(d) PROVE Goal
  <2>1. PICK q \in OwnedBy(d) :
            resource' = [resource EXCEPT ![q].release = "retained", ![q].byUser = TRUE]
    BY <1>3 DEF Retain
  <2> DEFINE row == [resource[q] EXCEPT !.release = "retained", !.byUser = TRUE]
  <2>2. q \in DispatchIds BY DEF OwnedBy
  <2>3. row.owner = resource[q].owner /\ row.release # "released"
    BY <1>1, <2>2 DEF ResourceRows
  <2>4. resource' = [resource EXCEPT ![q] = row] BY <2>1
  <2> HIDE DEF row
  <2> QED BY <1>1, <2>2, <2>3, <2>4 DEF OwnerStays, StaysOpen
<1>4. ASSUME NEW q \in DispatchIds,
             resource' = [resource EXCEPT ![q].release = "released", ![q].ownership = "released"]
      PROVE  OwnerStays(r) /\ (StaysOpen(r) \/ q = r)
  <2> DEFINE row == [resource[q] EXCEPT !.release = "released", !.ownership = "released"]
  <2>1. row.owner = resource[q].owner BY <1>1 DEF ResourceRows
  <2>2. resource' = [resource EXCEPT ![q] = row] BY <1>4
  <2> HIDE DEF row
  <2> QED BY <1>1, <2>1, <2>2 DEF OwnerStays, StaysOpen
<1>5. ASSUME NEW d \in DispatchIds, NEW q \in DispatchIds, SettleDead(d, q) PROVE Goal
  <2>1. resource' = [resource EXCEPT ![q].release = "released", ![q].ownership = "released"]
    BY <1>5 DEF SettleDead
  <2> QED BY <1>4, <1>5, <2>1 DEF WrittenOff
<1>6. ASSUME NEW q \in DispatchIds, NEW archived, Commit(q, archived)
      PROVE  OwnerStays(r) /\ StaysOpen(r)
  BY <1>6, OutcomeStays DEF Commit
<1>7. ASSUME NEW q \in DispatchIds, NEW shown \in BOOLEAN, Inspected(q, shown) PROVE Goal
  BY <1>6, <1>7, OutcomeStays DEF Inspected
<1>8. ASSUME NEW q \in DispatchIds, NEW captured \in BOOLEAN, Captured(q, captured) PROVE Goal
  BY <1>6, <1>8, OutcomeStays DEF Captured
<1>9. ASSUME NEW q \in DispatchIds, ReleaseKills(q) PROVE Goal
  BY <1>9, OutcomeStays DEF ReleaseKills, rowVars
<1>10. ASSUME NEW q \in DispatchIds, NEW answer \in {"unconfirmed", "unavailable"},
              ReleaseCloses(q, answer)
       PROVE  Goal
  BY <1>10, OutcomeStays DEF ReleaseCloses, AfterClose
<1>11. ASSUME NEW q \in DispatchIds, ReleaseCloses(q, "killed") PROVE Goal
  <2>1. \/ resource' = resource
        \/ resource' = [resource EXCEPT ![q].release = "released", ![q].ownership = "released"]
    BY <1>11 DEF ReleaseCloses, AfterClose, Settle
  <2> QED BY <1>4, <1>11, <2>1, OutcomeStays DEF WrittenOff
<1> QED BY <1>2, <1>3, <1>5, <1>7, <1>8, <1>9, <1>10, <1>11 DEF ReleaseStep

LEMMA RowThroughAttachment ==
    ASSUME RInv, NEW r \in DispatchIds, NEW d \in DispatchIds, NEW x \in Terminals,
           AttachCreated(d, x) \/ AttachExisting(d, x)
    PROVE  StaysOpen(r) /\ (OwnerStays(r) \/ Given(r))
<1>1. resource \in [DispatchIds -> ResourceRows] BY DEF RInv, ResourceTypeOK
<1>2. ASSUME NEW ownership, resource' = NewResource(d, ownership)
      PROVE  /\ StaysOpen(r)
             /\ OwnerStays(r) \/ (r = d /\ resource'[r].owner = d)
  BY <1>1, <1>2 DEF NewResource, NoResource, StaysOpen, OwnerStays
<1>3. ASSUME AttachExisting(d, x), NEW q \in Transferable(x, pane[x].inc),
             resource' = [resource EXCEPT ![q] =
                 [NoResource EXCEPT !.owner = d, !.priors = resource[q].priors \cup {resource[q].owner},
                                    !.ownership = "owned"]]
      PROVE  /\ StaysOpen(r)
             /\ \/ OwnerStays(r)
                \/ resource'[r].owner = d /\ attached[r] = pane[x].inc /\ PaneOf(r) = x
  <2>1. q \in DispatchIds /\ attached[q] = pane[x].inc /\ PaneOf(q) = x
    BY DEF Transferable, SameProcess
  <2> QED BY <1>1, <1>3, <2>1 DEF NoResource, StaysOpen, OwnerStays
<1>4. CASE AttachCreated(d, x)
  BY <1>2, <1>4 DEF AttachCreated, Given
<1>5. CASE AttachExisting(d, x)
  <2>1. CASE resource' = NewResource(d, "external") BY <1>2, <1>5, <2>1 DEF Given
  <2>2. ASSUME NEW q \in Transferable(x, pane[x].inc),
               resource' = [resource EXCEPT ![q] =
                   [NoResource EXCEPT !.owner = d,
                                      !.priors = resource[q].priors \cup {resource[q].owner},
                                      !.ownership = "owned"]]
        PROVE  StaysOpen(r) /\ (OwnerStays(r) \/ Given(r))
    BY <1>3, <1>5, <2>2 DEF Given
  <2> QED BY <1>5, <2>1, <2>2 DEF AttachExisting
<1> QED BY <1>4, <1>5

LEMMA RowThroughStep ==
    ASSUME RInv, NEW r \in DispatchIds, TerminalStep
    PROVE  /\ OwnerStays(r) \/ Given(r)
           /\ StaysOpen(r) \/ WrittenOff(r)
<1>1. CASE resource' = resource BY <1>1 DEF OwnerStays, StaysOpen
<1>2. CASE ReleaseStep BY <1>2, RowThroughRelease
<1>3. ASSUME NEW x \in Terminals, UserInput(x) PROVE OwnerStays(r) /\ StaysOpen(r)
  <2> DEFINE row == [resource[r] EXCEPT !.ownership = "user_owned", !.release = "retained",
                                        !.byUser = FALSE]
  <2>1. resource[r] \in ResourceRows BY RowFacts
  <2>2. row.owner = resource[r].owner /\ row.release # "released" BY <2>1 DEF ResourceRows
  <2>3. resource'[r] = resource[r] \/ resource'[r] = row BY <1>3 DEF UserInput
  <2> HIDE DEF row
  <2> QED BY <2>2, <2>3 DEF OwnerStays, StaysOpen
<1>4. CASE ProcessStep
  BY <1>1, <1>3, <1>4
     DEF ProcessStep, Open, Exit, ExitReported, Disconnect, Reconnect, Restart, rowVars
<1>5. CASE WorkerStep
  BY <1>1, <1>5, RowThroughAttachment
     DEF WorkerStep, Create, DispatchTo, EndContextOnly, StartWorker, FinishStart,
         ShowAfterRestart, Report, Abandon, RecoverMissing, terminalVars, rowVars
<1>6. CASE EndStep \/ RecoverNext \/ UNCHANGED <<boardVars, terminalVars>>
  BY <1>1, <1>6
     DEF EndStep, BeginStop, StopInspected, StopKills, StopCloses, RecoverNext, terminalVars, rowVars
<1> QED BY <1>2, <1>4, <1>5, <1>6 DEF TerminalStep, TerminalNext

\* A dispatch that is attached gets the process its pane runs.
LEMMA AttachmentFacts ==
    ASSUME IInv, RInv, NEW d \in DispatchIds, NEW x \in Terminals,
           AttachCreated(d, x) \/ AttachExisting(d, x)
    PROVE  /\ attached'[d] = pane'[x].inc /\ attached'[d] # 0
           /\ PaneOf(d)' = x /\ Exists(d)'
           /\ AttachExisting(d, x) => attached'[d] = pane[x].inc
<1>1. /\ dispatch \in [DispatchIds -> DispatchRows]
      /\ attached \in [DispatchIds -> Incarnations]
      /\ pane \in [Terminals -> PaneRows]
  BY DEF IInv, TypeOK, RInv, ResourceTypeOK
<1>2. /\ dispatch' = [dispatch EXCEPT ![d].assignee = x, ![d].capability = "live"]
      /\ dispatch[d].status = "pending"
  BY DEF AttachCreated, AttachExisting, Attaches, PrepareStartingWorkerAuthority, Starting
<1> DEFINE row == [dispatch[d] EXCEPT !.assignee = x, !.capability = "live"]
<1>3. row.assignee = x /\ row.status = "pending" BY <1>1, <1>2 DEF DispatchRows
<1>4. dispatch'[d] = row BY <1>1, <1>2
<1> HIDE DEF row
<1>5. PaneOf(d)' = x /\ Exists(d)' BY <1>3, <1>4 DEF PaneOf, Exists
<1>6. CASE AttachCreated(d, x)
  <2>1. attached'[d] = 1 /\ pane'[x].inc = 1 BY <1>1, <1>6 DEF AttachCreated
  <2>2. ~AttachExisting(d, x)
    BY <1>6, <1>1 DEF AttachCreated, AttachExisting, RInv, RunningPaneHasProcess
  <2> QED BY <1>5, <2>1, <2>2
<1>7. CASE AttachExisting(d, x)
  <2>1. attached'[d] = pane[x].inc /\ pane' = pane BY <1>1, <1>7 DEF AttachExisting, processVars
  <2>2. pane[x].inc # 0 BY <1>7 DEF AttachExisting, RInv, RunningPaneHasProcess
  <2> QED BY <1>5, <2>1, <2>2
<1> QED BY <1>6, <1>7

LEMMA DispatchToFacts ==
    ASSUME IInv, RInv, NEW d \in DispatchIds, NEW t \in Tasks, NEW x \in Terminals,
           DispatchTo(d, t, x)
    PROVE  attached'[d] = pane'[x].inc /\ PaneOf(d)' = x /\ Exists(d)'
<1>1. DOMAIN dispatch = DispatchIds /\ DOMAIN attached = DispatchIds
  BY DEF IInv, TypeOK, RInv, ResourceTypeOK
<1>2. attached'[d] = pane'[x].inc BY <1>1 DEF DispatchTo, processVars
<1>3. dispatch'[d].assignee = x /\ dispatch'[d].status = "dispatched"
  BY <1>1 DEF DispatchTo, CreateDispatchContext, NoDispatch
<1> QED BY <1>2, <1>3 DEF PaneOf, Exists

\* A dispatch gets a process by being dispatched to a terminal or by its start only.
LEMMA AttachedByStep ==
    ASSUME TerminalStep
    PROVE  \/ UNCHANGED attached
           \/ \E d \in DispatchIds, t \in Tasks, x \in Terminals : DispatchTo(d, t, x)
           \/ \E d \in DispatchIds, x \in Terminals : AttachCreated(d, x) \/ AttachExisting(d, x)
<1>1. CASE WorkerStep
  BY <1>1 DEF WorkerStep, Create, EndContextOnly, StartWorker, FinishStart, ShowAfterRestart,
              Report, Abandon, RecoverMissing, terminalVars, rowVars
<1>2. CASE ProcessStep
  BY <1>2 DEF ProcessStep, Open, Exit, ExitReported, Disconnect, Reconnect, UserInput, Restart,
              rowVars
<1>3. CASE ReleaseStep \/ RecoverNext
  BY <1>3 DEF ReleaseStep, RequestRelease, Retain, SettleDead, Inspected, Captured,
              ReleaseKills, ReleaseCloses, RecoverNext, rowVars
<1>4. CASE EndStep
  BY <1>4 DEF EndStep, BeginStop, StopInspected, StopKills, StopCloses, rowVars
<1>5. CASE UNCHANGED <<boardVars, terminalVars>> BY <1>5 DEF terminalVars
<1> QED BY <1>1, <1>2, <1>3, <1>4, <1>5 DEF TerminalStep, TerminalNext

LEMMA AttachedExistsStep ==
    ASSUME IInv, RInv, GInv, TerminalStep, ResourceTypeOK'
    PROVE  AttachedExists'
<1> SUFFICES ASSUME NEW e \in DispatchIds, attached'[e] # 0
             PROVE  /\ Exists(e)'
                    /\ PaneOf(e)' \in Terminals
                    /\ attached'[e] <= pane'[PaneOf(e)'].inc
  BY DEF AttachedExists
<1>1. /\ attached'[e] \in Nat
      /\ \A x \in Terminals : pane[x].inc \in Nat /\ pane'[x].inc \in Nat
  BY ProcessesAssumption DEF RInv, ResourceTypeOK, Incarnations, PaneRows
<1>2. CASE attached[e] # 0
  <2>1. attached'[e] = attached[e] /\ PaneOf(e)' = PaneOf(e) /\ Exists(e)'
    BY <1>2, AttachedStays
  <2>2. PaneOf(e) \in Terminals /\ attached[e] <= pane[PaneOf(e)].inc
    BY <1>2 DEF GInv, AttachedExists
  <2>3. pane[PaneOf(e)].inc <= pane'[PaneOf(e)].inc BY <2>2, ProcessesAdvance DEF Advances
  <2> QED BY <1>1, <2>1, <2>2, <2>3
<1>3. CASE attached[e] = 0
  <2>1. DOMAIN attached = DispatchIds BY DEF RInv, ResourceTypeOK
  <2>2. \/ UNCHANGED attached
        \/ \E d \in DispatchIds, t \in Tasks, x \in Terminals : DispatchTo(d, t, x)
        \/ \E d \in DispatchIds, x \in Terminals : AttachCreated(d, x) \/ AttachExisting(d, x)
    BY AttachedByStep
  <2>3. \E x \in Terminals : attached'[e] = pane'[x].inc /\ PaneOf(e)' = x /\ Exists(e)'
    <3>1. ASSUME NEW d \in DispatchIds, NEW t \in Tasks, NEW x \in Terminals, DispatchTo(d, t, x)
          PROVE  \E y \in Terminals : attached'[e] = pane'[y].inc /\ PaneOf(e)' = y /\ Exists(e)'
      <4>1. d = e BY <1>3, <2>1, <3>1 DEF DispatchTo
      <4> QED BY <3>1, <4>1, DispatchToFacts
    <3>2. ASSUME NEW d \in DispatchIds, NEW x \in Terminals,
                 AttachCreated(d, x) \/ AttachExisting(d, x)
          PROVE  \E y \in Terminals : attached'[e] = pane'[y].inc /\ PaneOf(e)' = y /\ Exists(e)'
      <4>1. d = e BY <1>3, <2>1, <3>2 DEF AttachCreated, AttachExisting
      <4> QED BY <3>2, <4>1, AttachmentFacts
    <3> QED BY <1>3, <2>2, <3>1, <3>2
  <2> QED BY <1>1, <2>3
<1> QED BY <1>2, <1>3

LEMMA OwnersShareStep ==
    ASSUME IInv, RInv, GInv, TerminalStep
    PROVE  OwnersShare'
<1> SUFFICES ASSUME NEW r \in DispatchIds, resource'[r].owner # 0
             PROVE  SameAs(resource[r].owner, r)'
  BY DEF OwnersShare
<1>1. CASE OwnerStays(r)
  <2>1. resource[r].owner \in DispatchIds BY <1>1, RowFacts DEF OwnerStays
  <2>2. SameAs(resource[r].owner, r) BY <1>1, <2>1 DEF OwnerStays, GInv, OwnersShare, DispatchIds
  <2>3. /\ attached'[resource[r].owner] = attached[resource[r].owner]
        /\ PaneOf(resource[r].owner) = dispatch'[resource[r].owner].assignee
        /\ attached'[r] = attached[r] /\ PaneOf(r)' = PaneOf(r)
    BY <2>1, <2>2, AttachedStays DEF SameAs, PaneOf
  <2> QED BY <1>1, <2>2, <2>3 DEF OwnerStays, SameAs, PaneOf
<1>2. CASE Given(r)
  <2>1. PICK d \in DispatchIds, x \in Terminals :
            /\ AttachCreated(d, x) \/ AttachExisting(d, x)
            /\ resource'[r].owner = d
            /\ r = d \/ (attached[r] = pane[x].inc /\ PaneOf(r) = x /\ AttachExisting(d, x))
    BY <1>2 DEF Given
  <2>2. /\ attached'[d] # 0 /\ PaneOf(d)' = x
        /\ AttachExisting(d, x) => attached'[d] = pane[x].inc
    BY <2>1, AttachmentFacts
  <2>3. attached'[d] = attached'[r] /\ PaneOf(d)' = PaneOf(r)'
    BY <2>1, <2>2, AttachedStays
  <2> QED BY <2>1, <2>2, <2>3 DEF SameAs, PaneOf
<1> QED BY <1>1, <1>2, RowThroughStep

\* A release in flight was begun by the terminal's owner, or for it by a recovery.
LEMMA CallThroughStep ==
    ASSUME RInv, NEW r \in DispatchIds, TerminalStep, release'[r].pc # "idle"
    PROVE  \/ release[r].pc # "idle" /\ release'[r].by = release[r].by
           \/ resource[r].owner # 0 /\ release'[r].by = resource[r].owner
           \/ \E p \in recovery.left : p[1] = r /\ release'[r].by = p[2]
<1> DEFINE Same == release[r].pc # "idle" /\ release'[r].by = release[r].by
<1>1. release \in [DispatchIds -> ReleaseCalls] BY DEF RInv, ResourceTypeOK
<1>2. CASE release' = release BY <1>2
<1>3. ASSUME NEW q \in DispatchIds, release' = Over(q) PROVE Same
  BY <1>1, <1>3 DEF Over, Idle
<1>4. ASSUME NEW q \in DispatchIds, NEW pc, release[q].pc # "idle", release' = At(q, pc) PROVE Same
  BY <1>1, <1>4 DEF At, ReleaseCalls
<1>5. ASSUME NEW d \in DispatchIds, RequestRelease(d)
      PROVE  Same \/ (resource[r].owner # 0 /\ release'[r].by = resource[r].owner)
  <2>1. PICK q \in OwnedBy(d) : release' = Joined(q, d, FALSE) BY <1>5 DEF RequestRelease
  <2>2. q \in DispatchIds /\ resource[q].owner = d /\ d # 0 BY DEF OwnedBy, DispatchIds
  <2> QED BY <1>1, <2>1, <2>2 DEF Joined
<1>6. ASSUME NEW q \in DispatchIds, NEW archived, release[q].pc # "idle", Commit(q, archived)
      PROVE  Same
  BY <1>3, <1>4, <1>6 DEF Commit
<1>7. CASE ReleaseStep
  <2>1. ASSUME NEW q \in DispatchIds,
               \/ \E shown \in BOOLEAN : Inspected(q, shown)
               \/ \E captured \in BOOLEAN : Captured(q, captured)
        PROVE  Same
    BY <1>3, <1>4, <1>6, <2>1 DEF Inspected, Captured
  <2>2. ASSUME NEW q \in DispatchIds,
               \/ ReleaseKills(q)
               \/ \E answer \in {"killed", "unconfirmed", "unavailable"} : ReleaseCloses(q, answer)
        PROVE  Same
    BY <1>3, <1>4, <2>2 DEF ReleaseKills, ReleaseCloses
  <2>3. ASSUME NEW d \in DispatchIds, Retain(d) \/ (\E q \in DispatchIds : SettleDead(d, q))
        PROVE  release' = release
    BY <2>3 DEF Retain, SettleDead, callVars
  <2> HIDE DEF Same
  <2>4. QED BY <1>2, <1>5, <1>7, <2>1, <2>2, <2>3 DEF ReleaseStep, Same
<1>8. CASE RecoverNext
  <2>1. CASE release' = release BY <1>2, <2>1
  <2>2. ASSUME NEW p \in recovery.left, release' = Joined(p[1], p[2], TRUE)
        PROVE  Same \/ (p[1] = r /\ release'[r].by = p[2])
    <3>1. p[1] \in DispatchIds BY DEF RInv, ResourceTypeOK
    <3> QED BY <1>1, <2>2, <3>1 DEF Joined
  <2> QED BY <1>8, <2>1, <2>2 DEF RecoverNext
<1>9. CASE Restart BY <1>9 DEF Restart, Idle
<1>10. CASE ProcessStep /\ ~Restart
  BY <1>2, <1>10
     DEF ProcessStep, Open, Exit, ExitReported, Disconnect, Reconnect, UserInput, callVars
<1>11. CASE WorkerStep
  BY <1>2, <1>11
     DEF WorkerStep, Create, DispatchTo, EndContextOnly, StartWorker, AttachCreated, AttachExisting,
         FinishStart, ShowAfterRestart, Report, Abandon, RecoverMissing, terminalVars, callVars
<1>12. CASE EndStep
  BY <1>2, <1>12 DEF EndStep, BeginStop, StopInspected, StopKills, StopCloses
<1>13. CASE UNCHANGED <<boardVars, terminalVars>> BY <1>2, <1>13 DEF terminalVars
<1> QED BY <1>7, <1>8, <1>9, <1>10, <1>11, <1>12, <1>13 DEF TerminalStep, TerminalNext

LEMMA CallsShareStep ==
    ASSUME IInv, RInv, GInv, TerminalStep
    PROVE  CallsShare'
<1> SUFFICES ASSUME NEW r \in DispatchIds, release'[r].pc # "idle"
             PROVE  release'[r].by # 0 /\ SameAs(release[r].by, r)'
  BY DEF CallsShare
<1>1. PICK d \in DispatchIds : release'[r].by = d /\ SameAs(d, r)
  <2>1. CASE release[r].pc # "idle" /\ release'[r].by = release[r].by
    <3>1. release[r].by \in {0} \cup DispatchIds BY DEF RInv, ResourceTypeOK, ReleaseCalls
    <3> QED BY <2>1, <3>1 DEF GInv, CallsShare
  <2>2. CASE resource[r].owner # 0 /\ release'[r].by = resource[r].owner
    BY <2>2, RowFacts DEF GInv, OwnersShare
  <2>3. CASE \E p \in recovery.left : p[1] = r /\ release'[r].by = p[2]
    <3>1. \A p \in recovery.left : p[2] \in DispatchIds BY DEF RInv, ResourceTypeOK
    <3> QED BY <2>3, <3>1 DEF GInv, PassShares
  <2> QED BY <2>1, <2>2, <2>3, CallThroughStep
<1>2. d # 0 BY DEF DispatchIds
<1>3. SameAs(d, r)' BY <1>1, SharingStays
<1> QED BY <1>1, <1>2, <1>3 DEF SameAs, PaneOf

\* What a recovery has left to do is what it read, or reads now.
LEMMA PassThroughStep ==
    ASSUME RInv, TerminalStep
    PROVE  recovery'.left \subseteq recovery.left \cup Backlog
<1>1. CASE recovery' = recovery BY <1>1
<1>2. recovery \in [on : BOOLEAN, rerun : BOOLEAN, left : SUBSET (DispatchIds \X DispatchIds),
                    at : {0} \cup DispatchIds]
  BY DEF RInv, ResourceTypeOK
<1>3. CASE Restart BY <1>3 DEF Restart, Quiet
<1>4. ASSUME NEW x \in Terminals, Reconnect(x) PROVE recovery'.left \subseteq recovery.left \cup Backlog
  BY <1>2, <1>4 DEF Reconnect, Quiet
<1>5. CASE RecoverNext
  <2>1. ASSUME NEW p \in recovery.left, recovery' = [recovery EXCEPT !.left = @ \ {p}, !.at = p[1]]
        PROVE  recovery'.left \subseteq recovery.left
    BY <1>2, <2>1
  <2>2. CASE recovery' = [Quiet EXCEPT !.on = TRUE, !.left = Backlog]
    <3>1. recovery' = [on |-> TRUE, rerun |-> FALSE, left |-> Backlog, at |-> 0]
      BY <2>2 DEF Quiet
    <3> QED BY <3>1
  <2>3. CASE recovery' = Quiet BY <2>3 DEF Quiet
  <2> QED BY <1>5, <2>1, <2>2, <2>3 DEF RecoverNext
<1>6. CASE ProcessStep
  BY <1>1, <1>3, <1>4, <1>6
     DEF ProcessStep, Open, Exit, ExitReported, Disconnect, UserInput, callVars
<1>7. CASE WorkerStep
  BY <1>1, <1>7
     DEF WorkerStep, Create, DispatchTo, EndContextOnly, StartWorker, AttachCreated, AttachExisting,
         FinishStart, ShowAfterRestart, Report, Abandon, RecoverMissing, terminalVars, callVars
<1>8. CASE ReleaseStep
  BY <1>1, <1>8
     DEF ReleaseStep, RequestRelease, Retain, SettleDead, Inspected, Captured, ReleaseKills,
         ReleaseCloses, callVars
<1>9. CASE EndStep BY <1>1, <1>9 DEF EndStep, BeginStop, StopInspected, StopKills, StopCloses
<1>10. CASE UNCHANGED <<boardVars, terminalVars>> BY <1>1, <1>10 DEF terminalVars
<1> QED BY <1>5, <1>6, <1>7, <1>8, <1>9, <1>10 DEF TerminalStep, TerminalNext

LEMMA PassSharesStep ==
    ASSUME IInv, RInv, GInv, TerminalStep
    PROVE  PassShares'
<1> SUFFICES ASSUME NEW p \in recovery'.left PROVE SameAs(p[2], p[1])' BY DEF PassShares
<1>1. p \in recovery.left \cup Backlog BY PassThroughStep
<1>2. p[1] \in DispatchIds /\ p[2] \in DispatchIds
  BY <1>1, BacklogType DEF RInv, ResourceTypeOK
<1>3. SameAs(p[2], p[1])
  <2>1. CASE p \in recovery.left BY <2>1 DEF GInv, PassShares
  <2>2. CASE p \in Backlog
    <3>1. p[2] = resource[p[1]].owner BY <2>2 DEF Backlog
    <3>2. p[2] # 0 BY <1>2 DEF DispatchIds
    <3> QED BY <1>2, <3>1, <3>2 DEF GInv, OwnersShare
  <2> QED BY <1>1, <2>1, <2>2
<1> QED BY <1>2, <1>3, SharingStays DEF SameAs, PaneOf

LEMMA GoneStep ==
    ASSUME IInv, RInv, GInv, TerminalStep
    PROVE  ReleasedIsGone'
<1> SUFFICES ASSUME NEW r \in DispatchIds, resource'[r].release = "released"
             PROVE  ~Runs(r)'
  BY DEF ReleasedIsGone
<1>1. attached[r] # 0 /\ ~Runs(r)
  <2>1. CASE StaysOpen(r)
    BY <2>1, RowFacts DEF StaysOpen, GInv, ReleasedIsGone
  <2>2. CASE \E d \in DispatchIds : SettleDead(d, r)
    BY <2>2, RowFacts DEF SettleDead
  <2>3. CASE ReleaseCloses(r, "killed")
    <3>1. ~Runs(release[r].by) /\ release[r].pc # "idle" BY <2>3 DEF ReleaseCloses
    <3>2. SameAs(release[r].by, r) BY <3>1 DEF GInv, CallsShare
    <3> QED BY <3>1, <3>2 DEF SameAs, Runs, IsCurrent
  <2> QED BY <2>1, <2>2, <2>3, RowThroughStep DEF WrittenOff
<1> QED BY <1>1, GoneStays

LEMMA InitGInv == TerminalInit => GInv
<1> SUFFICES ASSUME TerminalInit PROVE GInv OBVIOUS
<1>1. /\ attached = [d \in DispatchIds |-> 0]
      /\ resource = [d \in DispatchIds |-> NoResource]
      /\ release = [d \in DispatchIds |-> Idle]
      /\ recovery = Quiet
  BY DEF TerminalInit
<1> QED BY <1>1 DEF GInv, AttachedExists, OwnersShare, CallsShare, PassShares, ReleasedIsGone,
                    NoResource, Idle, Quiet

LEMMA NextGInv == IInv /\ RInv /\ GInv /\ TerminalStep => GInv'
<1> SUFFICES ASSUME IInv, RInv, GInv, TerminalStep PROVE GInv' OBVIOUS
<1>1. ResourceTypeOK' BY NextRInv DEF TerminalStep, RInv
<1> QED BY <1>1, AttachedExistsStep, OwnersShareStep, CallsShareStep, PassSharesStep, GoneStep
        DEF GInv

LEMMA SharingInductive == TerminalSpec => []GInv
BY InitGInv, NextGInv, ResourcesInductive, TerminalsKeepTheBoard, Inductive, PTL
   DEF TerminalSpec, TerminalStep

\* A terminal whose release is accounted for runs no more, and never will again: whichever
\* releases, recoveries, transfers, reused panes and restarts led there.
THEOREM ReleasedGone == TerminalSpec => []ReleasedIsGone
<1>1. GInv => ReleasedIsGone BY DEF GInv
<1> QED BY <1>1, SharingInductive, PTL

=============================================================================
