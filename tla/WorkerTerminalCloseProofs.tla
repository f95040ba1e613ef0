----------------------- MODULE WorkerTerminalCloseProofs -----------------------
(***************************************************************************)
(* A process is closed only for its own worker.  Whoever tells a terminal   *)
(* to close, a release or a stop, does so on what it read before its last    *)
(* await: the invariant below says why what it read still holds, or the      *)
(* process is gone.                                                         *)
(***************************************************************************)
EXTENDS WorkerTerminalEndProofs, TaskDispatchBoardProofs

-----------------------------------------------------------------------------
(* The board's invariants, without operators.                                 *)

\* No operator sets a status in this composition, so what TaskDispatchBoardProofs shows
\* holds of it whatever the constants are.
LEMMA BoardBeneath == IInv /\ BInv /\ TerminalStep => BInv'
<1> SUFFICES ASSUME IInv, BInv, TerminalStep PROVE BInv' OBVIOUS
<1>1. UNCHANGED vars => BInv'
  BY DEF vars, BInv, DispatchedTaskHasDispatch, WorkerSettlesWithDispatch, OpenFateBlocksTask,
         ActiveOf, Active, Unsettled
<1>2. UNCHANGED boardVars => BInv' BY <1>1 DEF boardVars, vars
<1>3. CASE ProcessStep
  <2>1. \/ UNCHANGED boardVars
        \/ \E d \in DispatchIds : FailDispatch(d, TRUE, "other")
    BY <1>3 DEF ProcessStep, Open, Exit, ExitReported, Disconnect, Reconnect, UserInput, Restart,
                Occupied
  <2> QED BY <1>2, <2>1, FailDispatchBoard
<1>4. CASE WorkerStep
  <2>1. ASSUME NEW t \in Tasks, Create(t) PROVE BInv' BY <2>1, CreateTaskBoard DEF Create
  <2>2. ASSUME NEW d \in DispatchIds, NEW t \in Tasks,
               \/ \E x \in Terminals : DispatchTo(d, t, x)
               \/ \E retryOf \in {0} \cup DispatchIds : StartWorker(d, t, retryOf)
        PROVE  BInv'
    BY <2>2, CreateDispatchContextBoard, CreateStartingWorkerDispatchBoard
       DEF DispatchTo, StartWorker
  <2>3. ASSUME NEW d \in DispatchIds, EndContextOnly(d) \/ RecoverMissing(d) \/ Abandon(d)
        PROVE  BInv'
    BY <2>3, ReleaseContextOnlyDispatchBoard, FailDispatchBoard,
       ReconcileMissingWorkerTerminalBoard, AbandonWorkerDispatchBoard
       DEF EndContextOnly, RecoverMissing, Abandon
  <2>4. ASSUME NEW d \in DispatchIds, NEW x \in Terminals,
               AttachCreated(d, x) \/ AttachExisting(d, x)
        PROVE  BInv'
    BY <2>4, PrepareStartingWorkerAuthorityBoard DEF AttachCreated, AttachExisting, Attaches
  <2>5. ASSUME NEW d \in DispatchIds, FinishStart(d) \/ ShowAfterRestart(d) PROVE BInv'
    BY <2>5, MarkWorkerDispatchReadyBoard, FailWorkerStartBoard, MarkWorkerStartUnknownBoard,
       MarkWorkerStopUnknownBoard DEF FinishStart, ShowAfterRestart
  <2>6. ASSUME NEW d \in DispatchIds, NEW outcome \in {"succeeded", "failed"}, Report(d, outcome)
        PROVE  BInv'
    BY <2>6, SettleWorkerReportBoard DEF Report
  <2> QED BY <1>4, <2>1, <2>2, <2>3, <2>4, <2>5, <2>6 DEF WorkerStep
<1>5. CASE EndStep
  <2>1. PICK d \in DispatchIds :
            \/ UNCHANGED boardVars
            \/ BeginWorkerStop(d) \/ MarkWorkerStopUnknown(d) \/ SettleWorkerStop(d)
    BY <1>5 DEF EndStep, BeginStop, StopInspected, StopKills, StopCloses, StopUnanswered
  <2>2. SettleWorkerStop(d) => BInv' BY StoppedBoard DEF SettleWorkerStop
  <2> QED BY <1>2, <2>1, <2>2, BeginWorkerStopBoard, MarkWorkerStopUnknownBoard
<1>6. CASE ReleaseStep \/ RecoverNext BY <1>1, <1>6, ReleaseStepOnBoard
<1>7. CASE UNCHANGED <<boardVars, terminalVars>> BY <1>2, <1>7
<1> QED BY <1>3, <1>4, <1>5, <1>6, <1>7 DEF TerminalStep, TerminalNext

-----------------------------------------------------------------------------
(* What becomes of a worker.                                                  *)

\* A settled worker stays settled, and none is made unsettled but by its start.
FateStays(e) ==
    \/ worker'[e] = worker[e]
    \/ Unsettled(e) /\ worker'[e] # "none"
    \/ Settled(e) /\ Settled(e)'

LEMMA ActionFate ==
    ASSUME IInv, NEW d \in DispatchIds, NEW e \in DispatchIds,
           \/ \E exited \in BOOLEAN : FailDispatch(d, exited, "other")
           \/ ReleaseContextOnlyDispatch(d)
           \/ ReconcileMissingWorkerTerminal(d)
           \/ MarkWorkerDispatchReady(d)
           \/ \E stalled \in BOOLEAN : FailWorkerStart(d, stalled)
           \/ MarkWorkerStartUnknown(d)
           \/ BeginWorkerStop(d)
           \/ MarkWorkerStopUnknown(d)
           \/ SettleWorkerStop(d)
           \/ AbandonWorkerDispatch(d)
           \/ \E outcome \in {"succeeded", "failed"} : SettleWorkerReport(d, outcome)
    PROVE  FateStays(e)
<1>1. worker \in [DispatchIds -> SettledStates \cup UnsettledStates \cup {"none"}]
  BY DEF IInv, TypeOK
<1>2. \/ worker' = worker
      \/ /\ Unsettled(d)
         /\ \E state \in {"ready", "failed", "start_unknown", "stop_unknown", "stopping", "stopped",
                          "abandoned", "succeeded"} :
                worker' = [worker EXCEPT ![d] = state]
      \/ /\ Settled(d)
         /\ \E state \in {"failed", "abandoned", "succeeded"} : worker' = [worker EXCEPT ![d] = state]
  <2>1. CASE \/ \E exited \in BOOLEAN : FailDispatch(d, exited, "other")
             \/ ReleaseContextOnlyDispatch(d)
             \/ ReconcileMissingWorkerTerminal(d)
    BY <2>1 DEF FailDispatch, WorkerAfterFailure, ReleaseContextOnlyDispatch,
                ReconcileMissingWorkerTerminal
  <2>2. CASE \/ MarkWorkerDispatchReady(d)
             \/ \E stalled \in BOOLEAN : FailWorkerStart(d, stalled)
             \/ MarkWorkerStartUnknown(d)
    BY <2>2 DEF MarkWorkerDispatchReady, Starting, FailWorkerStart, MarkWorkerStartUnknown,
                Unsettled, UnsettledStates
  <2>3. CASE BeginWorkerStop(d) \/ MarkWorkerStopUnknown(d) \/ SettleWorkerStop(d)
    BY <2>3 DEF BeginWorkerStop, MarkWorkerStopUnknown, SettleWorkerStop, Stopped, Unsettled,
                UnsettledStates
  <2>4. CASE AbandonWorkerDispatch(d)
    BY <1>1, <2>4 DEF AbandonWorkerDispatch, Unsettled, Settled
  <2>5. CASE \E outcome \in {"succeeded", "failed"} : SettleWorkerReport(d, outcome)
    <3>1. PICK outcome \in {"succeeded", "failed"} : SettleWorkerReport(d, outcome) BY <2>5
    <3>2. \/ worker' = worker
          \/ worker[d] \in {"failed", "ready"} /\ worker' = [worker EXCEPT ![d] = outcome]
      BY <3>1 DEF SettleWorkerReport
    <3> QED BY <3>2 DEF Unsettled, UnsettledStates, Settled, SettledStates
  <2> QED BY <2>1, <2>2, <2>3, <2>4, <2>5
<1> QED BY <1>1, <1>2 DEF FateStays, Settled, SettledStates

LEMMA StepFate ==
    ASSUME IInv, TerminalStep, NEW e \in DispatchIds
    PROVE  \/ FateStays(e)
           \/ \E t \in Tasks, retryOf \in {0} \cup DispatchIds : StartWorker(e, t, retryOf)
<1>1. UNCHANGED worker => FateStays(e) BY DEF FateStays
<1>2. CASE ProcessStep
  <2>1. \/ UNCHANGED boardVars
        \/ \E d \in DispatchIds : FailDispatch(d, TRUE, "other")
    BY <1>2 DEF ProcessStep, Open, Exit, ExitReported, Disconnect, Reconnect, UserInput, Restart,
                Occupied
  <2> QED BY <1>1, <2>1, ActionFate DEF boardVars
<1>3. CASE WorkerStep
  <2>1. ASSUME \/ \E t \in Tasks : Create(t)
               \/ \E d \in DispatchIds, t \in Tasks, x \in Terminals : DispatchTo(d, t, x)
               \/ \E d \in DispatchIds, x \in Terminals : AttachCreated(d, x) \/ AttachExisting(d, x)
        PROVE  FateStays(e)
    BY <1>1, <2>1 DEF Create, CreateTask, DispatchTo, CreateDispatchContext, AttachCreated,
                      AttachExisting, Attaches, PrepareStartingWorkerAuthority
  <2>2. ASSUME NEW d \in DispatchIds, NEW t \in Tasks, NEW retryOf \in {0} \cup DispatchIds,
               d # e, StartWorker(d, t, retryOf)
        PROVE  FateStays(e)
    <3>1. worker' = [worker EXCEPT ![d] = "starting"]
      BY <2>2 DEF StartWorker, CreateStartingWorkerDispatch
    <3> QED BY <2>2, <3>1 DEF FateStays, IInv, TypeOK
  <2>3. ASSUME NEW d \in DispatchIds,
               \/ EndContextOnly(d) \/ FinishStart(d) \/ ShowAfterRestart(d) \/ Abandon(d)
               \/ RecoverMissing(d)
               \/ \E outcome \in {"succeeded", "failed"} : Report(d, outcome)
        PROVE  FateStays(e)
    BY <2>3, ActionFate DEF EndContextOnly, FinishStart, ShowAfterRestart, Abandon, RecoverMissing,
                            Report
  <2> QED BY <1>3, <2>1, <2>2, <2>3 DEF WorkerStep
<1>4. CASE EndStep
  <2>1. PICK d \in DispatchIds :
            \/ UNCHANGED boardVars
            \/ BeginWorkerStop(d) \/ MarkWorkerStopUnknown(d) \/ SettleWorkerStop(d)
    BY <1>4 DEF EndStep, BeginStop, StopInspected, StopKills, StopCloses, StopUnanswered
  <2> QED BY <1>1, <2>1, ActionFate DEF boardVars
<1>5. CASE ReleaseStep \/ RecoverNext BY <1>1, <1>5, ReleaseStepOnBoard DEF vars
<1>6. CASE UNCHANGED <<boardVars, terminalVars>> BY <1>1, <1>6 DEF boardVars
<1> QED BY <1>2, <1>3, <1>4, <1>5, <1>6 DEF TerminalStep, TerminalNext

LEMMA SettledStays ==
    ASSUME IInv, TerminalStep, NEW e \in DispatchIds, Settled(e)
    PROVE  Settled(e)'
<1>1. Exists(e) /\ ~Unsettled(e)
  BY DEF IInv, RowsBelongToTasks, Settled, SettledStates, Unsettled, UnsettledStates
<1>2. ~\E t \in Tasks, retryOf \in {0} \cup DispatchIds : StartWorker(e, t, retryOf)
  BY <1>1, ClaimsStay DEF StartWorker
<1> QED BY <1>1, <1>2, StepFate DEF FateStays, Settled

LEMMA UnsettledWas ==
    ASSUME IInv, TerminalStep, NEW e \in DispatchIds, Unsettled(e)'
    PROVE  \/ Unsettled(e)
           \/ \E t \in Tasks, retryOf \in {0} \cup DispatchIds : StartWorker(e, t, retryOf)
<1>1. ~Settled(e)' BY DEF Unsettled, UnsettledStates, Settled, SettledStates
<1> QED BY <1>1, StepFate DEF FateStays, Unsettled

-----------------------------------------------------------------------------
(* The invariant of the closes.                                               *)

\* A release is requested of a terminal its owner owns, by an owner who has settled.
CommittedIsOwned ==
    \A r \in DispatchIds : resource[r].release \in Committed =>
        resource[r].ownership = "owned" /\ Settled(resource[r].owner)

\* A running worker's process is in a row of its own, which is not written off.
WorkerHasTerminal ==
    \A e \in DispatchIds : Unsettled(e) /\ attached[e] # 0 =>
        \E q \in OwnedBy(e) : resource[q].ownership \notin {"none", "released"}

\* So no worker is in a process that closes, and none gets into it.
NobodyElseInside ==
    \A r \in DispatchIds : resource[r].release = "releasing" =>
        \A e \in DispatchIds : Unsettled(e) => ~SameAs(e, r)

\* A worker whose stop is under way is stopping, or its process has exited.
StopHoldsWorker ==
    \A d \in DispatchIds : stop[d] # "idle" =>
        d \notin lost /\ (worker[d] = "stopping" \/ (attached[d] # 0 /\ ~Runs(d)))

StopOwnsTerminal ==
    \A d \in DispatchIds : stop[d] = "closing" /\ worker[d] = "stopping" =>
        \E q \in OwnedBy(d) : resource[q].ownership = "owned"

AssignedIsAttached ==
    \A d \in DispatchIds : Unsettled(d) /\ PaneOf(d) \in Terminals => attached[d] # 0

\* An exit is reported of a process that has exited.
ExitingIsOver == \A x \in Terminals : pane[x].exiting => ~pane[x].up

CInv ==
    /\ CommittedIsOwned
    /\ WorkerHasTerminal
    /\ NobodyElseInside
    /\ StopHoldsWorker
    /\ StopOwnsTerminal
    /\ AssignedIsAttached
    /\ ExitingIsOver

-----------------------------------------------------------------------------
(* What a step does to a row.                                                 *)

Held(r) ==
    resource'[r].owner = resource[r].owner /\ resource'[r].ownership = resource[r].ownership

\* It stays, and its release goes no further.
Kept(r) ==
    /\ Held(r)
    /\ resource'[r].release \in Committed => resource[r].release \in Committed
    /\ resource'[r].release = "releasing" => resource[r].release = "releasing"

\* Its owner, who has settled, asks for the release.
Asked(r) ==
    /\ Held(r)
    /\ resource[r].ownership = "owned" /\ resource[r].owner # 0 /\ Settled(resource[r].owner)
    /\ resource'[r].release = "releasing" => resource[r].release = "releasing"

\* The release has proven that no other row names the process.
Confirmed(r) ==
    /\ Held(r)
    /\ UNCHANGED <<boardVars, attached>>
    /\ resource[r].release \in Committed
    /\ ~Conflict(r)

\* The user takes the terminal over, or it is written off.
TakenFrom(r) ==
    /\ resource[r].ownership = "owned" /\ worker[resource[r].owner] # "stopping"
    /\ resource'[r].ownership = "user_owned" /\ resource'[r].release = "retained"
Left(r) ==
    /\ resource'[r].owner = resource[r].owner
    /\ \/ TakenFrom(r)
       \/ /\ Settled(resource[r].owner) \/ resource[r].release \in Committed
          /\ resource'[r].release = "released"

\* It is made, or goes from a settled owner to the worker attached now.
Passed(r) ==
    /\ resource'[r].release = "not_requested"
    /\ attached[r] = 0 \/ Settled(resource[r].owner)

LEMMA OutcomeKept ==
    ASSUME RInv, NEW r \in DispatchIds, NEW q \in DispatchIds,
           resource' \in {resource, MarkUnknown(q), Revert(q)}
    PROVE  Kept(r)
<1>1. resource \in [DispatchIds -> ResourceRows] /\ resource[r] \in ResourceRows
  BY DEF RInv, ResourceTypeOK
<1>2. CASE resource' = resource BY <1>2 DEF Kept, Held
<1>3. CASE resource' = MarkUnknown(q)
  BY <1>1, <1>3 DEF MarkUnknown, WithRelease, Kept, Held, Committed, ResourceRows
<1>4. CASE resource' = Revert(q)
  <2> DEFINE row == [resource[q] EXCEPT !.release = "retained", !.byUser = FALSE]
  <2>1. /\ row.owner = resource[q].owner /\ row.ownership = resource[q].ownership
        /\ row.release = "retained"
    BY <1>1 DEF ResourceRows
  <2>2. resource' = resource \/ resource' = [resource EXCEPT ![q] = row] BY <1>4 DEF Revert
  <2> HIDE DEF row
  <2> QED BY <1>1, <2>1, <2>2 DEF Kept, Held, Committed
<1> QED BY <1>2, <1>3, <1>4

LEMMA CommitMoves ==
    ASSUME RInv, NEW r \in DispatchIds, NEW q \in DispatchIds, NEW archived,
           Commit(q, archived), UNCHANGED <<boardVars, attached>>
    PROVE  Kept(r) \/ Confirmed(r)
<1>1. resource \in [DispatchIds -> ResourceRows] BY DEF RInv, ResourceTypeOK
<1>2. \/ resource' \in {resource, Revert(q)}
      \/ /\ resource[q].release \in Committed /\ ~Conflict(q)
         /\ resource' = WithRelease(q, "releasing")
  BY DEF Commit, LeaseIsCurrent, Committed
<1>3. CASE resource' \in {resource, Revert(q)} BY <1>3, OutcomeKept
<1>4. ASSUME resource[q].release \in Committed, ~Conflict(q), resource' = WithRelease(q, "releasing")
      PROVE  Kept(r) \/ Confirmed(r)
  <2>1. Held(r) /\ (r # q => resource'[r] = resource[r])
    BY <1>1, <1>4 DEF WithRelease, Held, ResourceRows
  <2> QED BY <1>4, <2>1 DEF Kept, Confirmed
<1> QED BY <1>2, <1>3, <1>4

LEMMA RowMovesByRelease ==
    ASSUME RInv, NEW r \in DispatchIds, ReleaseStep
    PROVE  Kept(r) \/ Asked(r) \/ Confirmed(r) \/ Left(r)
<1> DEFINE Goal == Kept(r) \/ Asked(r) \/ Confirmed(r) \/ Left(r)
<1>1. resource \in [DispatchIds -> ResourceRows] BY DEF RInv, ResourceTypeOK
<1>2. ASSUME NEW d \in DispatchIds, RequestRelease(d) PROVE Kept(r) \/ Asked(r)
  <2>1. PICK q \in OwnedBy(d) :
            /\ MayRequest(d, q)
            /\ resource' = [resource EXCEPT
                   ![q].release = IF @ = "releasing" THEN @ ELSE "requested", ![q].byUser = FALSE]
    BY <1>2 DEF RequestRelease
  <2> DEFINE state == IF resource[q].release = "releasing" THEN "releasing" ELSE "requested"
             row == [resource[q] EXCEPT !.release = state, !.byUser = FALSE]
  <2>2. q \in DispatchIds /\ resource[q].owner = d /\ d # 0 BY DEF OwnedBy, DispatchIds
  <2>3. /\ row.owner = resource[q].owner /\ row.ownership = resource[q].ownership
        /\ row.release = "releasing" => resource[q].release = "releasing"
    BY <1>1, <2>2 DEF ResourceRows
  <2>4. resource' = [resource EXCEPT ![q] = row] BY <2>1
  <2>5. resource[q].ownership = "owned" /\ Settled(resource[q].owner)
    BY <2>1, <2>2 DEF MayRequest, Settled, SettledStates
  <2> HIDE DEF row
  <2>6. CASE r = q BY <1>1, <2>2, <2>3, <2>4, <2>5, <2>6 DEF Asked, Held
  <2>7. CASE r # q BY <1>1, <2>4, <2>7 DEF Kept, Held
  <2> QED BY <2>6, <2>7
<1>3. ASSUME NEW d \in DispatchIds, Retain(d) PROVE Kept(r)
  <2>1. PICK q \in OwnedBy(d) :
            resource' = [resource EXCEPT ![q].release = "retained", ![q].byUser = TRUE]
    BY <1>3 DEF Retain
  <2> DEFINE row == [resource[q] EXCEPT !.release = "retained", !.byUser = TRUE]
  <2>2. q \in DispatchIds BY DEF OwnedBy
  <2>3. /\ row.owner = resource[q].owner /\ row.ownership = resource[q].ownership
        /\ row.release = "retained"
    BY <1>1, <2>2 DEF ResourceRows
  <2>4. resource' = [resource EXCEPT ![q] = row] BY <2>1
  <2> HIDE DEF row
  <2> QED BY <1>1, <2>2, <2>3, <2>4 DEF Kept, Held, Committed
<1>4. ASSUME NEW q \in DispatchIds, Settled(resource[q].owner) \/ resource[q].release \in Committed,
             resource' = [resource EXCEPT ![q].release = "released", ![q].ownership = "released"]
      PROVE  Kept(r) \/ Left(r)
  <2> DEFINE row == [resource[q] EXCEPT !.release = "released", !.ownership = "released"]
  <2>1. row.owner = resource[q].owner /\ row.release = "released" BY <1>1 DEF ResourceRows
  <2>2. resource' = [resource EXCEPT ![q] = row] BY <1>4
  <2> HIDE DEF row
  <2> QED BY <1>1, <1>4, <2>1, <2>2 DEF Kept, Held, Left
<1>5. ASSUME NEW d \in DispatchIds, NEW q \in DispatchIds, SettleDead(d, q) PROVE Kept(r) \/ Left(r)
  BY <1>4, <1>5 DEF SettleDead
<1>6. ASSUME NEW q \in DispatchIds,
             \/ \E shown \in BOOLEAN : Inspected(q, shown)
             \/ \E captured \in BOOLEAN : Captured(q, captured)
      PROVE  Kept(r) \/ Confirmed(r)
  <2>1. UNCHANGED <<boardVars, attached>> BY <1>6 DEF Inspected, Captured
  <2>2. \/ resource' \in {resource, MarkUnknown(q), Revert(q)}
        \/ \E archived : Commit(q, archived)
    BY <1>6 DEF Inspected, Captured
  <2> QED BY <2>1, <2>2, OutcomeKept, CommitMoves
<1>7. ASSUME NEW q \in DispatchIds,
             \/ ReleaseKills(q)
             \/ \E answer \in {"killed", "unconfirmed", "unavailable"} : ReleaseCloses(q, answer)
      PROVE  Kept(r) \/ Left(r)
  <2>1. \/ resource' \in {resource, MarkUnknown(q)}
        \/ resource' = Settle(q)
    BY <1>7 DEF ReleaseKills, ReleaseCloses, AfterClose, rowVars
  <2>2. CASE resource' = Settle(q) BY <1>4, <2>2, OutcomeKept DEF Settle
  <2> QED BY <2>1, <2>2, OutcomeKept
<1> HIDE DEF Goal
<1>8. Goal BY <1>2, <1>3, <1>5, <1>6, <1>7 DEF ReleaseStep, Goal
<1> QED BY <1>8 DEF Goal

LEMMA AttachmentMoves ==
    ASSUME RInv, NEW r \in DispatchIds, NEW d \in DispatchIds, NEW x \in Terminals,
           AttachCreated(d, x) \/ AttachExisting(d, x)
    PROVE  /\ Kept(r) \/ Passed(r)
           /\ \E q \in DispatchIds :
                  resource'[q].owner = d /\ resource'[q].ownership \notin {"none", "released"}
<1>1. resource \in [DispatchIds -> ResourceRows] BY DEF RInv, ResourceTypeOK
<1>2. attached[d] = 0 BY DEF AttachCreated, AttachExisting, Attaches
<1>3. ASSUME NEW q \in DispatchIds, NEW row,
             resource' = [resource EXCEPT ![q] = row],
             row.owner = d, row.ownership \notin {"none", "released"},
             row.release = "not_requested", attached[q] = 0 \/ Settled(resource[q].owner)
      PROVE  /\ Kept(r) \/ Passed(r)
             /\ \E p \in DispatchIds :
                    resource'[p].owner = d /\ resource'[p].ownership \notin {"none", "released"}
  <2>1. r # q => Kept(r) BY <1>1, <1>3 DEF Kept, Held
  <2>2. r = q => Passed(r) BY <1>1, <1>3 DEF Passed
  <2> QED BY <1>1, <1>3, <2>1, <2>2
<1>4. ASSUME NEW ownership \in {"owned", "external"}, resource' = NewResource(d, ownership)
      PROVE  /\ Kept(r) \/ Passed(r)
             /\ \E p \in DispatchIds :
                    resource'[p].owner = d /\ resource'[p].ownership \notin {"none", "released"}
  <2> DEFINE row == [NoResource EXCEPT !.owner = d, !.ownership = ownership]
  <2>1. /\ row.owner = d /\ row.ownership \notin {"none", "released"}
        /\ row.release = "not_requested"
    BY DEF NoResource
  <2>2. resource' = [resource EXCEPT ![d] = row] BY <1>4 DEF NewResource
  <2> HIDE DEF row
  <2> QED BY <1>2, <1>3, <2>1, <2>2
<1>5. ASSUME NEW q \in Transferable(x, pane[x].inc),
             resource' = [resource EXCEPT ![q] =
                 [NoResource EXCEPT !.owner = d, !.priors = resource[q].priors \cup {resource[q].owner},
                                    !.ownership = "owned"]]
      PROVE  /\ Kept(r) \/ Passed(r)
             /\ \E p \in DispatchIds :
                    resource'[p].owner = d /\ resource'[p].ownership \notin {"none", "released"}
  <2> DEFINE priors == resource[q].priors \cup {resource[q].owner}
             row == [NoResource EXCEPT !.owner = d, !.priors = priors, !.ownership = "owned"]
  <2>1. q \in DispatchIds /\ Settled(resource[q].owner) BY DEF Transferable
  <2>2. /\ row.owner = d /\ row.ownership \notin {"none", "released"}
        /\ row.release = "not_requested"
    BY DEF NoResource
  <2>3. resource' = [resource EXCEPT ![q] = row] BY <1>5
  <2> HIDE DEF row
  <2> QED BY <1>3, <2>1, <2>2, <2>3
<1> QED BY <1>4, <1>5 DEF AttachCreated, AttachExisting

LEMMA RowMoves ==
    ASSUME RInv, NEW r \in DispatchIds, TerminalStep
    PROVE  Kept(r) \/ Asked(r) \/ Confirmed(r) \/ Left(r) \/ Passed(r)
<1>1. CASE resource' = resource BY <1>1, OutcomeKept
<1>2. CASE ReleaseStep BY <1>2, RowMovesByRelease
<1>3. ASSUME NEW x \in Terminals, UserInput(x) PROVE Kept(r) \/ Left(r)
  <2> DEFINE row == [resource[r] EXCEPT !.ownership = "user_owned", !.release = "retained",
                                        !.byUser = FALSE]
  <2>1. resource[r] \in ResourceRows BY RowFacts
  <2>2. row.owner = resource[r].owner /\ row.ownership = "user_owned" /\ row.release = "retained"
    BY <2>1 DEF ResourceRows
  <2>3. resource'[r] = IF r \in TakenOver(x) THEN row ELSE resource[r] BY <1>3 DEF UserInput
  <2> HIDE DEF row
  <2>4. CASE r \in TakenOver(x) BY <2>2, <2>3, <2>4 DEF TakenOver, Left, TakenFrom
  <2>5. CASE r \notin TakenOver(x) BY <2>3, <2>5 DEF Kept, Held
  <2> QED BY <2>4, <2>5
<1>4. CASE ProcessStep
  BY <1>1, <1>3, <1>4
     DEF ProcessStep, Open, Exit, ExitReported, Disconnect, Reconnect, Restart, rowVars
<1>5. CASE WorkerStep
  BY <1>1, <1>5, AttachmentMoves
     DEF WorkerStep, Create, DispatchTo, EndContextOnly, StartWorker, FinishStart,
         ShowAfterRestart, Report, Abandon, RecoverMissing, terminalVars, rowVars
<1>6. CASE EndStep \/ RecoverNext \/ UNCHANGED <<boardVars, terminalVars>>
  BY <1>1, <1>6
     DEF EndStep, BeginStop, StopInspected, StopKills, StopCloses, RecoverNext, terminalVars, rowVars
<1> QED BY <1>2, <1>4, <1>5, <1>6 DEF TerminalStep, TerminalNext

-----------------------------------------------------------------------------
(* Every step keeps the invariant of the closes.                              *)

LEMMA OwnerIsDispatch ==
    ASSUME RInv, NEW r \in DispatchIds, resource[r].release # "not_requested"
    PROVE  resource[r].owner \in DispatchIds /\ attached[r] # 0
BY RowFacts

LEMMA CommittedStep ==
    ASSUME IInv, RInv, CInv, TerminalStep
    PROVE  CommittedIsOwned'
<1> SUFFICES ASSUME NEW r \in DispatchIds, resource'[r].release \in Committed
             PROVE  resource'[r].ownership = "owned" /\ Settled(resource[r].owner)'
  BY DEF CommittedIsOwned, Committed
<1>1. ~Left(r) /\ ~Passed(r) BY DEF Left, TakenFrom, Passed, Committed
<1>2. /\ Held(r) /\ resource[r].ownership = "owned"
      /\ resource[r].owner \in DispatchIds /\ Settled(resource[r].owner)
  <2>1. CASE resource[r].release \in Committed
    <3>1. resource[r].release # "not_requested" BY <2>1 DEF Committed
    <3>2. Held(r) BY <1>1, RowMoves DEF Kept, Asked, Confirmed
    <3> QED BY <2>1, <3>1, <3>2, OwnerIsDispatch DEF CInv, CommittedIsOwned
  <2>2. CASE Asked(r) BY <2>2, RowFacts DEF Asked
  <2> QED BY <1>1, <2>1, <2>2, RowMoves DEF Kept, Confirmed
<1>3. Settled(resource[r].owner)' BY <1>2, SettledStays DEF Held, Settled
<1> QED BY <1>2, <1>3 DEF Held

\* A worker with a process had it before the step, or is attached by it.
LEMMA WorkerWas ==
    ASSUME IInv, RInv, GInv, TerminalStep, NEW e \in DispatchIds, Unsettled(e)', attached'[e] # 0
    PROVE  /\ Unsettled(e)
           /\ \/ attached[e] # 0
              \/ /\ attached[e] = 0
                 /\ \E x \in Terminals : AttachCreated(e, x) \/ AttachExisting(e, x)
<1>1. DOMAIN attached = DispatchIds BY DEF RInv, ResourceTypeOK
<1>2. ASSUME NEW t \in Tasks, NEW retryOf \in {0} \cup DispatchIds, StartWorker(e, t, retryOf)
      PROVE  FALSE
  <2>1. attached' = attached BY <1>2 DEF StartWorker, terminalVars
  <2>2. Exists(e) BY <2>1 DEF GInv, AttachedExists
  <2> QED BY <1>2, <2>2, ClaimsStay DEF StartWorker
<1>3. Unsettled(e) BY <1>2, UnsettledWas
<1>4. Exists(e) BY <1>3 DEF IInv, RowsBelongToTasks, Unsettled, UnsettledStates
<1>5. CASE attached[e] = 0
  <2>1. ASSUME NEW d \in DispatchIds, NEW t \in Tasks, NEW x \in Terminals, DispatchTo(d, t, x)
        PROVE  FALSE
    <3>1. d # e BY <1>4, <2>1, ClaimsStay DEF DispatchTo
    <3> QED BY <1>1, <1>5, <2>1, <3>1 DEF DispatchTo
  <2>2. ASSUME NEW d \in DispatchIds, NEW x \in Terminals,
               AttachCreated(d, x) \/ AttachExisting(d, x)
        PROVE  d = e
    BY <1>1, <1>5, <2>2 DEF AttachCreated, AttachExisting
  <2> QED BY <1>3, <1>5, <2>1, <2>2, AttachedByStep
<1> QED BY <1>3, <1>5

LEMMA WorkerHasStep ==
    ASSUME IInv, RInv, GInv, CInv, TerminalStep
    PROVE  WorkerHasTerminal'
<1> SUFFICES ASSUME NEW e \in DispatchIds, Unsettled(e)', attached'[e] # 0
             PROVE  \E q \in DispatchIds :
                        /\ resource'[q].owner = e
                        /\ resource'[q].ownership \notin {"none", "released"}
  BY DEF WorkerHasTerminal, OwnedBy
<1>1. Unsettled(e) BY WorkerWas
<1>2. CASE \E x \in Terminals : AttachCreated(e, x) \/ AttachExisting(e, x)
  BY <1>2, AttachmentMoves
<1>3. CASE attached[e] # 0
  <2>1. PICK q \in DispatchIds :
            resource[q].owner = e /\ resource[q].ownership \notin {"none", "released"}
    BY <1>1, <1>3 DEF CInv, WorkerHasTerminal, OwnedBy
  <2>2. ~Settled(e) BY <1>1 DEF Unsettled, UnsettledStates, Settled, SettledStates
  <2>3. resource[q].release \notin Committed BY <2>1, <2>2 DEF CInv, CommittedIsOwned
  <2>4. attached[q] # 0
    <3>1. e # 0 BY DEF DispatchIds
    <3> QED BY <2>1, <3>1, RowFacts
  <2>5. ~Passed(q) BY <2>1, <2>2, <2>4 DEF Passed
  <2>6. resource'[q].owner = e /\ resource'[q].ownership \notin {"none", "released"}
    BY <2>1, <2>2, <2>3, <2>5, RowMoves DEF Kept, Asked, Confirmed, Left, TakenFrom, Held
  <2> QED BY <2>6
<1> QED BY <1>2, <1>3, WorkerWas

LEMMA NobodyInsideStep ==
    ASSUME IInv, RInv, GInv, CInv, TerminalStep
    PROVE  NobodyElseInside'
<1> SUFFICES ASSUME NEW r \in DispatchIds, resource'[r].release = "releasing",
                    NEW e \in DispatchIds, Unsettled(e)', SameAs(e, r)'
             PROVE  FALSE
  BY DEF NobodyElseInside
<1>1. attached'[e] # 0 /\ attached'[e] = attached'[r] /\ PaneOf(e)' = PaneOf(r)'
  BY DEF SameAs
<1>2. Unsettled(e) BY <1>1, WorkerWas
<1>3. ~Settled(e) BY <1>2 DEF Unsettled, UnsettledStates, Settled, SettledStates
<1>4. resource[r].release \in Committed
      /\ (resource[r].release = "releasing" \/ Confirmed(r))
  BY RowMoves DEF Kept, Asked, Confirmed, Left, TakenFrom, Passed, Committed
<1>5. resource[r].ownership = "owned" /\ Settled(resource[r].owner)
  BY <1>4 DEF CInv, CommittedIsOwned
<1>6. attached[r] # 0 BY <1>4, OwnerIsDispatch DEF Committed
<1>7. attached'[r] = attached[r] /\ PaneOf(r)' = PaneOf(r) BY <1>6, AttachedStays
<1>8. CASE resource[r].release = "releasing"
  <2>1. ~SameAs(e, r) BY <1>2, <1>8 DEF CInv, NobodyElseInside
  <2>2. attached[e] = 0 BY <1>1, <1>7, <2>1, AttachedStays DEF SameAs
  <2>3. PICK x \in Terminals : AttachCreated(e, x) \/ AttachExisting(e, x)
    BY <1>1, <2>2, WorkerWas
  <2>4. /\ PaneOf(r) = x
        /\ AttachExisting(e, x) => attached[r] = pane[x].inc
    BY <1>1, <1>7, <2>3, AttachmentFacts
  <2>5. CASE AttachExisting(e, x)
    <3>1. SameProcess(r, x, pane[x].inc) BY <1>5, <2>4, <2>5 DEF SameProcess
    <3> QED BY <1>4, <2>5, <3>1 DEF AttachExisting, MayReuse
  <2>6. CASE AttachCreated(e, x)
    <3>1. pane[x].inc = 0 BY <2>6 DEF AttachCreated
    <3>2. attached[r] <= 0 BY <1>6, <2>4, <3>1 DEF GInv, AttachedExists
    <3>3. attached[r] \in Nat BY ProcessesAssumption DEF RInv, ResourceTypeOK, Incarnations
    <3> QED BY <1>6, <3>2, <3>3
  <2> QED BY <2>3, <2>5, <2>6
<1>9. CASE Confirmed(r)
  <2>1. attached' = attached /\ dispatch' = dispatch /\ ~Conflict(r)
    BY <1>9 DEF Confirmed, boardVars
  <2>2. SameAs(e, r) BY <1>1, <2>1 DEF SameAs, PaneOf
  <2>3. PICK q \in DispatchIds :
            resource[q].owner = e /\ resource[q].ownership \notin {"none", "released"}
    BY <1>2, <2>2 DEF CInv, WorkerHasTerminal, OwnedBy, SameAs
  <2>4. q # r BY <1>3, <1>5, <2>3
  <2>5. SameAs(e, q)
    <3>1. e # 0 BY DEF DispatchIds
    <3> QED BY <2>3, <3>1 DEF GInv, OwnersShare
  <2>6. SameProcess(q, PaneOf(r), attached[r]) BY <2>2, <2>3, <2>5 DEF SameProcess, SameAs
  <2> QED BY <2>1, <2>4, <2>6 DEF Conflict
<1> QED BY <1>4, <1>8, <1>9

LEMMA ExitingStep == ASSUME RInv, CInv, TerminalStep PROVE ExitingIsOver'
BY ProcessesAdvance DEF ExitingIsOver, CInv, Advances

LEMMA AssignedStep ==
    ASSUME IInv, RInv, GInv, CInv, TerminalStep
    PROVE  AssignedIsAttached'
<1> SUFFICES ASSUME NEW d \in DispatchIds, Unsettled(d)', PaneOf(d)' \in Terminals
             PROVE  attached'[d] # 0
  BY DEF AssignedIsAttached
<1>1. dispatch \in [DispatchIds -> DispatchRows] BY DEF IInv, TypeOK
<1>2. CASE attached[d] # 0 BY <1>2, AttachedStays
<1>3. CASE attached[d] = 0
  <2>1. ASSUME NEW t \in Tasks, NEW retryOf \in {0} \cup DispatchIds, StartWorker(d, t, retryOf)
        PROVE  FALSE
    <3> DEFINE row == [NoDispatch EXCEPT !.task = t, !.kind = "local", !.status = "pending"]
    <3>1. row.assignee = NoTerminal BY DEF NoDispatch
    <3>2. dispatch' = [dispatch EXCEPT ![d] = row]
      BY <2>1 DEF StartWorker, CreateStartingWorkerDispatch
    <3> HIDE DEF row
    <3>3. PaneOf(d)' = NoTerminal BY <1>1, <3>1, <3>2 DEF PaneOf
    <3> QED BY <3>3, NullAssumption
  <2>2. Unsettled(d) BY <2>1, UnsettledWas
  <2>3. Exists(d) BY <2>2 DEF IInv, RowsBelongToTasks, Unsettled, UnsettledStates
  <2>4. PaneOf(d) \notin Terminals BY <1>3, <2>2 DEF CInv, AssignedIsAttached
  <2>5. CASE \E x \in Terminals : AttachCreated(d, x) \/ AttachExisting(d, x)
    BY <2>5, AttachmentFacts
  <2>6. CASE BeginStop(d)
    <3>1. dispatch' = [dispatch EXCEPT ![d].capability = Revoked(@)]
      BY <2>6 DEF BeginStop, BeginWorkerStop
    <3>2. PaneOf(d)' = PaneOf(d) BY <1>1, <3>1 DEF PaneOf, DispatchRows
    <3> QED BY <2>4, <3>2
  <2>7. CASE RowStays(d) BY <2>3, <2>4, <2>7 DEF RowStays, PaneOf
  <2> QED BY <2>5, <2>6, <2>7, StepStays DEF TerminalStep
<1> QED BY <1>2, <1>3

-----------------------------------------------------------------------------
(* Stops.                                                                     *)

\* How a call of worker-stop moves.
LEMMA StopMoves ==
    ASSUME RInv, NEW d \in DispatchIds, TerminalStep
    PROVE  \/ stop'[d] = stop[d] /\ (d \in lost' => d \in lost)
           \/ stop'[d] = "idle"
           \/ BeginStop(d)
           \/ \E shown \in BOOLEAN : StopInspected(d, shown)
           \/ StopKills(d)
<1>1. stop \in [DispatchIds -> StopCalls] BY DEF RInv, ResourceTypeOK
<1> DEFINE Same == stop'[d] = stop[d] /\ (d \in lost' => d \in lost)
<1>2. UNCHANGED stop /\ lost' \subseteq lost => Same OBVIOUS
<1>3. ASSUME NEW e \in DispatchIds, e # d, NEW pc, stop' = [stop EXCEPT ![e] = pc], lost' \subseteq lost
      PROVE  Same
  BY <1>1, <1>3
<1>4. CASE EndStep
  <2>1. ASSUME NEW e \in DispatchIds, e # d,
               \/ BeginStop(e) \/ StopKills(e)
               \/ \E shown \in BOOLEAN : StopInspected(e, shown)
               \/ \E killed \in BOOLEAN : StopCloses(e, killed)
        PROVE  Same
    <3>1. \E pc : stop' = [stop EXCEPT ![e] = pc]
      BY <2>1 DEF BeginStop, StopKills, StopInspected, StopCloses, StopAt
    <3>2. lost' \subseteq lost BY <2>1 DEF BeginStop, StopKills, StopInspected, StopCloses
    <3> QED BY <1>3, <2>1, <3>1, <3>2
  <2>2. ASSUME NEW killed \in BOOLEAN, StopCloses(d, killed) PROVE stop'[d] = "idle"
    BY <1>1, <2>2 DEF StopCloses, StopAt
  <2> HIDE DEF Same
  <2>3. \/ Same \/ stop'[d] = "idle" \/ BeginStop(d) \/ StopKills(d)
        \/ \E shown \in BOOLEAN : StopInspected(d, shown)
    BY <1>4, <2>1, <2>2 DEF EndStep
  <2> QED BY <2>3 DEF Same
<1>5. CASE Restart BY <1>5 DEF Restart
<1>6. CASE ProcessStep /\ ~Restart
  BY <1>2, <1>6
     DEF ProcessStep, Open, Exit, ExitReported, Disconnect, Reconnect, UserInput, callVars
<1>7. CASE WorkerStep
  BY <1>2, <1>7
     DEF WorkerStep, Create, DispatchTo, EndContextOnly, StartWorker, AttachCreated, AttachExisting,
         FinishStart, ShowAfterRestart, Report, Abandon, RecoverMissing, terminalVars, callVars
<1>8. CASE ReleaseStep \/ RecoverNext
  BY <1>2, <1>8
     DEF ReleaseStep, RequestRelease, Retain, SettleDead, Inspected, Captured, ReleaseKills,
         ReleaseCloses, RecoverNext, callVars
<1>9. CASE UNCHANGED <<boardVars, terminalVars>> BY <1>2, <1>9 DEF terminalVars
<1> QED BY <1>4, <1>5, <1>6, <1>7, <1>8, <1>9 DEF TerminalStep, TerminalNext

\* A worker that stops stays so until its exit is reported, its process is found missing
\* or its own stop or a show after a restart ends it.
LEMMA StoppingStays ==
    ASSUME IInv, NEW d \in DispatchIds, TerminalStep, worker[d] = "stopping"
    PROVE  \/ worker'[d] = "stopping"
           \/ \E x \in Terminals : pane[x].exiting /\ d \in Occupied(x)
           \/ RecoverMissing(d)
           \/ ShowAfterRestart(d)
           \/ \E shown \in BOOLEAN : StopInspected(d, shown) /\ stop' = StopAt(d, "idle")
           \/ \E killed \in BOOLEAN : StopCloses(d, killed)
<1>1. DOMAIN worker = DispatchIds BY DEF IInv, TypeOK
<1>2. UNCHANGED worker => worker'[d] = "stopping" OBVIOUS
<1>3. ASSUME NEW e \in DispatchIds, e # d, NEW state, worker' = [worker EXCEPT ![e] = state]
      PROVE  worker'[d] = "stopping"
  BY <1>1, <1>3
<1>4. CASE ProcessStep
  <2>1. ASSUME NEW x \in Terminals, ExitReported(x)
        PROVE  worker'[d] = "stopping" \/ (pane[x].exiting /\ d \in Occupied(x))
    <3>1. CASE UNCHANGED boardVars BY <1>2, <3>1 DEF boardVars
    <3>2. ASSUME NEW e \in Occupied(x), e # d, FailDispatch(e, TRUE, "other")
          PROVE  worker'[d] = "stopping"
      <4>1. e \in DispatchIds BY DEF Occupied
      <4> QED BY <1>2, <1>3, <3>2, <4>1 DEF FailDispatch, WorkerAfterFailure
    <3> QED BY <2>1, <3>1, <3>2 DEF ExitReported
  <2> QED BY <1>2, <1>4, <2>1
        DEF ProcessStep, Open, Exit, Disconnect, Reconnect, UserInput, Restart, boardVars
<1>5. CASE WorkerStep
  <2>1. ASSUME \/ \E t \in Tasks : Create(t)
               \/ \E e \in DispatchIds, t \in Tasks, x \in Terminals : DispatchTo(e, t, x)
               \/ \E e \in DispatchIds, x \in Terminals : AttachCreated(e, x) \/ AttachExisting(e, x)
               \/ \E e \in DispatchIds : EndContextOnly(e)
        PROVE  worker'[d] = "stopping"
    BY <1>2, <2>1 DEF Create, CreateTask, DispatchTo, CreateDispatchContext, AttachCreated,
                      AttachExisting, Attaches, PrepareStartingWorkerAuthority, EndContextOnly,
                      ReleaseContextOnlyDispatch, FailDispatch, WorkerAfterFailure
  <2>2. ASSUME NEW e \in DispatchIds, NEW t \in Tasks, NEW retryOf \in {0} \cup DispatchIds,
               StartWorker(e, t, retryOf)
        PROVE  worker'[d] = "stopping"
    <3>1. ~Exists(e) BY <2>2, ClaimsStay DEF StartWorker
    <3>2. e # d BY <3>1 DEF IInv, RowsBelongToTasks
    <3> QED BY <1>3, <2>2, <3>2 DEF StartWorker, CreateStartingWorkerDispatch
  <2>3. ASSUME NEW e \in DispatchIds, FinishStart(e) \/ Abandon(e) PROVE worker'[d] = "stopping"
    <3>1. worker[e] # "stopping"
      BY <2>3 DEF FinishStart, Abandon, MarkWorkerDispatchReady, Starting, FailWorkerStart,
                  MarkWorkerStartUnknown, AbandonWorkerDispatch
    <3>2. \E state : worker' = [worker EXCEPT ![e] = state]
      BY <2>3 DEF FinishStart, Abandon, MarkWorkerDispatchReady, FailWorkerStart,
                  MarkWorkerStartUnknown, AbandonWorkerDispatch
    <3> QED BY <1>3, <3>1, <3>2
  <2>4. ASSUME NEW e \in DispatchIds, e # d, ShowAfterRestart(e) \/ RecoverMissing(e)
        PROVE  worker'[d] = "stopping"
    <3>1. \E state : worker' = [worker EXCEPT ![e] = state]
      BY <2>4 DEF ShowAfterRestart, RecoverMissing, MarkWorkerStartUnknown, MarkWorkerStopUnknown,
                  ReconcileMissingWorkerTerminal
    <3> QED BY <1>3, <2>4, <3>1
  <2>5. ASSUME NEW e \in DispatchIds, NEW outcome \in {"succeeded", "failed"}, Report(e, outcome)
        PROVE  worker'[d] = "stopping"
    <3>1. \/ worker' = worker
          \/ worker[e] \in {"failed", "ready"} /\ worker' = [worker EXCEPT ![e] = outcome]
      BY <2>5 DEF Report, SettleWorkerReport
    <3>2. CASE worker[e] \in {"failed", "ready"} /\ worker' = [worker EXCEPT ![e] = outcome]
      <4>1. e # d BY <3>2
      <4> QED BY <1>3, <3>2, <4>1
    <3> QED BY <1>2, <3>1, <3>2
  <2> QED BY <1>5, <2>1, <2>2, <2>3, <2>4, <2>5 DEF WorkerStep
<1>6. CASE EndStep
  <2>1. ASSUME NEW e \in DispatchIds, e # d,
               \/ BeginWorkerStop(e) \/ MarkWorkerStopUnknown(e) \/ SettleWorkerStop(e)
        PROVE  worker'[d] = "stopping"
    <3>1. \E state : worker' = [worker EXCEPT ![e] = state]
      BY <2>1 DEF BeginWorkerStop, MarkWorkerStopUnknown, SettleWorkerStop, Stopped
    <3> QED BY <1>3, <2>1, <3>1
  <2>2. ASSUME NEW e \in DispatchIds, e # d,
               \/ BeginStop(e) \/ StopKills(e)
               \/ \E shown \in BOOLEAN : StopInspected(e, shown)
               \/ \E killed \in BOOLEAN : StopCloses(e, killed)
        PROVE  worker'[d] = "stopping"
    BY <1>2, <2>1, <2>2
       DEF BeginStop, StopKills, StopInspected, StopCloses, StopUnanswered, boardVars
  <2>3. BeginStop(d) \/ StopKills(d) => worker'[d] = "stopping"
    BY <1>2 DEF BeginStop, BeginWorkerStop, StopKills, boardVars
  <2>4. ASSUME NEW shown \in BOOLEAN, StopInspected(d, shown)
        PROVE  worker'[d] = "stopping" \/ stop' = StopAt(d, "idle")
    BY <1>2, <2>4 DEF StopInspected, boardVars
  <2> QED BY <1>6, <2>2, <2>3, <2>4 DEF EndStep
<1>7. CASE ReleaseStep \/ RecoverNext BY <1>2, <1>7, ReleaseStepOnBoard DEF vars
<1>8. CASE UNCHANGED <<boardVars, terminalVars>> BY <1>2, <1>8 DEF boardVars
<1> QED BY <1>4, <1>5, <1>6, <1>7, <1>8 DEF TerminalStep, TerminalNext

LEMMA StopHoldsStep ==
    ASSUME IInv, RInv, GInv, CInv, TerminalStep
    PROVE  StopHoldsWorker'
<1> SUFFICES ASSUME NEW d \in DispatchIds, stop'[d] # "idle"
             PROVE  /\ d \notin lost'
                    /\ worker'[d] = "stopping" \/ (attached'[d] # 0 /\ ~Runs(d)')
  BY DEF StopHoldsWorker
<1>1. DOMAIN worker = DispatchIds /\ DOMAIN stop = DispatchIds
  BY DEF IInv, TypeOK, RInv, ResourceTypeOK
<1>2. CASE BeginStop(d) BY <1>1, <1>2 DEF BeginStop, BeginWorkerStop
<1>3. CASE stop[d] # "idle"
  <2>1. d \notin lost /\ (worker[d] = "stopping" \/ (attached[d] # 0 /\ ~Runs(d)))
    BY <1>3 DEF CInv, StopHoldsWorker
  <2>2. d \notin lost'
    BY <1>2, <2>1, StopMoves DEF StopInspected, StopKills, BeginStop
  <2>3. CASE attached[d] # 0 /\ ~Runs(d) BY <2>2, <2>3, GoneStays, AttachedStays
  <2>4. CASE worker[d] = "stopping"
    <3>1. ASSUME NEW x \in Terminals, pane[x].exiting, d \in Occupied(x)
          PROVE  attached[d] # 0 /\ ~Runs(d)
      <4>1. PaneOf(d) = x BY <3>1 DEF Occupied, PaneOf
      <4>2. attached[d] # 0
        BY <2>4, <4>1 DEF CInv, AssignedIsAttached, Unsettled, UnsettledStates
      <4> QED BY <3>1, <4>1, <4>2 DEF CInv, ExitingIsOver, Runs
    <3>2. RecoverMissing(d) => attached[d] # 0 /\ ~Runs(d) BY DEF RecoverMissing
    <3>3. ~ShowAfterRestart(d) BY <2>1 DEF ShowAfterRestart
    <3>4. stop' # StopAt(d, "idle") BY <1>1 DEF StopAt
    <3>5. \A killed \in BOOLEAN : ~StopCloses(d, killed) BY <3>4 DEF StopCloses
    <3> QED BY <2>2, <2>3, <2>4, <3>1, <3>2, <3>3, <3>4, <3>5, StoppingStays
  <2> QED BY <2>1, <2>3, <2>4
<1> QED BY <1>2, <1>3, StopMoves DEF StopInspected, StopKills

LEMMA StopOwnsStep ==
    ASSUME IInv, RInv, GInv, CInv, TerminalStep
    PROVE  StopOwnsTerminal'
<1> SUFFICES ASSUME NEW d \in DispatchIds, stop'[d] = "closing", worker'[d] = "stopping"
             PROVE  \E q \in DispatchIds : resource'[q].owner = d /\ resource'[q].ownership = "owned"
  BY DEF StopOwnsTerminal, OwnedBy
<1>1. DOMAIN stop = DispatchIds BY DEF RInv, ResourceTypeOK
<1>2. ~BeginStop(d) /\ ~StopKills(d) BY <1>1 DEF BeginStop, StopKills, StopAt
<1>3. CASE \E shown \in BOOLEAN : StopInspected(d, shown)
  <2>1. resource' = resource /\ stop' # StopAt(d, "idle")
    BY <1>1, <1>3 DEF StopInspected, StopAt, rowVars
  <2> QED BY <1>3, <2>1 DEF StopInspected, OwnedBy
<1>4. CASE stop'[d] = stop[d]
  <2>1. worker[d] = "stopping"
    BY <1>2, StepStays
       DEF TerminalStep, RowStays, AttachCreated, AttachExisting, Attaches,
           PrepareStartingWorkerAuthority
  <2>2. PICK q \in DispatchIds : resource[q].owner = d /\ resource[q].ownership = "owned"
    BY <1>4, <2>1 DEF CInv, StopOwnsTerminal, OwnedBy
  <2>3. ~Settled(d) BY <2>1 DEF Settled, SettledStates
  <2>4. resource[q].release \notin Committed BY <2>2, <2>3 DEF CInv, CommittedIsOwned
  <2>5. attached[q] # 0
    <3>1. d # 0 BY DEF DispatchIds
    <3> QED BY <2>2, <3>1, RowFacts
  <2>6. ~Passed(q) /\ ~Left(q) BY <2>1, <2>2, <2>3, <2>4, <2>5 DEF Passed, Left, TakenFrom
  <2> QED BY <2>2, <2>6, RowMoves DEF Kept, Asked, Confirmed, Held
<1> QED BY <1>2, <1>3, <1>4, StopMoves

LEMMA InitCInv == TerminalInit => CInv
<1> SUFFICES ASSUME TerminalInit PROVE CInv OBVIOUS
<1>1. /\ attached = [d \in DispatchIds |-> 0]
      /\ resource = [d \in DispatchIds |-> NoResource]
      /\ worker = [d \in DispatchIds |-> "none"]
      /\ stop = [d \in DispatchIds |-> "idle"]
      /\ pane = [x \in Terminals |-> NoPane]
  BY DEF TerminalInit, Init
<1> QED BY <1>1
    DEF CInv, CommittedIsOwned, WorkerHasTerminal, NobodyElseInside, StopHoldsWorker,
        StopOwnsTerminal, AssignedIsAttached, ExitingIsOver, NoResource, NoPane, Committed,
        Unsettled, UnsettledStates

LEMMA NextCInv == IInv /\ RInv /\ GInv /\ CInv /\ TerminalStep => CInv'
<1> SUFFICES ASSUME IInv, RInv, GInv, CInv, TerminalStep PROVE CInv' OBVIOUS
<1> QED BY CommittedStep, WorkerHasStep, NobodyInsideStep, StopHoldsStep, StopOwnsStep,
           AssignedStep, ExitingStep DEF CInv

-----------------------------------------------------------------------------
(* Who tells a process to close.                                              *)

LEMMA OnlyReleaseKills ==
    ASSUME RInv, NEW r \in DispatchIds, TerminalStep,
           release[r].pc = "closing", release'[r].pc = "closed"
    PROVE  ReleaseKills(r)
<1>1. release \in [DispatchIds -> ReleaseCalls] BY DEF RInv, ResourceTypeOK
<1>2. ASSUME NEW q, NEW pc, release' = At(q, pc), pc # "closed" PROVE FALSE
  BY <1>1, <1>2 DEF At, ReleaseCalls
<1>3. \A q : release' # Over(q) BY <1>1 DEF Over, Idle
<1>4. ASSUME NEW q, NEW d, NEW b, release' = Joined(q, d, b) PROVE FALSE
  <2> DEFINE call == [pc |-> "inspecting", by |-> d, recovering |-> b]
  <2>1. release' = release \/ release' = [release EXCEPT ![q] = call] BY <1>4 DEF Joined
  <2>2. release'[r].pc \in {release[r].pc, call.pc} BY <1>1, <2>1
  <2> QED BY <2>2
<1>5. release' # release OBVIOUS
<1>6. CASE ReleaseStep
  <2>1. ASSUME NEW q \in DispatchIds, ReleaseKills(q) PROVE q = r
    BY <1>1, <2>1 DEF ReleaseKills, At
  <2>2. ASSUME NEW q \in DispatchIds, NEW archived, Commit(q, archived) PROVE FALSE
    BY <1>2, <1>3, <2>2 DEF Commit
  <2>3. ASSUME NEW q \in DispatchIds,
               \/ \E shown \in BOOLEAN : Inspected(q, shown)
               \/ \E captured \in BOOLEAN : Captured(q, captured)
        PROVE  FALSE
    BY <1>2, <1>3, <2>2, <2>3 DEF Inspected, Captured
  <2> QED BY <1>3, <1>4, <1>5, <1>6, <2>1, <2>3
        DEF ReleaseStep, RequestRelease, Retain, SettleDead, ReleaseCloses, callVars
<1>7. CASE RecoverNext
  <2>1. \A p : release' # Joined(p[1], p[2], TRUE) BY <1>4
  <2> QED BY <1>5, <1>7, <2>1 DEF RecoverNext
<1>8. CASE Restart BY <1>8 DEF Restart, Idle
<1>9. CASE ProcessStep /\ ~Restart
  BY <1>5, <1>9
     DEF ProcessStep, Open, Exit, ExitReported, Disconnect, Reconnect, UserInput, callVars
<1>10. CASE WorkerStep
  BY <1>5, <1>10
     DEF WorkerStep, Create, DispatchTo, EndContextOnly, StartWorker, AttachCreated, AttachExisting,
         FinishStart, ShowAfterRestart, Report, Abandon, RecoverMissing, terminalVars, callVars
<1>11. CASE EndStep
  BY <1>5, <1>11 DEF EndStep, BeginStop, StopInspected, StopKills, StopCloses
<1>12. CASE UNCHANGED <<boardVars, terminalVars>> BY <1>5, <1>12 DEF terminalVars
<1> QED BY <1>6, <1>7, <1>8, <1>9, <1>10, <1>11, <1>12 DEF TerminalStep, TerminalNext

LEMMA OnlyStopKills ==
    ASSUME RInv, NEW d \in DispatchIds, TerminalStep, stop[d] = "closing", stop'[d] = "closed"
    PROVE  StopKills(d)
<1>1. DOMAIN stop = DispatchIds BY DEF RInv, ResourceTypeOK
<1> QED BY <1>1, StopMoves DEF BeginStop, StopInspected, StopAt

LEMMA ReleaseClosesItsOwn ==
    ASSUME RInv, GInv, CInv, NEW r \in DispatchIds, ReleaseKills(r)
    PROVE  /\ resource[r].ownership = "owned"
           /\ Settled(resource[r].owner)
           /\ Runs(resource[r].owner)
           /\ \A e \in DispatchIds : Supervised(e) => PaneOf(e) # PaneOf(r)
<1>1. release[r].pc = "closing" /\ Runs(release[r].by) BY DEF ReleaseKills, Kills
<1>2. SameAs(release[r].by, r) BY <1>1 DEF GInv, CallsShare
<1>3. Runs(r) BY <1>1, <1>2 DEF SameAs, Runs, IsCurrent
<1>4. resource[r].release = "releasing"
  BY <1>1 DEF RInv, ReleasesHold, ClosingIsReleasing
<1>5. resource[r].ownership = "owned" /\ Settled(resource[r].owner)
  BY <1>4 DEF CInv, CommittedIsOwned, Committed
<1>6. resource[r].owner # 0 BY <1>4, OwnerIsDispatch DEF DispatchIds
<1>7. SameAs(resource[r].owner, r) BY <1>6 DEF GInv, OwnersShare
<1>8. Runs(resource[r].owner) BY <1>3, <1>7 DEF SameAs, Runs, IsCurrent
<1>9. ASSUME NEW e \in DispatchIds, Supervised(e), PaneOf(e) = PaneOf(r) PROVE FALSE
  <2>1. SameAs(e, r) BY <1>3, <1>9 DEF Supervised, Runs, IsCurrent, SameAs
  <2> QED BY <1>4, <1>9, <2>1 DEF CInv, NobodyElseInside, Supervised
<1> QED BY <1>5, <1>8, <1>9

LEMMA StopClosesItsOwn ==
    ASSUME IInv, BInv, GInv, CInv, NEW d \in DispatchIds, StopKills(d)
    PROVE  /\ worker[d] = "stopping"
           /\ \E q \in OwnedBy(d) : resource[q].ownership = "owned"
           /\ \A e \in DispatchIds \ {d} : Supervised(e) => PaneOf(e) # PaneOf(d)
<1>1. stop[d] = "closing" /\ Runs(d) BY DEF StopKills, Kills
<1>2. worker[d] = "stopping" BY <1>1 DEF CInv, StopHoldsWorker
<1>3. \E q \in OwnedBy(d) : resource[q].ownership = "owned"
  BY <1>1, <1>2 DEF CInv, StopOwnsTerminal
<1>4. ASSUME NEW e \in DispatchIds \ {d}, Supervised(e), PaneOf(e) = PaneOf(d) PROVE FALSE
  <2>1. PaneOf(d) \in Terminals BY <1>1 DEF Runs, IsCurrent, GInv, AttachedExists
  <2>2. Active(d) /\ Active(e)
    BY <1>2, <1>4 DEF BInv, WorkerSettlesWithDispatch, Supervised, Unsettled, UnsettledStates
  <2>3. d \in Occupied(PaneOf(d)) /\ e \in Occupied(PaneOf(d))
    BY <1>4, <2>2 DEF Occupied, PaneOf
  <2> QED BY <1>4, <2>1, <2>3 DEF IInv, OneActiveDispatchPerTerminal
<1> QED BY <1>2, <1>3, <1>4

LEMMA ClosesInductive == TerminalSpec => [](IInv /\ BInv /\ RInv /\ GInv /\ CInv)
<1>1. TerminalInit => BInv BY InitBoard DEF TerminalInit
<1> QED BY <1>1, BoardBeneath, InitCInv, NextCInv, SharingInductive, ResourcesInductive,
           TerminalsKeepTheBoard, Inductive, PTL DEF TerminalSpec, TerminalStep

\* Whatever transfers, reused panes, takeovers, restarts, exits and lost connections come
\* between what a release or a stop read and the moment it closes the process: the process
\* is its own settled (or stopping) worker's, owned by orchestration, and no other
\* supervised worker runs in it.
THEOREM ClosesItsOwn == TerminalSpec => ClosesOnlyItsOwnWorker
<1> DEFINE Closes ==
        \A r \in DispatchIds :
            /\ release[r].pc = "closing" /\ release'[r].pc = "closed" =>
                  /\ resource[r].ownership = "owned"
                  /\ Settled(resource[r].owner)
                  /\ Runs(resource[r].owner)
                  /\ \A e \in DispatchIds : Supervised(e) => PaneOf(e) # PaneOf(r)
            /\ stop[r] = "closing" /\ stop'[r] = "closed" =>
                  /\ worker[r] = "stopping"
                  /\ \E q \in OwnedBy(r) : resource[q].ownership = "owned"
                  /\ \A e \in DispatchIds \ {r} : Supervised(e) => PaneOf(e) # PaneOf(r)
<1>1. IInv /\ BInv /\ RInv /\ GInv /\ CInv /\ TerminalStep => Closes
  BY OnlyReleaseKills, OnlyStopKills, ReleaseClosesItsOwn, StopClosesItsOwn
<1>2. IInv /\ BInv /\ RInv /\ GInv /\ CInv /\ [TerminalNext]_<<boardVars, terminalVars>>
          => [Closes]_<<boardVars, terminalVars>>
  BY <1>1 DEF TerminalStep
<1>3. TerminalSpec => [][Closes]_<<boardVars, terminalVars>>
  BY <1>2, ClosesInductive, PTL DEF TerminalSpec
<1> QED BY <1>3 DEF ClosesOnlyItsOwnWorker

=============================================================================
