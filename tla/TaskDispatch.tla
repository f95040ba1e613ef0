----------------------------- MODULE TaskDispatch -----------------------------
(***************************************************************************)
(* The task board of the orchestration database: tasks, the dispatches that *)
(* hand a task to a terminal, the supervised workers behind dispatches, the *)
(* decision gates that suspend a task, and the outbox row a settled report  *)
(* leaves behind.                                                           *)
(*                                                                          *)
(* The database is synchronous SQLite in one process and every method below *)
(* runs in one transaction or savepoint, so one method is one action.  What *)
(* interleaves is the order of the calls: coordinators, operators, workers, *)
(* terminal exits, federated peers and restarts each call when they please. *)
(*                                                                          *)
(* DispatchIds are rowids: a dispatch is newer than another exactly when    *)
(* its id is larger.                                                        *)
(***************************************************************************)
EXTENDS Integers, FiniteSets

CONSTANTS
    Tasks,              \* the tasks that may be created
    Deps,               \* Deps[t]: the tasks t depends on
    Terminals,          \* agent terminals (handle and pane as one identity)
    MaxDispatches,      \* bound: rows of dispatch_contexts
    MaxGates,           \* bound: rows of decision_gates
    OperatorStatuses,   \* the statuses callers of task-update ask for
    BreakAfter,         \* DISPATCH_CIRCUIT_BREAK_FAILURES
    NoTask, NoTerminal

ASSUME DepsAssumption == Deps \in [Tasks -> SUBSET Tasks]
ASSUME BoundsAssumption == MaxDispatches \in Nat /\ MaxGates \in Nat /\ BreakAfter \in Nat
ASSUME NullAssumption == NoTask \notin Tasks /\ NoTerminal \notin Terminals
ASSUME OperatorAssumption ==
    OperatorStatuses \subseteq
        {"pending", "ready", "dispatched", "completed", "failed", "blocked"}

VARIABLES
    task,       \* tasks.status
    dispatch,   \* dispatch_contexts
    worker,     \* worker_dispatches.state, "none" for a context-only dispatch
    gate,       \* decision_gates
    outbox      \* ledger_outbox: the outcome under key step_outcome:<dispatch>

vars == <<task, dispatch, worker, gate, outbox>>

-----------------------------------------------------------------------------
DispatchIds == 1..MaxDispatches
GateIds == 1..MaxGates

TaskStatuses == {"pending", "ready", "dispatched", "completed", "failed", "blocked"}
ActiveStatuses == {"pending", "dispatched"}
DispatchStatuses == ActiveStatuses \cup {"completed", "failed", "circuit_broken"}
SettledStates == {"failed", "succeeded", "stopped", "abandoned"}
UnsettledStates == {"starting", "ready", "start_unknown", "stopping", "stop_unknown"}
Kinds == {"context", "local", "federated"}

NoDispatch == [task |-> NoTask, kind |-> "none", status |-> "absent", failures |-> 0,
               lastFailure |-> "none", assignee |-> NoTerminal, capability |-> "none"]
NoGate == [task |-> NoTask, status |-> "absent"]

DispatchRows ==
    [task : Tasks \cup {NoTask}, kind : Kinds \cup {"none"},
     status : DispatchStatuses \cup {"absent"}, failures : Nat,
     lastFailure : {"none", "stalled", "other"},
     assignee : Terminals \cup {NoTerminal}, capability : {"none", "live", "revoked"}]

GateRows == [task : Tasks \cup {NoTask}, status : {"absent", "pending", "resolved"}]

TypeOK ==
    /\ task \in [Tasks -> TaskStatuses \cup {"absent"}]
    /\ dispatch \in [DispatchIds -> DispatchRows]
    /\ worker \in [DispatchIds -> SettledStates \cup UnsettledStates \cup {"none"}]
    /\ gate \in [GateIds -> GateRows]
    /\ outbox \in [DispatchIds -> {"none", "succeeded", "failed"}]

Init ==
    /\ task = [t \in Tasks |-> "absent"]
    /\ dispatch = [d \in DispatchIds |-> NoDispatch]
    /\ worker = [d \in DispatchIds |-> "none"]
    /\ gate = [g \in GateIds |-> NoGate]
    /\ outbox = [d \in DispatchIds |-> "none"]

-----------------------------------------------------------------------------
(* Queries the methods share. *)

Exists(d) == dispatch[d].status # "absent"
Active(d) == dispatch[d].status \in ActiveStatuses
ActiveOf(t) == {d \in DispatchIds : dispatch[d].task = t /\ Active(d)}
Unsettled(d) == worker[d] \in UnsettledStates
ActiveWorkers(t) == {d \in ActiveOf(t) : Unsettled(d)}

\* getDispatchContext: the row of the task with the largest rowid.
Latest(t, d) ==
    /\ dispatch[d].task = t
    /\ \A e \in DispatchIds : e > d => dispatch[e].task # t

\* findActiveDispatchForAssignee.
Occupied(term) == {d \in DispatchIds : dispatch[d].assignee = term /\ Active(d)}

\* The next rowid of dispatch_contexts and of decision_gates.
FreshDispatch(d) == \A e \in DispatchIds : Exists(e) <=> e < d
FreshGate(g) == \A h \in GateIds : gate[h].status # "absent" <=> h < g

\* What SELECT MAX(failure_count) ranges over for a task, with 0 for no row at all.
FailureCounts(t) == {0} \cup {dispatch[d].failures : d \in {e \in DispatchIds : dispatch[e].task = t}}

-----------------------------------------------------------------------------
(* Row updates the methods share.  An operator named in PROJECT.json as a      *)
(* mutation stands before the definition it breaks; no other definition uses *)
(* it.                                                                       *)

\* capability_revoked_at = COALESCE(capability_revoked_at, now); without a hash
\* there is nothing to revoke.
Revoked(c) == IF c = "live" THEN "revoked" ELSE c

\* An active row leaves the active statuses; a failure records its cause.
ClosedKeepingCapability(row, status, cause) ==
    [row EXCEPT !.status = status, !.lastFailure = IF status = "completed" THEN @ ELSE cause]
ClosedKeepingCause(row, status, cause) ==
    [row EXCEPT !.status = status, !.capability = Revoked(@)]

Closed(row, status, cause) ==
    [row EXCEPT !.status = status,
                !.lastFailure = IF status = "completed" THEN @ ELSE cause,
                !.capability = Revoked(@)]

\* One more failure; the third breaks the circuit.
Failed(row, cause) ==
    [Closed(row, IF row.failures + 1 >= BreakAfter THEN "circuit_broken" ELSE "failed", cause)
        EXCEPT !.failures = @ + 1]

\* settleActiveDispatchesForTask over the rows of rows.
SettleActive(rows, t, status) ==
    [d \in DispatchIds |->
        IF rows[d].task = t /\ rows[d].status \in ActiveStatuses
        THEN Closed(rows[d], status, "other") ELSE rows[d]]

\* promoteReadyTasks: pending dependents of t whose dependencies are all completed.
Promote(status, t) ==
    [u \in Tasks |->
        IF status[u] = "pending" /\ t \in Deps[u] /\ \A v \in Deps[u] : status[v] = "completed"
        THEN "ready" ELSE status[u]]

MovedWithoutPromotion(t, status) == [task EXCEPT ![t] = status]
MovedToOutcome(t, status) ==
    [task EXCEPT ![t] = IF status = "completed" THEN "succeeded" ELSE status]

\* The board after task t moves to status, promotion included.
Moved(t, status) ==
    LET moved == [task EXCEPT ![t] = status]
    IN  IF status = "completed" THEN Promote(moved, t) ELSE moved

AfterAnyInterruption(d) ==
    IF ActiveOf(dispatch[d].task) \ {d} # {} THEN "dispatched" ELSE "blocked"

\* reconcileTaskAfterDispatchInterruption for the interrupted dispatch d.
AfterInterruption(d) ==
    LET t == dispatch[d].task
    IN  IF task[t] \notin {"dispatched", "blocked"} THEN task[t]
        ELSE IF ActiveOf(t) \ {d} # {} THEN "dispatched" ELSE "blocked"

-----------------------------------------------------------------------------
(* Tasks. *)

InitialStatusUnlessWaiting(t) ==
    IF \E u \in Deps[t] : task[u] = "pending" THEN "pending" ELSE "ready"
InitialStatus(t) ==
    IF \A u \in Deps[t] : task[u] = "completed" THEN "ready" ELSE "pending"

CreateTask(t) ==
    /\ task[t] = "absent"
    /\ \A u \in Deps[t] : task[u] # "absent"
    /\ task' = [task EXCEPT ![t] = InitialStatus(t)]
    /\ UNCHANGED <<dispatch, worker, gate, outbox>>

MayMoveUnderDispatch(t, status) ==
    /\ status = "dispatched" => ActiveOf(t) # {}
    /\ status \in {"completed", "failed"} => ActiveWorkers(t) = {}
MayMoveUnsupervised(t, status) ==
    /\ status = "dispatched" => ActiveOf(t) # {}
    /\ status \in {"pending", "ready", "blocked"} => ActiveOf(t) = {}

\* The WHERE clause of updateTaskStatus.
MayMove(t, status) ==
    /\ status = "dispatched" => ActiveOf(t) # {}
    /\ status \in {"pending", "ready", "blocked"} => ActiveOf(t) = {}
    /\ status \in {"completed", "failed"} => ActiveWorkers(t) = {}

\* updateTaskStatus without its operator: gates call it too.
MoveTask(t, status) ==
    /\ task[t] # "absent"
    /\ MayMove(t, status)
    /\ task' = Moved(t, status)
    /\ dispatch' = IF status \in {"completed", "failed"}
                   THEN SettleActive(dispatch, t, status) ELSE dispatch

UpdateTaskStatus(t, status) ==
    /\ status \in OperatorStatuses
    /\ MoveTask(t, status)
    /\ UNCHANGED <<worker, gate, outbox>>

-----------------------------------------------------------------------------
(* Context-only dispatches: an existing terminal is handed the task. *)

MayClaimForTerminal(t, term) == task[t] \in {"ready", "dispatched"} /\ Occupied(term) = {}
MayClaim(t, term) == task[t] = "ready" /\ Occupied(term) = {}

CreateDispatchContext(d, t, term) ==
    /\ FreshDispatch(d)
    /\ MayClaim(t, term)
    /\ \E prior \in FailureCounts(t) :
           /\ \A n \in FailureCounts(t) : n <= prior
           /\ dispatch' = [dispatch EXCEPT ![d] =
                  [NoDispatch EXCEPT !.task = t, !.kind = "context", !.status = "dispatched",
                                     !.failures = prior, !.assignee = term]]
    /\ task' = [task EXCEPT ![t] = "dispatched"]
    /\ UNCHANGED <<worker, gate, outbox>>

\* The dispatch RPC mints right after the claim, when it injects the preamble.
MintDispatchCapability(d) ==
    /\ dispatch[d].kind = "context"
    /\ Active(d)
    /\ dispatch' = [dispatch EXCEPT ![d].capability = "live"]
    /\ UNCHANGED <<task, worker, gate, outbox>>

\* A worker whose process exited is failed with its dispatch.
WorkerUntouched(d, exited) == worker
WorkerAfterFailure(d, exited) ==
    IF exited /\ Unsettled(d) THEN [worker EXCEPT ![d] = "failed"] ELSE worker

\* failDispatch.  exited: a terminal exit found the row by its terminal and says
\* the process is gone; otherwise a coordinator, an escalation or a prompt that
\* could not be sent fails the row, which a supervised worker prevents.
FailDispatch(d, exited, cause) ==
    LET t == dispatch[d].task
        row == Failed(dispatch[d], cause)
    IN  /\ Active(d)
        /\ exited => dispatch[d].assignee # NoTerminal /\ cause = "other"
        /\ exited \/ ~Unsettled(d)
        /\ dispatch' = [dispatch EXCEPT ![d] = row]
        /\ worker' = WorkerAfterFailure(d, exited)
        /\ task' = IF task[t] = "dispatched" /\ ActiveOf(t) \ {d} = {}
                   THEN [task EXCEPT ![t] =
                            IF row.status = "circuit_broken" THEN "failed" ELSE "ready"]
                   ELSE task
        /\ UNCHANGED <<gate, outbox>>

ReleaseDispatchOnly(d) ==
    /\ Active(d)
    /\ worker[d] = "none"
    /\ dispatch' = [dispatch EXCEPT ![d] = Closed(@, "failed", "other")]
    /\ UNCHANGED <<task, worker, gate, outbox>>

\* releaseContextOnlyDispatch, the context-only branch of worker-stop and abandon.
ReleaseContextOnlyDispatch(d) ==
    LET t == dispatch[d].task
    IN  /\ Active(d)
        /\ worker[d] = "none"
        /\ dispatch' = [dispatch EXCEPT ![d] = Closed(@, "failed", "other")]
        /\ task' = IF ActiveOf(t) = {d} /\ task[t] = "dispatched"
                   THEN [task EXCEPT ![t] = "blocked"] ELSE task
        /\ UNCHANGED <<worker, gate, outbox>>

-----------------------------------------------------------------------------
(* Starting a supervised worker. *)

MayStartFromAnyAttempt(t, retryOf) ==
    IF retryOf = 0 THEN task[t] = "ready"
    ELSE Latest(t, retryOf) /\ task[t] \in {"failed", "blocked"}

\* retryOf = 0 is a plain start; a retry names the task's newest, ended attempt.
MayStart(t, retryOf) ==
    IF retryOf = 0 THEN task[t] = "ready"
    ELSE /\ Latest(t, retryOf)
         /\ worker[retryOf] \in {"failed", "stopped", "abandoned"}
         /\ task[t] \in {"failed", "blocked"}

\* failure_count takes the column default, 0.
CreateStartingWorkerDispatch(d, t, kind, retryOf) ==
    /\ FreshDispatch(d)
    /\ kind \in {"local", "federated"}
    /\ MayStart(t, retryOf)
    /\ dispatch' = [dispatch EXCEPT ![d] =
           [NoDispatch EXCEPT !.task = t, !.kind = kind, !.status = "pending"]]
    /\ worker' = [worker EXCEPT ![d] = "starting"]
    /\ task' = [task EXCEPT ![t] = "dispatched"]
    /\ UNCHANGED <<gate, outbox>>

Starting(d) == dispatch[d].status = "pending" /\ worker[d] = "starting"

AttachToAnyTerminal(d, term) ==
    /\ dispatch[d].kind = "local"
    /\ Starting(d)
    /\ dispatch' = [dispatch EXCEPT ![d].assignee = term, ![d].capability = "live"]
    /\ UNCHANGED <<task, worker, gate, outbox>>

\* Only the home of a local worker attaches a terminal; a federated worker's
\* terminal belongs to its own host.
PrepareStartingWorkerAuthority(d, term) ==
    /\ dispatch[d].kind = "local"
    /\ Starting(d)
    /\ Occupied(term) \subseteq {d}
    /\ dispatch' = [dispatch EXCEPT ![d].assignee = term, ![d].capability = "live"]
    /\ UNCHANGED <<task, worker, gate, outbox>>

MarkWorkerDispatchReady(d) ==
    /\ Starting(d)
    /\ dispatch[d].kind = "local" => dispatch[d].assignee # NoTerminal
    /\ dispatch' = [dispatch EXCEPT ![d].status = "dispatched"]
    /\ worker' = [worker EXCEPT ![d] = "ready"]
    /\ UNCHANGED <<task, gate, outbox>>

\* failWorkerStart: a stalled prompt (its turn start unobserved) keeps the capability.
FailWorkerStart(d, stalled) ==
    LET t == dispatch[d].task
    IN  /\ worker[d] = "starting"
        /\ stalled => dispatch[d].kind = "federated" \/ dispatch[d].capability = "live"
        /\ dispatch' = [dispatch EXCEPT
               ![d].status = "failed",
               ![d].lastFailure = IF stalled THEN "stalled" ELSE "other",
               ![d].capability = IF stalled THEN @ ELSE Revoked(@)]
        /\ worker' = [worker EXCEPT ![d] = "failed"]
        /\ task' = IF ActiveOf(t) \ {d} = {} THEN [task EXCEPT ![t] = "failed"] ELSE task
        /\ UNCHANGED <<gate, outbox>>

MarkWorkerStartUnknown(d) ==
    /\ worker[d] = "starting"
    /\ worker' = [worker EXCEPT ![d] = "start_unknown"]
    /\ dispatch' = [dispatch EXCEPT ![d].capability = Revoked(@)]
    /\ task' = [task EXCEPT ![dispatch[d].task] = "blocked"]
    /\ UNCHANGED <<gate, outbox>>

-----------------------------------------------------------------------------
(* Stopping and abandoning. *)

BeginWorkerStop(d) ==
    /\ worker[d] \in {"ready", "start_unknown"}
    /\ worker' = [worker EXCEPT ![d] = "stopping"]
    /\ dispatch' = [dispatch EXCEPT ![d].capability = Revoked(@)]
    /\ task' = [task EXCEPT ![dispatch[d].task] = AfterInterruption(d)]
    /\ UNCHANGED <<gate, outbox>>

RowsAfterStopOfReady(d) ==
    IF dispatch[d].status = "dispatched"
    THEN [dispatch EXCEPT ![d].status = "failed", ![d].lastFailure = "other"] ELSE dispatch
RowsAfterStop(d) ==
    IF Active(d)
    THEN [dispatch EXCEPT ![d].status = "failed", ![d].lastFailure = "other"] ELSE dispatch

\* settleWorkerStop and reconcileFederatedWorkerStop write the same rows.
Stopped(d) ==
    /\ worker' = [worker EXCEPT ![d] = "stopped"]
    /\ dispatch' = RowsAfterStop(d)
    /\ task' = [task EXCEPT ![dispatch[d].task] = AfterInterruption(d)]
    /\ UNCHANGED <<gate, outbox>>

SettleWorkerStop(d) ==
    /\ dispatch[d].kind = "local"
    /\ worker[d] = "stopping"
    /\ Stopped(d)

MarkWorkerStopUnknown(d) ==
    /\ worker[d] = "stopping"
    /\ worker' = [worker EXCEPT ![d] = "stop_unknown"]
    /\ UNCHANGED <<task, dispatch, gate, outbox>>

AbandonWorkerDispatch(d) ==
    LET t == dispatch[d].task
    IN  /\ Latest(t, d)
        /\ worker[d] \notin {"none", "abandoned", "stopping", "succeeded"}
        /\ worker' = [worker EXCEPT ![d] = "abandoned"]
        /\ dispatch' = [dispatch EXCEPT
               ![d].status = IF Active(d) THEN "failed" ELSE @,
               ![d].capability = Revoked(@)]
        /\ task' = [task EXCEPT ![t] = AfterInterruption(d)]
        /\ UNCHANGED <<gate, outbox>>

\* Startup recovery found the worker's recorded terminal gone: the candidates are
\* active dispatches of unsettled workers with a pane.
ReconcileMissingWorkerTerminal(d) ==
    LET t == dispatch[d].task
        row == Failed(dispatch[d], "other")
        stopWasPending == worker[d] \in {"stopping", "stop_unknown"}
    IN  /\ Active(d)
        /\ Unsettled(d)
        /\ dispatch[d].assignee # NoTerminal
        /\ dispatch' = [dispatch EXCEPT ![d] = row]
        /\ worker' = [worker EXCEPT ![d] = IF stopWasPending THEN "stopped" ELSE "abandoned"]
        /\ task' = IF stopWasPending THEN task
                   ELSE [task EXCEPT ![t] =
                       IF @ \in {"dispatched", "blocked"} /\ ActiveOf(t) \ {d} = {}
                       THEN (IF row.status = "circuit_broken" THEN "failed" ELSE "ready")
                       ELSE AfterInterruption(d)]
        /\ UNCHANGED <<gate, outbox>>

-----------------------------------------------------------------------------
(* What the home learns of a worker on another server. *)

ReconcileFederatedWorkerReady(d) ==
    LET t == dispatch[d].task
    IN  /\ dispatch[d].kind = "federated"
        /\ worker[d] \in {"starting", "start_unknown"}
        /\ worker' = [worker EXCEPT ![d] = "ready"]
        /\ dispatch' = [dispatch EXCEPT ![d].status = IF @ = "pending" THEN "dispatched" ELSE @]
        /\ task' = [task EXCEPT ![t] = IF @ = "blocked" THEN "dispatched" ELSE @]
        /\ UNCHANGED <<gate, outbox>>

\* The server answers failed or stopped for a start whose outcome was open.
ReconcileFederatedWorkerEnded(d, state, cause) ==
    LET t == dispatch[d].task
    IN  /\ dispatch[d].kind = "federated"
        /\ state = "stopped" => cause = "other"
        /\ worker[d] \in {"starting", "start_unknown"}
        /\ worker' = [worker EXCEPT ![d] = state]
        /\ dispatch' = IF Active(d)
                       THEN [dispatch EXCEPT ![d] = Closed(@, "failed", cause)] ELSE dispatch
        /\ task' = [task EXCEPT ![t] =
               IF @ \in {"blocked", "dispatched"} /\ ActiveOf(t) \ {d} = {}
               THEN "failed" ELSE AfterInterruption(d)]
        /\ UNCHANGED <<gate, outbox>>

ReconcileFederatedWorkerStop(d) ==
    /\ dispatch[d].kind = "federated"
    /\ worker[d] \in {"stopping", "stop_unknown"}
    /\ Stopped(d)

\* The server had already settled the worker: its report is still to come.
ResumeFederatedWorkerForTerminalRelay(d) ==
    /\ dispatch[d].kind = "federated"
    /\ worker[d] = "stopping"
    /\ worker' = [worker EXCEPT ![d] = "ready"]
    /\ task' = [task EXCEPT ![dispatch[d].task] = IF @ = "blocked" THEN "dispatched" ELSE @]
    /\ UNCHANGED <<dispatch, gate, outbox>>

-----------------------------------------------------------------------------
(* The worker's report: worker_done, sent locally or relayed by a server. *)

\* A capability-backed dispatch accepts reports under a live capability only; a
\* federated report was authorised by its server, and a dispatch that was never
\* given a capability answers to its assignee.
MayReport(d) == dispatch[d].kind = "federated" \/ dispatch[d].capability # "revoked"

AnyFailedStart(d) == dispatch[d].status = "failed" /\ task[dispatch[d].task] = "failed"
UnobservedPrompt(d) == dispatch[d].status = "failed" /\ dispatch[d].lastFailure = "stalled"

\* worker-start recorded a stalled prompt as failed; the worker may have been
\* executing it all along, and its own report corrects the record.
SettledByUnobservedPrompt(d) ==
    /\ dispatch[d].status = "failed"
    /\ dispatch[d].lastFailure = "stalled"
    /\ task[dispatch[d].task] = "failed"

\* The conditions under which a report of d is not rejected.
AcceptsReport(d) ==
    LET t == dispatch[d].task
    IN  /\ Exists(d)
        /\ MayReport(d)
        /\ SettledByUnobservedPrompt(d) \/ (dispatch[d].status = "dispatched" /\ task[t] = "dispatched")
        /\ ActiveWorkers(t) \subseteq {d}
        /\ worker[d] = "none" => Active(d) /\ \A e \in ActiveOf(t) : e <= d

\* A replayed report finds both rows as it would leave them and changes nothing:
\* settlement is the only step of a report that is not a stutter.
SettleWorkerReport(d, outcome) ==
    LET t == dispatch[d].task
        corrects == SettledByUnobservedPrompt(d)
        settled == IF outcome = "succeeded" THEN "completed" ELSE "failed"
        own == [dispatch EXCEPT ![d] = Closed(@, settled, "other")]
    IN  /\ AcceptsReport(d)
        /\ dispatch' = SettleActive(own, t, settled)
        /\ task' = Moved(t, settled)
        /\ worker' = IF worker[d] = (IF corrects THEN "failed" ELSE "ready")
                     THEN [worker EXCEPT ![d] = outcome] ELSE worker
        /\ outbox' = IF outbox[d] = "none" THEN [outbox EXCEPT ![d] = outcome] ELSE outbox
        /\ UNCHANGED gate

-----------------------------------------------------------------------------
(* Decision gates. *)

\* fromWorker: the requester must own the task's active dispatch.
CreateGate(g, t, fromWorker) ==
    /\ FreshGate(g)
    /\ task[t] # "absent"
    /\ fromWorker => ActiveOf(t) # {}
    /\ ActiveWorkers(t) = {}
    /\ gate' = [gate EXCEPT ![g] = [task |-> t, status |-> "pending"]]
    /\ dispatch' = SettleActive(dispatch, t, "completed")
    /\ task' = [task EXCEPT ![t] = "blocked"]
    /\ UNCHANGED <<worker, outbox>>

\* Neither the method nor the gate-resolve RPC asks whether the gate is pending.
ResolveGate(g) ==
    /\ gate[g].status # "absent"
    /\ MoveTask(gate[g].task, "ready")
    /\ gate' = [gate EXCEPT ![g].status = "resolved"]
    /\ UNCHANGED <<worker, outbox>>

\* The autonomy policy answers instead of a human, and only a pending gate.
RetireGate(g) ==
    /\ gate[g].status = "pending"
    /\ MoveTask(gate[g].task, "ready")
    /\ gate' = [gate EXCEPT ![g].status = "resolved"]
    /\ UNCHANGED <<worker, outbox>>

-----------------------------------------------------------------------------
TaskStep ==
    \E t \in Tasks :
        \/ CreateTask(t)
        \/ \E status \in TaskStatuses : UpdateTaskStatus(t, status)

ContextStep ==
    \E d \in DispatchIds :
        \/ \E t \in Tasks, term \in Terminals : CreateDispatchContext(d, t, term)
        \/ MintDispatchCapability(d)
        \/ \E exited \in BOOLEAN, cause \in {"stalled", "other"} : FailDispatch(d, exited, cause)
        \/ ReleaseContextOnlyDispatch(d)

StartStep ==
    \E d \in DispatchIds :
        \/ \E t \in Tasks, kind \in {"local", "federated"}, retryOf \in {0} \cup DispatchIds :
               CreateStartingWorkerDispatch(d, t, kind, retryOf)
        \/ \E term \in Terminals : PrepareStartingWorkerAuthority(d, term)
        \/ MarkWorkerDispatchReady(d)
        \/ \E stalled \in BOOLEAN : FailWorkerStart(d, stalled)
        \/ MarkWorkerStartUnknown(d)

StopStep ==
    \E d \in DispatchIds :
        \/ BeginWorkerStop(d)
        \/ SettleWorkerStop(d)
        \/ MarkWorkerStopUnknown(d)
        \/ AbandonWorkerDispatch(d)
        \/ ReconcileMissingWorkerTerminal(d)

FederationStep ==
    \E d \in DispatchIds :
        \/ ReconcileFederatedWorkerReady(d)
        \/ \E state \in {"failed", "stopped"}, cause \in {"stalled", "other"} :
               ReconcileFederatedWorkerEnded(d, state, cause)
        \/ ReconcileFederatedWorkerStop(d)
        \/ ResumeFederatedWorkerForTerminalRelay(d)

ReportStep == \E d \in DispatchIds, outcome \in {"succeeded", "failed"} :
                  SettleWorkerReport(d, outcome)

GateStep ==
    \E g \in GateIds :
        \/ \E t \in Tasks, fromWorker \in BOOLEAN : CreateGate(g, t, fromWorker)
        \/ ResolveGate(g)
        \/ RetireGate(g)

Next == TaskStep \/ ContextStep \/ StartStep \/ StopStep \/ FederationStep
            \/ ReportStep \/ GateStep

Spec == Init /\ [][Next]_vars

-----------------------------------------------------------------------------
(* Safety. *)

\* A task is never handed to two dispatches at once: two workers would do the
\* same work and each could report it done.
OneActiveDispatchPerTask ==
    \A t \in Tasks : \A d, e \in ActiveOf(t) : d = e

\* A terminal never carries two active dispatches: the agent behind it would be
\* given a second preamble while it is executing the first.
OneActiveDispatchPerTerminal ==
    \A term \in Terminals : \A d, e \in Occupied(term) : d = e

\* While a dispatch is active its task is dispatched, or blocked because the fate
\* of a supervised worker is open.  So no path reopens or finishes a task under
\* a dispatch that still runs, and a blocked task with an active dispatch always
\* has a worker whose stop, show or abandon moves it on.
ActiveDispatchHoldsTask ==
    \A d \in DispatchIds : Active(d) =>
        \/ task[dispatch[d].task] = "dispatched"
        \/ /\ task[dispatch[d].task] = "blocked"
           /\ worker[d] \in {"start_unknown", "stopping", "stop_unknown"}

\* A dispatched task has an active dispatch.  A task left dispatched with none
\* would be invisible to the coordinator, which dispatches only ready tasks, and
\* no report, exit or stop would ever move it again.
DispatchedTaskHasDispatch ==
    \A t \in Tasks : task[t] = "dispatched" => ActiveOf(t) # {}

\* A worker in a settled state holds no active dispatch: otherwise the terminal
\* and the task stay locked by a worker nothing will stop or settle again.
SettledWorkerHoldsNothing ==
    \A d \in DispatchIds : worker[d] \in SettledStates => ~Active(d)

\* Whatever operators, gates, other dispatches and exits do around it, the report
\* of a ready local worker would be accepted: its row and its task are dispatched,
\* its capability is live and no other supervised dispatch of the task is active.
ReadyWorkerCanReport ==
    \A d \in DispatchIds : worker[d] = "ready" /\ dispatch[d].kind = "local" =>
        /\ dispatch[d].status = "dispatched"
        /\ task[dispatch[d].task] = "dispatched"
        /\ dispatch[d].capability = "live"
        /\ ActiveWorkers(dispatch[d].task) = {d}

\* A capability outlives its dispatch in one case only: the start failed because
\* the prompt's turn was not observed, so the worker may still owe its report.
CapabilityDiesWithDispatch ==
    \A d \in DispatchIds : dispatch[d].capability = "live" /\ ~Active(d) =>
        dispatch[d].lastFailure = "stalled" /\ worker[d] = "failed"

\* The ledger is never told an outcome the dispatch contradicts, though a report
\* may correct a recorded failure and the outbox keeps the first row of a key.
OutboxAgreesWithDispatch ==
    \A d \in DispatchIds :
        /\ outbox[d] = "succeeded" => dispatch[d].status = "completed"
        /\ outbox[d] = "failed" => dispatch[d].status = "failed"

\* A settled dispatch never settles again: late exits, stops, reports, abandons and
\* gates leave it as it was.  The one exception is the correction of a stalled start.
SettledDispatchIsFinal ==
    [][\A d \in DispatchIds : Exists(d) /\ ~Active(d) =>
          \/ dispatch'[d].status = dispatch[d].status
          \/ /\ dispatch[d].status = "failed" /\ dispatch[d].lastFailure = "stalled"
             /\ dispatch'[d].status = "completed"]_vars

\* No task starts before everything it depends on is completed.
DependenciesRespected ==
    \A t \in Tasks : task[t] \notin {"absent", "pending"} =>
        \A u \in Deps[t] : task[u] = "completed"

\* A pending task waits for something: one of its dependencies is not completed.
\* Promotion runs only when a dependency completes, so a pending task whose
\* dependencies are all completed would wait for ever.
NoStrandedPending ==
    \A t \in Tasks : task[t] = "pending" => \E u \in Deps[t] : task[u] # "completed"

\* Without operators and gates a completed task stays completed: a late failure,
\* exit, stop or report of an older dispatch never reopens it.
CompletedTaskIsFinal ==
    [][\A t \in Tasks : task[t] = "completed" => task'[t] = "completed"]_vars

\* A task completes by the report of exactly one of its dispatches, and never while
\* another of them is active: a superseded worker cannot finish the retry's task.
SupersededReportsAreRejected ==
    [][\A t \in Tasks : task[t] # "completed" /\ task'[t] = "completed" =>
          \E d \in DispatchIds :
              /\ ActiveOf(t) \subseteq {d}
              /\ {e \in DispatchIds : dispatch[e].task = t /\ dispatch[e].status # "completed"
                                     /\ dispatch'[e].status = "completed"} = {d}]_vars

\* Unless an operator sets a task dispatched, a supervised worker settles no later than its
\* dispatch: none is left running, unsupervised, behind a row that says the attempt is over.
WorkerSettlesWithDispatch ==
    \A d \in DispatchIds : Unsettled(d) => Active(d)

-----------------------------------------------------------------------------
(* The inductive invariant: what the safety properties above rest on.         *)

\* Only the newest attempt of a task is ever active.
ActiveIsLatest ==
    \A d \in DispatchIds : Active(d) =>
        \A e \in DispatchIds : e > d => dispatch[e].task # dispatch[d].task

\* A row that exists belongs to a task; one that does not has nothing.
RowsBelongToTasks ==
    \A d \in DispatchIds :
        IF Exists(d) THEN dispatch[d].task \in Tasks
        ELSE dispatch[d].task = NoTask /\ worker[d] = "none"

\* Nothing but the start itself moves the row of a worker whose start is open.
StartingIsPending ==
    \A d \in DispatchIds :
        worker[d] \in {"starting", "start_unknown"} => dispatch[d].status = "pending"

\* The conjunction every step preserves: a task's open claim is its newest attempt, its
\* worker is not settled, and the task says so; no terminal carries two of them.
IInv ==
    /\ TypeOK
    /\ RowsBelongToTasks
    /\ StartingIsPending
    /\ ActiveIsLatest
    /\ ActiveDispatchHoldsTask
    /\ SettledWorkerHoldsNothing
    /\ OneActiveDispatchPerTerminal

-----------------------------------------------------------------------------
(* Refinement: an active dispatch is a held claim on its task and terminal. *)

ClaimLife ==
    [d \in DispatchIds |-> IF ~Exists(d) THEN "unused" ELSE IF Active(d) THEN "held" ELSE "over"]
ClaimOwner == [d \in DispatchIds |-> dispatch[d].task]
ClaimPlace == [d \in DispatchIds |-> IF Active(d) THEN dispatch[d].assignee ELSE NoTerminal]

Claim == INSTANCE TaskClaim WITH
    Claims <- DispatchIds, life <- ClaimLife, owner <- ClaimOwner, place <- ClaimPlace,
    result <- outbox

\* Every behaviour of the board, operators, exits, gates and federation included, is
\* one of exclusive claims whose outcome is recorded at most once.
ImplementsTaskClaim == Claim!Spec

-----------------------------------------------------------------------------
(* What the documentation and the comments say, and the code does not do. *)

\* "After 3 consecutive failures on one task, the dispatch context circuit-breaks and
\* the task is marked failed" (skill-guides/orchestration.md): a task three of whose
\* dispatches failed is not offered again.
ThreeFailuresBreakTheCircuit ==
    \A t \in Tasks : task[t] = "ready" =>
        Cardinality({d \in DispatchIds :
            dispatch[d].task = t /\ dispatch[d].failures > 0}) < BreakAfter

\* "a gate already timed out or answered by a human has had its task moved on by
\* whoever did that, and unblocking again would race them" (decision-gate-store.ts):
\* answering a gate that is already answered reopens no completed task.
AnsweredGateReopensNothing ==
    [][gate' = gate => \A t \in Tasks : task[t] = "completed" => task'[t] # "ready"]_vars

=============================================================================
