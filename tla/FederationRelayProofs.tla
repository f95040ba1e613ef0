------------------------- MODULE FederationRelayProofs -------------------------
(***************************************************************************)
(* Proofs about the relay of a federated dispatch, for every quota, page     *)
(* size and kinds of message, both generations of the protocol, and any      *)
(* number of lost answers, late requests and restarts of either side.        *)
(*                                                                          *)
(* The invariant says of everything in memory or on its way what the rows    *)
(* still hold of it: a page of the queue it was read from, an acknowledgment  *)
(* and its answer of the inbox, a call's answer of the attachment, a verdict  *)
(* of the outbox.                                                            *)
(***************************************************************************)
EXTENDS FederationRelay, TLAPS

\* The one row of the home's board: its worker has a start of unknown outcome only while
\* it is pending, and an outcome in the outbox is what the row records.
HomeRow ==
    /\ IF Home!Exists(D) THEN dispatch[D].task = Task /\ dispatch[D].kind = "federated"
       ELSE worker[D] = "none" /\ outbox[D] = "none"
    /\ worker[D] \in {"starting", "start_unknown"} => dispatch[D].status = "pending"
    /\ Home!Active(D) => task[Task] \in {"dispatched", "blocked"}
    /\ dispatch[D].status = "completed" <=> outbox[D] = "succeeded"
    /\ outbox[D] = "failed" => dispatch[D].status = "failed" /\ dispatch[D].lastFailure # "stalled"

\* A sync's cursor, its page, the acknowledgments on their way and their receipts stay
\* within what the home has imported, and that within the queue.
Cursors ==
    /\ Len(inbox) <= Len(items)
    /\ sync.phase \in {"importing", "acking"} => sync.cursor <= Len(inbox)
    /\ sync.phase = "importing" => sync.cursor + Len(sync.page) <= Len(items)
    /\ sync.phase \in {"idle", "pulling", "importing"} => sync.answer = "none"
    /\ sync.phase = "acking" /\ sync.answer = "ok" => sync.cursor <= acked
    /\ \A r \in acks : r.through <= Len(inbox)
    /\ \A s \in Sequences : ackReceipt[s].state = "completed" => s <= acked
    /\ acked <= Len(inbox)
    /\ homeAcked <= acked

\* The same of the home's mail.
MailCursors ==
    /\ sync.phase = "mailing" => sync.last <= mail
    /\ sync.phase = "mailing" /\ sync.answer = "ok" => sync.last <= mailImported
    /\ \A r \in imports : r.last <= mail
    /\ \A m \in 1..MaxMail : mailReceipt[m] = "completed" => m <= mailImported
    /\ mailAcked <= mailImported /\ mailImported <= mail

\* Sequence s of the queue holds this message, or the report that replaced it.
Carries(s, kind) ==
    \/ items[s] = kind
    \/ kind = "heartbeat" /\ items[s] \in Reports

\* What the home imported, or is about to import, the queue still carries.
Carried ==
    /\ \A s \in 1..Len(inbox) : Carries(s, inbox[s])
    /\ sync.phase = "importing" =>
           \A i \in 1..Len(sync.page) : Carries(sync.cursor + i, sync.page[i])

\* States the attachment never leaves and no report can have reached.
Unreported == {"refused", "failed_start", "stopped"}

\* An answer that names an end names the attachment's end.
AnswersHold ==
    /\ call["start"].state \in {"refused", "failed_start"} =>
           attachment.state = call["start"].state
    /\ call["show"].state \in Ended => attachment.state = call["show"].state

\* The home judges a report as its outbox says, or the worker can report no more.
Confirmed(settled) ==
    \A s \in settled : s.action # "rejected" =>
        outbox[D] = OutcomeSettled(s.action) \/ attachment.state \in Unreported

FailedAtHome ==
    /\ dispatch[D].status = "failed" /\ dispatch[D].lastFailure # "stalled"
    /\ task[Task] = "failed" /\ outbox[D] = "none"

VerdictsHold ==
    /\ FailedAtHome => attachment.state \in Unreported
    /\ Confirmed(sync.settled)
    /\ \A r \in acks : Confirmed(r.settled)
    /\ AttachmentFollowsHome

\* Every report acknowledged under lifecycle settlement is in a receipt with its verdict,
\* and the attachment took the verdict unless the home rejected the report.
Judged(s) ==
    \E through \in Sequences, action \in {"completed", "failed", "rejected"} :
        /\ [seq |-> s, action |-> action] \in ackReceipt[through].settled
        /\ action = "rejected" \/ attachment.state = OutcomeOf(items[s])

ReportsJudged ==
    /\ \A t \in Sequences : ackReceipt[t].state = "none" => ackReceipt[t].settled = {}
    /\ LifecycleSettlement => \A s \in 1..acked : items[s] \in Reports => Judged(s)

\* The home records an outcome only of a report it has imported.
OutcomeImported == outbox[D] # "none" => \E s \in 1..Len(inbox) : inbox[s] = outbox[D]

RelayInv ==
    /\ TypeOK
    /\ HomeRow
    /\ Cursors
    /\ MailCursors
    /\ Carried
    /\ AnswersHold
    /\ VerdictsHold
    /\ ReportsJudged
    /\ OutcomeImported

-----------------------------------------------------------------------------
(* The board of one dispatch.                                                 *)

BoardInv == Home!TypeOK /\ HomeRow

\* A step of the board that settles nothing by a report and fails no start.
QuietBoard ==
    /\ BoardInv'
    /\ outbox' = outbox
    /\ FailedAtHome' => FailedAtHome

LEMMA OneDispatch == Home!DispatchIds = {D} /\ D = 1
BY DEF Home!DispatchIds, D

LEMMA TheRow ==
    ASSUME BoardInv
    PROVE  /\ dispatch[D] \in Home!DispatchRows
           /\ worker[D] \in Home!SettledStates \cup Home!UnsettledStates \cup {"none"}
           /\ task[Task] \in Home!TaskStatuses \cup {"absent"}
           /\ outbox[D] \in {"none", "succeeded", "failed"}
           /\ Home!Exists(D) => dispatch[D].task = Task /\ dispatch[D].kind = "federated"
           /\ worker[D] # "none" => Home!Exists(D)
           /\ Home!ActiveOf(Task) \ {D} = {}
           /\ task \in [{Task} -> Home!TaskStatuses \cup {"absent"}]
           /\ outbox \in [{D} -> {"none", "succeeded", "failed"}]
BY OneDispatch DEF BoardInv, HomeRow, Home!TypeOK, Home!ActiveOf

LEMMA TaskWritten ==
    ASSUME BoardInv, NEW status \in Home!TaskStatuses \cup {"absent"},
           task' = [task EXCEPT ![Task] = status]
    PROVE  task' \in [{Task} -> Home!TaskStatuses \cup {"absent"}] /\ task'[Task] = status
BY DEF BoardInv, Home!TypeOK

LEMMA RowWritten ==
    ASSUME BoardInv, NEW row \in Home!DispatchRows,
           NEW w \in Home!SettledStates \cup Home!UnsettledStates \cup {"none"},
           dispatch' = [dispatch EXCEPT ![D] = row], worker' = [worker EXCEPT ![D] = w],
           task' \in [{Task} -> Home!TaskStatuses \cup {"absent"}], gate' = gate,
           outbox' \in [{D} -> {"none", "succeeded", "failed"}]
    PROVE  Home!TypeOK' /\ dispatch'[D] = row /\ worker'[D] = w
<1>1. dispatch \in [{D} -> Home!DispatchRows]
  BY OneDispatch DEF BoardInv, Home!TypeOK
<1>2. worker \in [{D} -> Home!SettledStates \cup Home!UnsettledStates \cup {"none"}]
  BY OneDispatch DEF BoardInv, Home!TypeOK
<1>3. gate \in [Home!GateIds -> Home!GateRows] BY DEF BoardInv, Home!TypeOK
<1>4. dispatch' \in [{D} -> Home!DispatchRows] /\ dispatch'[D] = row BY <1>1
<1>5. /\ worker' \in [{D} -> Home!SettledStates \cup Home!UnsettledStates \cup {"none"}]
      /\ worker'[D] = w
  BY <1>2
<1> QED BY <1>3, <1>4, <1>5, OneDispatch DEF Home!TypeOK

LEMMA CreateTaskQuiet ==
    ASSUME BoardInv, Home!CreateTask(Task)
    PROVE  QuietBoard
<1> DEFINE status == Home!InitialStatus(Task)
<1>1. status \in {"ready", "pending"} BY DEF Home!InitialStatus
<1>2. /\ task[Task] = "absent" /\ task' = [task EXCEPT ![Task] = status]
      /\ UNCHANGED <<dispatch, worker, gate, outbox>>
  BY DEF Home!CreateTask
<1> HIDE DEF status
<1>3. Home!TypeOK' /\ task'[Task] = status
  BY <1>1, <1>2, OneDispatch DEF BoardInv, Home!TypeOK, Home!TaskStatuses
<1>4. HomeRow'
  BY <1>2, <1>3 DEF BoardInv, HomeRow, Home!Exists, Home!Active
<1> QED BY <1>1, <1>2, <1>3, <1>4 DEF QuietBoard, BoardInv, FailedAtHome

LEMMA StartQuiet ==
    ASSUME BoardInv, Home!CreateStartingWorkerDispatch(D, Task, "federated", 0)
    PROVE  QuietBoard
<1> DEFINE row == [Home!NoDispatch EXCEPT !.task = Task, !.kind = "federated",
                                          !.status = "pending"]
<1>1. /\ Home!FreshDispatch(D)
      /\ dispatch' = [dispatch EXCEPT ![D] = row] /\ worker' = [worker EXCEPT ![D] = "starting"]
      /\ task' = [task EXCEPT ![Task] = "dispatched"] /\ UNCHANGED <<gate, outbox>>
  BY DEF Home!CreateStartingWorkerDispatch
<1>2. ~Home!Exists(D) BY <1>1, OneDispatch DEF Home!FreshDispatch
<1>3. outbox[D] = "none" BY <1>2 DEF BoardInv, HomeRow
<1>4. /\ row \in Home!DispatchRows /\ row.status = "pending"
      /\ row.task = Task /\ row.kind = "federated"
  BY DEF Home!NoDispatch, Home!DispatchRows, Home!Kinds, Home!DispatchStatuses,
         Home!ActiveStatuses
<1> HIDE DEF row
<1>5. /\ task' \in [{Task} -> Home!TaskStatuses \cup {"absent"}]
      /\ task'[Task] = "dispatched"
  BY <1>1, TaskWritten DEF Home!TaskStatuses
<1>6. Home!TypeOK' /\ dispatch'[D] = row /\ worker'[D] = "starting"
  BY <1>1, <1>4, <1>5, TheRow, RowWritten DEF Home!UnsettledStates
<1> QED BY <1>1, <1>3, <1>4, <1>5, <1>6
        DEF QuietBoard, BoardInv, HomeRow, FailedAtHome, Home!Exists, Home!Active

LEMMA ReadyQuiet ==
    ASSUME BoardInv, Home!MarkWorkerDispatchReady(D)
    PROVE  QuietBoard
<1> DEFINE row == [dispatch[D] EXCEPT !.status = "dispatched"]
<1>1. /\ dispatch[D].status = "pending" /\ worker[D] = "starting"
      /\ dispatch' = [dispatch EXCEPT ![D] = row] /\ worker' = [worker EXCEPT ![D] = "ready"]
      /\ UNCHANGED <<task, gate, outbox>>
  BY DEF Home!MarkWorkerDispatchReady, Home!Starting
<1>2. outbox[D] = "none" /\ Home!Active(D) /\ Home!Exists(D)
  BY <1>1, TheRow DEF BoardInv, HomeRow, Home!Active, Home!ActiveStatuses, Home!Exists
<1>3. /\ row \in Home!DispatchRows /\ row.status = "dispatched"
      /\ row.task = dispatch[D].task /\ row.kind = dispatch[D].kind
  BY TheRow DEF Home!DispatchRows, Home!DispatchStatuses, Home!ActiveStatuses
<1> HIDE DEF row
<1>4. Home!TypeOK' /\ dispatch'[D] = row /\ worker'[D] = "ready"
  BY <1>1, <1>3, TheRow, RowWritten DEF Home!UnsettledStates
<1> QED BY <1>1, <1>2, <1>3, <1>4, TheRow
        DEF QuietBoard, BoardInv, HomeRow, FailedAtHome, Home!Exists, Home!Active

\* A start that failed is the one way a task fails at home without a report.
LEMMA FailedStartKeepsBoard ==
    ASSUME BoardInv, NEW stalled \in BOOLEAN, Home!FailWorkerStart(D, stalled)
    PROVE  BoardInv' /\ outbox' = outbox
<1> DEFINE row == [dispatch[D] EXCEPT
               !.status = "failed",
               !.lastFailure = IF stalled THEN "stalled" ELSE "other",
               !.capability = IF stalled THEN @ ELSE Home!Revoked(@)]
<1>1. /\ worker[D] = "starting" /\ Home!Exists(D)
  BY TheRow DEF Home!FailWorkerStart
<1>2. /\ dispatch' = [dispatch EXCEPT ![D] = row] /\ worker' = [worker EXCEPT ![D] = "failed"]
      /\ task' = [task EXCEPT ![Task] = "failed"] /\ UNCHANGED <<gate, outbox>>
  BY <1>1, TheRow DEF Home!FailWorkerStart
<1>3. /\ task' \in [{Task} -> Home!TaskStatuses \cup {"absent"}]
      /\ task'[Task] = "failed"
  BY <1>2, TaskWritten DEF Home!TaskStatuses
<1>4. /\ row \in Home!DispatchRows /\ row.status = "failed"
      /\ row.task = dispatch[D].task /\ row.kind = dispatch[D].kind
  BY TheRow DEF Home!DispatchRows, Home!DispatchStatuses, Home!Revoked
<1>5. dispatch[D].status = "pending" /\ outbox[D] = "none"
  BY <1>1, TheRow DEF BoardInv, HomeRow
<1> HIDE DEF row
<1>6. Home!TypeOK' /\ dispatch'[D] = row /\ worker'[D] = "failed"
  BY <1>2, <1>3, <1>4, TheRow, RowWritten DEF Home!SettledStates
<1> QED BY <1>1, <1>2, <1>3, <1>4, <1>5, <1>6, TheRow
        DEF BoardInv, HomeRow, Home!Exists, Home!Active, Home!ActiveStatuses

LEMMA InterruptedAlone ==
    ASSUME BoardInv, Home!Exists(D)
    PROVE  Home!AfterInterruption(D) =
               IF task[Task] \in {"dispatched", "blocked"} THEN "blocked" ELSE task[Task]
BY TheRow DEF Home!AfterInterruption

\* The task a step on its only dispatch interrupts, or leaves as it is.
Interrupted ==
    task' = [task EXCEPT ![Task] =
        IF @ \in {"dispatched", "blocked"} THEN "blocked" ELSE @]

LEMMA TaskInterrupted ==
    ASSUME BoardInv, Interrupted
    PROVE  /\ task' \in [{Task} -> Home!TaskStatuses \cup {"absent"}]
           /\ task'[Task] = IF task[Task] \in {"dispatched", "blocked"} THEN "blocked"
                            ELSE task[Task]
<1> DEFINE status == IF task[Task] \in {"dispatched", "blocked"} THEN "blocked" ELSE task[Task]
<1>1. status \in Home!TaskStatuses \cup {"absent"} BY TheRow DEF Home!TaskStatuses
<1>2. task' = [task EXCEPT ![Task] = status] BY TheRow DEF Interrupted
<1> HIDE DEF status
<1>3. task'[Task] = status /\ task' \in [{Task} -> Home!TaskStatuses \cup {"absent"}]
  BY <1>1, <1>2, TaskWritten
<1> QED BY <1>3 DEF status

LEMMA StartUnknownQuiet ==
    ASSUME BoardInv, Home!MarkWorkerStartUnknown(D)
    PROVE  QuietBoard
<1> DEFINE row == [dispatch[D] EXCEPT !.capability = Home!Revoked(@)]
<1>1. worker[D] = "starting" /\ Home!Exists(D) BY TheRow DEF Home!MarkWorkerStartUnknown
<1>2. /\ dispatch' = [dispatch EXCEPT ![D] = row]
      /\ worker' = [worker EXCEPT ![D] = "start_unknown"]
      /\ task' = [task EXCEPT ![Task] = "blocked"] /\ UNCHANGED <<gate, outbox>>
  BY <1>1, TheRow DEF Home!MarkWorkerStartUnknown
<1>3. dispatch[D].status = "pending" /\ outbox[D] = "none"
  BY <1>1, TheRow DEF BoardInv, HomeRow
<1>4. /\ row \in Home!DispatchRows /\ row.status = dispatch[D].status
      /\ row.task = dispatch[D].task /\ row.kind = dispatch[D].kind
  BY TheRow DEF Home!DispatchRows, Home!Revoked
<1>5. /\ task' \in [{Task} -> Home!TaskStatuses \cup {"absent"}]
      /\ task'[Task] = "blocked"
  BY <1>2, TaskWritten DEF Home!TaskStatuses
<1> HIDE DEF row
<1>6. Home!TypeOK' /\ dispatch'[D] = row /\ worker'[D] = "start_unknown"
  BY <1>2, <1>4, <1>5, TheRow, RowWritten DEF Home!UnsettledStates
<1> QED BY <1>1, <1>2, <1>3, <1>4, <1>5, <1>6, TheRow
        DEF QuietBoard, BoardInv, HomeRow, FailedAtHome, Home!Exists, Home!Active

\* A worker that is being stopped, was stopped, or was abandoned.
LEMMA InterruptionQuiet ==
    ASSUME BoardInv, Home!Exists(D), Interrupted, gate' = gate, outbox' = outbox,
           NEW w \in {"stopping", "stopped", "abandoned"}, worker' = [worker EXCEPT ![D] = w],
           NEW row \in Home!DispatchRows, dispatch' = [dispatch EXCEPT ![D] = row],
           row.task = dispatch[D].task, row.kind = dispatch[D].kind,
           \/ row.status = dispatch[D].status /\ row.lastFailure = dispatch[D].lastFailure
           \/ Home!Active(D) /\ row.status = "failed"
    PROVE  QuietBoard
<1>1. /\ task' \in [{Task} -> Home!TaskStatuses \cup {"absent"}]
      /\ task'[Task] = IF task[Task] \in {"dispatched", "blocked"} THEN "blocked"
                       ELSE task[Task]
  BY TaskInterrupted
<1>2. Home!TypeOK' /\ dispatch'[D] = row /\ worker'[D] = w
  BY <1>1, TheRow, RowWritten DEF Home!UnsettledStates, Home!SettledStates
<1>3. Home!Active(D) => outbox[D] = "none"
  BY TheRow DEF BoardInv, HomeRow, Home!Active, Home!ActiveStatuses
<1>4. HomeRow'
  BY <1>1, <1>2, <1>3, TheRow
     DEF BoardInv, HomeRow, Home!Exists, Home!Active, Home!ActiveStatuses
<1>5. FailedAtHome' => FailedAtHome
  BY <1>1, <1>2, <1>3 DEF BoardInv, HomeRow, FailedAtHome, Home!Active
<1> QED BY <1>2, <1>4, <1>5 DEF QuietBoard, BoardInv

LEMMA BeginStopQuiet ==
    ASSUME BoardInv, Home!BeginWorkerStop(D)
    PROVE  QuietBoard
<1> DEFINE row == [dispatch[D] EXCEPT !.capability = Home!Revoked(@)]
<1>1. Home!Exists(D) BY TheRow DEF Home!BeginWorkerStop
<1>2. /\ dispatch' = [dispatch EXCEPT ![D] = row] /\ Interrupted
      /\ worker' = [worker EXCEPT ![D] = "stopping"] /\ gate' = gate /\ outbox' = outbox
  BY <1>1, TheRow, InterruptedAlone DEF Home!BeginWorkerStop, Interrupted
<1>3. /\ row \in Home!DispatchRows /\ row.status = dispatch[D].status
      /\ row.task = dispatch[D].task /\ row.kind = dispatch[D].kind
      /\ row.lastFailure = dispatch[D].lastFailure
  BY TheRow DEF Home!DispatchRows, Home!Revoked
<1> HIDE DEF row
<1> QED BY <1>1, <1>2, <1>3, InterruptionQuiet

LEMMA StoppedQuiet ==
    ASSUME BoardInv, Home!ReconcileFederatedWorkerStop(D)
    PROVE  QuietBoard
<1> DEFINE row == IF Home!Active(D)
                  THEN [dispatch[D] EXCEPT !.status = "failed", !.lastFailure = "other"]
                  ELSE dispatch[D]
<1>1. Home!Exists(D) BY TheRow DEF Home!ReconcileFederatedWorkerStop
<1>2. /\ Interrupted /\ worker' = [worker EXCEPT ![D] = "stopped"]
      /\ gate' = gate /\ outbox' = outbox /\ dispatch' = Home!RowsAfterStop(D)
  BY <1>1, TheRow, InterruptedAlone
     DEF Home!ReconcileFederatedWorkerStop, Home!Stopped, Interrupted
<1>3. dispatch' = [dispatch EXCEPT ![D] = row]
  BY <1>2, OneDispatch DEF Home!RowsAfterStop, BoardInv, Home!TypeOK
<1>4. /\ row \in Home!DispatchRows
      /\ row.task = dispatch[D].task /\ row.kind = dispatch[D].kind
      /\ \/ row.status = dispatch[D].status /\ row.lastFailure = dispatch[D].lastFailure
         \/ Home!Active(D) /\ row.status = "failed"
  BY TheRow DEF Home!DispatchRows, Home!DispatchStatuses
<1> HIDE DEF row
<1> QED BY <1>1, <1>2, <1>3, <1>4, InterruptionQuiet

LEMMA AbandonQuiet ==
    ASSUME BoardInv, Home!AbandonWorkerDispatch(D)
    PROVE  QuietBoard
<1> DEFINE row == [dispatch[D] EXCEPT
               !.status = IF Home!Active(D) THEN "failed" ELSE @,
               !.capability = Home!Revoked(@)]
<1>1. Home!Exists(D) BY TheRow DEF Home!AbandonWorkerDispatch
<1>2. /\ dispatch' = [dispatch EXCEPT ![D] = row] /\ Interrupted
      /\ worker' = [worker EXCEPT ![D] = "abandoned"] /\ gate' = gate /\ outbox' = outbox
  BY <1>1, TheRow, InterruptedAlone DEF Home!AbandonWorkerDispatch, Interrupted
<1>3. /\ row \in Home!DispatchRows
      /\ row.task = dispatch[D].task /\ row.kind = dispatch[D].kind
      /\ \/ row.status = dispatch[D].status /\ row.lastFailure = dispatch[D].lastFailure
         \/ Home!Active(D) /\ row.status = "failed"
  BY TheRow DEF Home!DispatchRows, Home!DispatchStatuses, Home!Revoked
<1> HIDE DEF row
<1> QED BY <1>1, <1>2, <1>3, InterruptionQuiet

LEMMA StopUnknownQuiet ==
    ASSUME BoardInv, Home!MarkWorkerStopUnknown(D)
    PROVE  QuietBoard
<1>1. /\ worker[D] = "stopping" /\ worker' = [worker EXCEPT ![D] = "stop_unknown"]
      /\ UNCHANGED <<task, dispatch, gate, outbox>>
  BY DEF Home!MarkWorkerStopUnknown
<1>2. dispatch' = [dispatch EXCEPT ![D] = dispatch[D]]
  BY <1>1, OneDispatch DEF BoardInv, Home!TypeOK
<1>3. Home!TypeOK' /\ worker'[D] = "stop_unknown"
  BY <1>1, <1>2, TheRow, RowWritten DEF Home!UnsettledStates
<1>4. HomeRow' BY <1>1, <1>3 DEF BoardInv, HomeRow, Home!Exists, Home!Active
<1> QED BY <1>1, <1>3, <1>4 DEF QuietBoard, BoardInv, FailedAtHome

LEMMA ResumeQuiet ==
    ASSUME BoardInv, Home!ResumeFederatedWorkerForTerminalRelay(D)
    PROVE  QuietBoard
<1> DEFINE status == IF task[Task] = "blocked" THEN "dispatched" ELSE task[Task]
<1>1. Home!Exists(D) /\ worker[D] = "stopping"
  BY TheRow DEF Home!ResumeFederatedWorkerForTerminalRelay
<1>2. /\ worker' = [worker EXCEPT ![D] = "ready"] /\ UNCHANGED <<dispatch, gate, outbox>>
      /\ task' = [task EXCEPT ![Task] = status]
  BY <1>1, TheRow DEF Home!ResumeFederatedWorkerForTerminalRelay
<1>3. status \in Home!TaskStatuses \cup {"absent"} BY TheRow DEF Home!TaskStatuses
<1>4. /\ Home!Active(D) => status \in {"dispatched", "blocked"}
      /\ status = "failed" => task[Task] = "failed"
  BY DEF BoardInv, HomeRow
<1> HIDE DEF status
<1>5. /\ task' \in [{Task} -> Home!TaskStatuses \cup {"absent"}] /\ task'[Task] = status
  BY <1>2, <1>3, TaskWritten
<1>6. dispatch' = [dispatch EXCEPT ![D] = dispatch[D]]
  BY <1>2, OneDispatch DEF BoardInv, Home!TypeOK
<1>7. Home!TypeOK' /\ worker'[D] = "ready"
  BY <1>2, <1>5, <1>6, TheRow, RowWritten DEF Home!UnsettledStates
<1>8. HomeRow'
  BY <1>1, <1>2, <1>4, <1>5, <1>7 DEF BoardInv, HomeRow, Home!Exists, Home!Active
<1> QED BY <1>2, <1>4, <1>5, <1>7, <1>8 DEF QuietBoard, BoardInv, FailedAtHome

LEMMA ReconcileReadyQuiet ==
    ASSUME BoardInv, Home!ReconcileFederatedWorkerReady(D)
    PROVE  QuietBoard
<1> DEFINE row == [dispatch[D] EXCEPT !.status = IF @ = "pending" THEN "dispatched" ELSE @]
           status == IF task[Task] = "blocked" THEN "dispatched" ELSE task[Task]
<1>1. /\ Home!Exists(D) /\ dispatch[D].status = "pending"
      /\ Home!Active(D) /\ outbox[D] = "none"
  BY TheRow DEF Home!ReconcileFederatedWorkerReady, BoardInv, HomeRow, Home!Active,
                Home!ActiveStatuses
<1>2. /\ worker' = [worker EXCEPT ![D] = "ready"] /\ UNCHANGED <<gate, outbox>>
      /\ dispatch' = [dispatch EXCEPT ![D] = row]
      /\ task' = [task EXCEPT ![Task] = status]
  BY <1>1, TheRow DEF Home!ReconcileFederatedWorkerReady
<1>3. /\ row \in Home!DispatchRows /\ row.status = "dispatched"
      /\ row.task = dispatch[D].task /\ row.kind = dispatch[D].kind
  BY <1>1, TheRow DEF Home!DispatchRows, Home!DispatchStatuses, Home!ActiveStatuses
<1>4. status = "dispatched" BY <1>1 DEF BoardInv, HomeRow
<1> HIDE DEF row, status
<1>5. /\ task' \in [{Task} -> Home!TaskStatuses \cup {"absent"}]
      /\ task'[Task] = "dispatched"
  BY <1>2, <1>4, TaskWritten DEF Home!TaskStatuses
<1>6. Home!TypeOK' /\ dispatch'[D] = row /\ worker'[D] = "ready"
  BY <1>2, <1>3, <1>5, TheRow, RowWritten DEF Home!UnsettledStates
<1> QED BY <1>1, <1>2, <1>3, <1>5, <1>6, TheRow
        DEF QuietBoard, BoardInv, HomeRow, FailedAtHome, Home!Exists

LEMMA ReconcileEndedKeepsBoard ==
    ASSUME BoardInv, NEW state \in {"failed", "stopped"}, NEW cause \in {"stalled", "other"},
           Home!ReconcileFederatedWorkerEnded(D, state, cause)
    PROVE  BoardInv' /\ outbox' = outbox
<1> DEFINE row == Home!Closed(dispatch[D], "failed", cause)
<1>1. /\ Home!Exists(D) /\ dispatch[D].status = "pending"
      /\ Home!Active(D) /\ outbox[D] = "none"
  BY TheRow DEF Home!ReconcileFederatedWorkerEnded, BoardInv, HomeRow, Home!Active,
                Home!ActiveStatuses
<1>2. /\ worker' = [worker EXCEPT ![D] = state] /\ UNCHANGED <<gate, outbox>>
      /\ dispatch' = [dispatch EXCEPT ![D] = row]
  BY <1>1 DEF Home!ReconcileFederatedWorkerEnded
<1>3. task[Task] \in {"dispatched", "blocked"} /\ dispatch[D].task = Task
  BY <1>1 DEF BoardInv, HomeRow
<1>4. task' = [task EXCEPT ![Task] = "failed"]
  BY <1>3, TheRow DEF Home!ReconcileFederatedWorkerEnded
<1>5. /\ row \in Home!DispatchRows /\ row.status = "failed"
      /\ row.task = dispatch[D].task /\ row.kind = dispatch[D].kind
  BY TheRow DEF Home!Closed, Home!DispatchRows, Home!DispatchStatuses, Home!Revoked
<1>6. /\ task' \in [{Task} -> Home!TaskStatuses \cup {"absent"}] /\ task'[Task] = "failed"
  BY <1>4, TaskWritten DEF Home!TaskStatuses
<1> HIDE DEF row
<1>7. Home!TypeOK' /\ dispatch'[D] = row /\ worker'[D] = state
  BY <1>2, <1>5, <1>6, TheRow, RowWritten DEF Home!SettledStates
<1> QED BY <1>1, <1>2, <1>5, <1>6, <1>7, TheRow
        DEF BoardInv, HomeRow, Home!Exists, Home!Active, Home!ActiveStatuses

\* A report the board accepts is the first, and its outcome is what the outbox says.
LEMMA ReportKeepsBoard ==
    ASSUME BoardInv, NEW outcome \in {"succeeded", "failed"},
           Home!SettleWorkerReport(D, outcome)
    PROVE  /\ BoardInv' /\ ~FailedAtHome'
           /\ outbox[D] = "none" /\ outbox'[D] = outcome
<1> DEFINE settled == IF outcome = "succeeded" THEN "completed" ELSE "failed"
           row == Home!Closed(dispatch[D], settled, "other")
           w == IF worker[D] = (IF Home!SettledByUnobservedPrompt(D) THEN "failed" ELSE "ready")
                THEN outcome ELSE worker[D]
<1>1. /\ Home!Exists(D) /\ dispatch[D].task = Task
      /\ \/ dispatch[D].status = "dispatched"
         \/ dispatch[D].status = "failed" /\ dispatch[D].lastFailure = "stalled"
  BY TheRow DEF Home!SettleWorkerReport, Home!AcceptsReport, Home!SettledByUnobservedPrompt
<1>2. outbox[D] = "none" /\ worker[D] \notin {"starting", "start_unknown"}
  BY <1>1, TheRow DEF BoardInv, HomeRow
<1>3. /\ row \in Home!DispatchRows /\ row.status = settled
      /\ row.task = Task /\ row.kind = dispatch[D].kind
      /\ settled = "failed" => row.lastFailure = "other"
  BY <1>1, TheRow DEF Home!Closed, Home!DispatchRows, Home!DispatchStatuses, Home!Revoked
<1>4. dispatch' = [dispatch EXCEPT ![D] = row]
  <2> DEFINE own == [dispatch EXCEPT ![D] = Home!Closed(@, settled, "other")]
  <2>1. dispatch' = Home!SettleActive(own, Task, settled) BY <1>1 DEF Home!SettleWorkerReport
  <2>2. own = [dispatch EXCEPT ![D] = row] OBVIOUS
  <2>3. own \in [{D} -> Home!DispatchRows] /\ own[D] = row
    BY <1>3, <2>2, OneDispatch DEF BoardInv, Home!TypeOK
  <2>4. row.status \notin Home!ActiveStatuses BY <1>3 DEF Home!ActiveStatuses
  <2> HIDE DEF own, row
  <2>5. Home!SettleActive(own, Task, settled) = [d \in {D} |-> own[d]]
    BY <2>3, <2>4, OneDispatch DEF Home!SettleActive
  <2>6. [d \in {D} |-> own[d]] = own BY <2>3
  <2> QED BY <2>1, <2>2, <2>5, <2>6
<1>5. task' = [task EXCEPT ![Task] = settled]
  <2> DEFINE moved == [task EXCEPT ![Task] = settled]
  <2>1. task' = Home!Moved(Task, settled) BY <1>1 DEF Home!SettleWorkerReport
  <2>2. moved \in [{Task} -> Home!TaskStatuses \cup {"absent"}]
    BY TheRow DEF Home!TaskStatuses
  <2>3. Home!Promote(moved, Task) = [u \in {Task} |-> moved[u]] BY DEF Home!Promote
  <2>4. [u \in {Task} |-> moved[u]] = moved BY <2>2
  <2> QED BY <2>1, <2>3, <2>4 DEF Home!Moved
<1>6. /\ task' \in [{Task} -> Home!TaskStatuses \cup {"absent"}] /\ task'[Task] = settled
  BY <1>5, TaskWritten DEF Home!TaskStatuses
<1>7. worker' = [worker EXCEPT ![D] = w]
  BY OneDispatch DEF Home!SettleWorkerReport, BoardInv, Home!TypeOK
<1>8. /\ w \in Home!SettledStates \cup Home!UnsettledStates \cup {"none"}
      /\ w \notin {"starting", "start_unknown"}
  BY <1>2, TheRow DEF Home!SettledStates
<1>9. /\ outbox' \in [{D} -> {"none", "succeeded", "failed"}] /\ outbox'[D] = outcome
      /\ gate' = gate
  BY <1>2, TheRow DEF Home!SettleWorkerReport
<1> HIDE DEF row, w
<1>10. Home!TypeOK' /\ dispatch'[D] = row /\ worker'[D] = w
  BY <1>3, <1>4, <1>6, <1>7, <1>8, <1>9, RowWritten
<1>11. HomeRow'
  BY <1>1, <1>3, <1>6, <1>8, <1>9, <1>10, TheRow
     DEF HomeRow, Home!Exists, Home!Active, Home!ActiveStatuses
<1> QED BY <1>2, <1>9, <1>10, <1>11 DEF BoardInv, FailedAtHome

-----------------------------------------------------------------------------
(* What a step owes the relay, part by part.                                  *)

CallsTyped ==
    /\ call \in [{"start", "stop", "show"} ->
           [state : AttachmentStates \cup {"waiting", "throws"}, epoch : 0..MaxEpochs]]
    /\ sent \subseteq {"start", "stop"}

Watermarks == [epoch : 0..MaxEpochs, through : 0..MaxItems]

SyncRecords ==
    [phase : {"idle", "pulling", "importing", "acking", "mailing"},
     pages : 0..MaxPages, known : Watermarks,
     epoch : 0..MaxEpochs, page : Seq(MessageKinds), full : BOOLEAN,
     cursor : 0..MaxItems, settled : SUBSET Settlements,
     last : 0..MaxMail, answer : {"none", "ok", "refused"}]

RelayedTyped ==
    /\ inbox \in Seq(MessageKinds) /\ Len(inbox) <= MaxItems
    /\ homeAcked \in 0..MaxItems /\ homeEpoch \in 0..MaxEpochs
    /\ checkpoint \in Watermarks

PostTyped ==
    /\ mail \in 0..MaxMail /\ mailAcked \in 0..MaxMail
    /\ acks \subseteq AckRequests /\ imports \subseteq MailRequests
    /\ faults \in 0..MaxFaults

LEMMA InvParts ==
    ASSUME RelayInv
    PROVE  /\ ServerTypeOK /\ BoardInv /\ CallsTyped /\ RelayedTyped /\ PostTyped
           /\ sync \in SyncRecords
           /\ Cursors /\ MailCursors /\ Carried /\ AnswersHold /\ VerdictsHold
           /\ ReportsJudged /\ OutcomeImported
BY DEF RelayInv, TypeOK, BoardInv, CallsTyped, RelayedTyped, PostTyped, SyncRecords, Watermarks

LEMMA PartsInv ==
    ASSUME ServerTypeOK', BoardInv', CallsTyped', RelayedTyped', PostTyped',
           sync' \in SyncRecords,
           Cursors', MailCursors', Carried', AnswersHold', VerdictsHold', ReportsJudged',
           OutcomeImported'
    PROVE  RelayInv'
BY DEF RelayInv, TypeOK, BoardInv, CallsTyped, RelayedTyped, PostTyped, SyncRecords, Watermarks

\* A sync that has ended, or has asked for its next page: it knows nothing yet.
Fresh == sync.phase \in {"idle", "pulling"} /\ sync.answer = "none" /\ sync.settled = {}
StillOrFresh == sync' = sync \/ Fresh'

LEMMA SyncEnds ==
    ASSUME sync' = IdleSync
    PROVE  sync' \in SyncRecords /\ Fresh'
BY HomeAssumption, RelayAssumption, KindsAssumption
   DEF SyncRecords, Watermarks, Fresh, IdleSync, NoCheckpoint

LEMMA KnownTyped == ASSUME RelayedTyped PROVE Known \in Watermarks
BY DEF Known, RelayedTyped, Watermarks

LEMMA SyncPulls ==
    ASSUME NEW pages \in 0..MaxPages, NEW known \in Watermarks, PullPage(pages, known)
    PROVE  sync' \in SyncRecords /\ Fresh'
<1>1. sync' = [phase |-> "pulling", pages |-> pages, known |-> known, epoch |-> 0,
               page |-> <<>>, full |-> FALSE, cursor |-> 0, settled |-> {}, last |-> 0,
               answer |-> "none"]
  BY DEF PullPage, IdleSync
<1> QED BY <1>1, HomeAssumption, RelayAssumption DEF SyncRecords, Fresh, Watermarks

LEMMA BoardStays ==
    ASSUME BoardInv, UNCHANGED board
    PROVE  QuietBoard
BY DEF board, QuietBoard, BoardInv, HomeRow, Home!TypeOK, FailedAtHome, Home!Exists,
       Home!Active

LEMMA CursorsStay ==
    ASSUME Cursors, UNCHANGED <<inbox, acked, homeAcked, ackReceipt>>, acks' \subseteq acks,
           items' \in Seq(MessageKinds), items \in Seq(MessageKinds),
           Len(items') >= Len(items), inbox \in Seq(MessageKinds),
           sync \in SyncRecords, StillOrFresh
    PROVE  Cursors'
BY DEF Cursors, StillOrFresh, Fresh, SyncRecords

LEMMA MailStays ==
    ASSUME MailCursors, UNCHANGED <<mail, mailAcked, mailImported, mailReceipt>>,
           imports' \subseteq imports, StillOrFresh
    PROVE  MailCursors'
BY DEF MailCursors, StillOrFresh, Fresh

LEMMA CarriedStays ==
    ASSUME Carried, UNCHANGED <<items, inbox>>, StillOrFresh
    PROVE  Carried'
BY DEF Carried, Carries, StillOrFresh, Fresh

LEMMA VerdictsStay ==
    ASSUME VerdictsHold, outbox' = outbox, acks' \subseteq acks, StillOrFresh,
           attachment.state \in Unreported => attachment'.state = attachment.state,
           FailedAtHome' => FailedAtHome \/ attachment.state \in Unreported,
           AttachmentFollowsHome'
    PROVE  VerdictsHold'
<1>1. \A settled : Confirmed(settled) => Confirmed(settled)' BY DEF Confirmed
<1>2. Confirmed(sync.settled)' BY <1>1 DEF VerdictsHold, Confirmed, StillOrFresh, Fresh
<1>3. \A r \in acks' : Confirmed(r.settled)' BY <1>1 DEF VerdictsHold
<1> QED BY <1>2, <1>3 DEF VerdictsHold

LEMMA JudgedStays ==
    ASSUME ReportsJudged, UNCHANGED <<acked, ackReceipt>>,
           \A s \in 1..acked : items'[s] = items[s],
           attachment.state \in {"succeeded", "failed"} => attachment'.state = attachment.state
    PROVE  ReportsJudged'
BY DEF ReportsJudged, Judged, OutcomeOf

LEMMA OutcomeStays ==
    ASSUME OutcomeImported, UNCHANGED <<outbox, inbox>>
    PROVE  OutcomeImported'
BY DEF OutcomeImported

-----------------------------------------------------------------------------
(* The home's calls. *)

\* A step of the home on its board and its calls alone.
HomeStep ==
    /\ BoardInv'
    /\ outbox' = outbox
    /\ FailedAtHome' => FailedAtHome \/ attachment.state \in Unreported

LEMMA QuietIsHomeStep == QuietBoard => HomeStep
BY DEF QuietBoard, HomeStep

LEMMA CallStep ==
    ASSUME RelayInv, HomeStep, UNCHANGED <<serverVars, inbox, homeAcked, checkpoint, post, wire>>,
           homeEpoch' \in 0..MaxEpochs, CallsTyped', AnswersHold',
           sync' \in SyncRecords, StillOrFresh
    PROVE  RelayInv'
<1> USE InvParts DEF serverVars, post, wire
<1>1. ServerTypeOK' BY DEF ServerTypeOK
<1>2. RelayedTyped' /\ PostTyped' BY DEF RelayedTyped, PostTyped
<1>3. Cursors' BY CursorsStay DEF ServerTypeOK, RelayedTyped
<1>4. MailCursors' BY MailStays
<1>5. Carried' BY CarriedStays
<1>6. VerdictsHold'
  BY VerdictsStay DEF HomeStep, VerdictsHold, AttachmentFollowsHome
<1>7. ReportsJudged' BY JudgedStays
<1>8. OutcomeImported' BY OutcomeStays DEF HomeStep
<1> QED BY <1>1, <1>2, <1>3, <1>4, <1>5, <1>6, <1>7, <1>8, PartsInv DEF HomeStep

\* A call is forgotten, awaited, or answered with what the attachment is.
LEMMA CallAnswered ==
    ASSUME RelayInv, NEW c \in {"start", "stop", "show"}, NEW answer,
           call' = [call EXCEPT ![c] = answer], attachment' = attachment,
           answer \in {Silent, Awaited, Answer(attachment.state)},
           sent' \subseteq {"start", "stop"}
    PROVE  CallsTyped' /\ AnswersHold'
<1>1. /\ answer \in [state : AttachmentStates \cup {"waiting", "throws"}, epoch : 0..MaxEpochs]
      /\ answer.state \in {"none", "waiting", attachment.state}
  BY InvParts, RelayAssumption
     DEF Silent, Awaited, Answer, ServerTypeOK, AttachmentStates
<1>2. \A d \in {"start", "stop", "show"} : call'[d] = IF d = c THEN answer ELSE call[d]
  BY InvParts DEF CallsTyped
<1>3. CallsTyped' BY <1>1, InvParts DEF CallsTyped
<1>4. AnswersHold' BY <1>1, <1>2, InvParts DEF AnswersHold, Ended
<1> QED BY <1>3, <1>4

LEMMA CallsStay ==
    ASSUME RelayInv, UNCHANGED <<calls, attachment>>
    PROVE  CallsTyped' /\ AnswersHold'
BY InvParts DEF calls, CallsTyped, AnswersHold

LEMMA NothingElse ==
    ASSUME RelayInv, UNCHANGED <<serverVars, relayed, post, sync, wire>>
    PROVE  /\ UNCHANGED <<serverVars, inbox, homeAcked, checkpoint, post, wire, attachment>>
           /\ homeEpoch' \in 0..MaxEpochs /\ sync' \in SyncRecords /\ StillOrFresh
BY InvParts DEF serverVars, relayed, RelayedTyped, StillOrFresh

LEMMA CreateTaskKeeps == ASSUME RelayInv, CreateTask PROVE RelayInv'
<1>1. HomeStep BY InvParts, CreateTaskQuiet, QuietIsHomeStep DEF CreateTask
<1> QED BY <1>1, NothingElse, CallsStay, CallStep DEF CreateTask, OnlyBoard

LEMMA StartWorkerKeeps == ASSUME RelayInv, StartWorker PROVE RelayInv'
<1>1. HomeStep BY InvParts, StartQuiet, QuietIsHomeStep DEF StartWorker
<1>2. CallsTyped' /\ AnswersHold'
  BY InvParts, NothingElse, CallAnswered DEF StartWorker, OnlyBoard, CallsTyped
<1> QED BY <1>1, <1>2, NothingElse, CallStep DEF StartWorker, OnlyBoard

LEMMA StartTimesOutKeeps == ASSUME RelayInv, StartTimesOut PROVE RelayInv'
<1>1. HomeStep
  BY InvParts, StartUnknownQuiet, BoardStays, QuietIsHomeStep DEF StartTimesOut, AfterStart
<1>2. CallsTyped' /\ AnswersHold'
  BY InvParts, NothingElse, CallAnswered DEF StartTimesOut, OnlyBoard, CallsTyped
<1> QED BY <1>1, <1>2, NothingElse, CallStep DEF StartTimesOut, OnlyBoard

LEMMA StopWorkerKeeps == ASSUME RelayInv, StopWorker PROVE RelayInv'
<1>1. HomeStep BY InvParts, BeginStopQuiet, QuietIsHomeStep DEF StopWorker
<1>2. CallsTyped' /\ AnswersHold'
  BY InvParts, NothingElse, CallAnswered DEF StopWorker, OnlyBoard, CallsTyped
<1> QED BY <1>1, <1>2, NothingElse, CallStep DEF StopWorker, OnlyBoard

LEMMA StopUnknownStep == ASSUME RelayInv, StopUnknown PROVE HomeStep
BY InvParts, StopUnknownQuiet, BoardStays, QuietIsHomeStep DEF StopUnknown, WhileStopping

LEMMA StopAnsweredKeeps == ASSUME RelayInv, StopAnswered PROVE RelayInv'
<1>1. HomeStep
  <2>1. CASE call.stop.state = "stopped" /\ (IF worker[D] \in {"stopping", "stop_unknown"}
              THEN Home!ReconcileFederatedWorkerStop(D) ELSE UNCHANGED board)
    BY <2>1, InvParts, StoppedQuiet, BoardStays, QuietIsHomeStep
  <2>2. CASE WhileStopping(Home!ResumeFederatedWorkerForTerminalRelay(D))
    BY <2>2, InvParts, ResumeQuiet, BoardStays, QuietIsHomeStep DEF WhileStopping
  <2>3. CASE StopUnknown BY <2>3, StopUnknownStep
  <2> QED BY <2>1, <2>2, <2>3 DEF StopAnswered
<1>2. CallsTyped' /\ AnswersHold'
  BY InvParts, NothingElse, CallAnswered DEF StopAnswered, OnlyBoard, CallsTyped
<1> QED BY <1>1, <1>2, NothingElse, CallStep DEF StopAnswered, OnlyBoard

LEMMA StopTimesOutKeeps == ASSUME RelayInv, StopTimesOut PROVE RelayInv'
<1>1. HomeStep BY StopUnknownStep DEF StopTimesOut
<1>2. CallsTyped' /\ AnswersHold'
  BY InvParts, NothingElse, CallAnswered DEF StopTimesOut, OnlyBoard, CallsTyped
<1> QED BY <1>1, <1>2, NothingElse, CallStep DEF StopTimesOut, OnlyBoard

LEMMA AbandonWorkerKeeps == ASSUME RelayInv, AbandonWorker PROVE RelayInv'
<1>1. HomeStep BY InvParts, AbandonQuiet, QuietIsHomeStep DEF AbandonWorker
<1> QED BY <1>1, NothingElse, CallsStay, CallStep DEF AbandonWorker, OnlyBoard

\* A start fails at home only when the server refused it or failed it.
LEMMA StartAnsweredKeeps == ASSUME RelayInv, StartAnswered PROVE RelayInv'
<1>1. HomeStep
  <2>1. CASE AfterStart(Home!MarkWorkerDispatchReady(D))
    BY <2>1, InvParts, ReadyQuiet, BoardStays, QuietIsHomeStep DEF AfterStart
  <2>2. CASE AfterStart(Home!MarkWorkerStartUnknown(D))
    BY <2>2, InvParts, StartUnknownQuiet, BoardStays, QuietIsHomeStep DEF AfterStart
  <2>3. CASE /\ call.start.state \in {"refused", "failed_start"}
             /\ \E stalled \in BOOLEAN : AfterStart(Home!FailWorkerStart(D, stalled))
    <3>1. attachment.state \in Unreported BY <2>3, InvParts DEF AnswersHold, Unreported
    <3>2. PICK stalled \in BOOLEAN : AfterStart(Home!FailWorkerStart(D, stalled)) BY <2>3
    <3>3. BoardInv' /\ outbox' = outbox
      BY <3>2, InvParts, FailedStartKeepsBoard, BoardStays DEF AfterStart, QuietBoard
    <3> QED BY <3>1, <3>3 DEF HomeStep
  <2> QED BY <2>1, <2>2, <2>3 DEF StartAnswered
<1>2. UNCHANGED <<serverVars, inbox, homeAcked, checkpoint, post, wire, sync, attachment>>
  BY DEF StartAnswered, serverVars
<1>3. CallsTyped' /\ AnswersHold'
  BY <1>2, InvParts, CallAnswered DEF StartAnswered, CallsTyped
<1>4. homeEpoch' \in 0..MaxEpochs BY InvParts DEF StartAnswered, CallsTyped, RelayedTyped
<1> QED BY <1>1, <1>2, <1>3, <1>4, InvParts, CallStep DEF StillOrFresh

LEMMA ShowWorkerKeeps == ASSUME RelayInv, ShowWorker PROVE RelayInv'
<1>1. UNCHANGED <<serverVars, relayed, post, sync, wire, attachment>>
  BY DEF ShowWorker, serverVars
<1>2. HomeStep BY InvParts, BoardStays, QuietIsHomeStep DEF ShowWorker
<1>3. CallsTyped' /\ AnswersHold' BY <1>1, InvParts, CallAnswered DEF ShowWorker, CallsTyped
<1> QED BY <1>1, <1>2, <1>3, NothingElse, CallStep

\* With lifecycle settlement no start that is still open has failed on the server by a
\* report, for then the home has recorded it.
LEMMA ShownFailureUnreported ==
    ASSUME RelayInv, worker[D] \in {"starting", "start_unknown"},
           call["show"].state \in {"stopped", "failed", "failed_start"},
           call["show"].state = "failed" => LifecycleSettlement
    PROVE  attachment.state \in Unreported
<1>1. attachment.state = call["show"].state BY InvParts DEF AnswersHold, Ended
<1>2. outbox[D] # "failed" BY InvParts DEF BoardInv, HomeRow
<1> QED BY <1>1, <1>2, InvParts DEF VerdictsHold, AttachmentFollowsHome, Unreported

LEMMA EndedIsHomeStep ==
    ASSUME BoardInv, attachment.state \in Unreported, NEW state \in {"failed", "stopped"},
           NEW cause \in {"stalled", "other"},
           Home!ReconcileFederatedWorkerEnded(D, state, cause)
    PROVE  HomeStep
BY ReconcileEndedKeepsBoard DEF HomeStep

LEMMA ShowAnsweredKeeps == ASSUME RelayInv, ShowAnswered PROVE RelayInv'
<1> DEFINE shown == call.show.state
           reported == shown = "succeeded" \/ (shown = "failed" /\ ~LifecycleSettlement)
           open == worker[D] \in {"starting", "start_unknown"}
<1>1. HomeStep
  <2>1. CASE Home!ReconcileFederatedWorkerStop(D)
    BY <2>1, InvParts, StoppedQuiet, QuietIsHomeStep
  <2>2. CASE shown = "stopped" /\ open /\ Home!ReconcileFederatedWorkerEnded(D, "stopped", "other")
    BY <2>2, InvParts, ShownFailureUnreported, EndedIsHomeStep
  <2>3. CASE Home!ReconcileFederatedWorkerReady(D)
    BY <2>3, InvParts, ReconcileReadyQuiet, QuietIsHomeStep
  <2>4. CASE /\ shown \in {"failed", "failed_start"} /\ open /\ ~reported
             /\ \E cause \in {"stalled", "other"} :
                    Home!ReconcileFederatedWorkerEnded(D, "failed", cause)
    BY <2>4, InvParts, ShownFailureUnreported, EndedIsHomeStep
  <2>5. CASE UNCHANGED board BY <2>5, InvParts, BoardStays, QuietIsHomeStep
  <2> QED BY <2>1, <2>2, <2>3, <2>4, <2>5 DEF ShowAnswered
<1>2. UNCHANGED <<serverVars, inbox, homeAcked, checkpoint, post, wire, attachment>>
  BY DEF ShowAnswered, serverVars
<1>3. CallsTyped' /\ AnswersHold'
  BY <1>2, InvParts, CallAnswered DEF ShowAnswered, CallsTyped
<1>4. homeEpoch' \in 0..MaxEpochs BY InvParts DEF ShowAnswered, CallsTyped, RelayedTyped
<1>5. sync' = sync \/ PullPage(MaxPages, Known) BY DEF ShowAnswered
<1>6. sync' \in SyncRecords /\ StillOrFresh
  BY <1>5, InvParts, KnownTyped, SyncPulls, HomeAssumption DEF StillOrFresh
<1> QED BY <1>1, <1>2, <1>3, <1>4, <1>6, CallStep

-----------------------------------------------------------------------------
(* The sync begins, ends, or is given up.  Nothing else but the checkpoint, the      *)
(* mail and the bound of faults changes.                                            *)

LEMMA SyncStops ==
    ASSUME RelayInv, UNCHANGED <<serverVars, board, inbox, homeAcked, homeEpoch, mailAcked,
                                 acks, imports>>,
           checkpoint' \in Watermarks,
           mail' \in mail..MaxMail, faults' \in 0..MaxFaults,
           CallsTyped', AnswersHold', sync' \in SyncRecords, StillOrFresh
    PROVE  RelayInv'
<1> USE InvParts DEF serverVars
<1>1. ServerTypeOK' BY DEF ServerTypeOK
<1>2. QuietBoard BY BoardStays
<1>3. RelayedTyped' BY DEF RelayedTyped
<1>4. PostTyped' BY RelayAssumption DEF PostTyped
<1>5. Cursors' BY CursorsStay DEF ServerTypeOK, RelayedTyped
<1>6. MailCursors'
  <2>1. mail' >= mail /\ mail \in Int /\ mail' \in Int BY RelayAssumption DEF PostTyped
  <2>2. \A r \in imports : r.last \in Int BY DEF PostTyped, MailRequests
  <2>3. sync.last \in Int /\ mailImported \in Int BY DEF SyncRecords, ServerTypeOK
  <2> QED BY <2>1, <2>2, <2>3 DEF MailCursors, StillOrFresh, Fresh
<1>7. Carried' BY CarriedStays
<1>8. outbox' = outbox /\ (FailedAtHome' => FailedAtHome) BY <1>2 DEF QuietBoard
<1>9. VerdictsHold' BY <1>8, VerdictsStay DEF VerdictsHold, AttachmentFollowsHome
<1>10. ReportsJudged' BY JudgedStays
<1>11. OutcomeImported' BY <1>8, OutcomeStays
<1> QED BY <1>1, <1>2, <1>3, <1>4, <1>5, <1>6, <1>7, <1>9, <1>10, <1>11, PartsInv
        DEF QuietBoard

LEMMA EndedSync ==
    ASSUME NEW through, NEW mark \in Watermarks,
           EndSync(through, mark)
    PROVE  /\ sync' \in SyncRecords /\ Fresh' /\ StillOrFresh
           /\ checkpoint' \in Watermarks
BY SyncEnds, RelayAssumption DEF EndSync, StillOrFresh, NoCheckpoint, Watermarks

LEMMA RelayTickKeeps == ASSUME RelayInv, RelayTick PROVE RelayInv'
<1>1. sync' \in SyncRecords /\ StillOrFresh
  BY InvParts, KnownTyped, SyncPulls, HomeAssumption DEF RelayTick, StillOrFresh
<1>2. CallsTyped' /\ AnswersHold' BY CallsStay DEF RelayTick, serverVars
<1>3. mail \in mail..MaxMail BY InvParts, RelayAssumption DEF PostTyped
<1> QED BY <1>1, <1>2, <1>3, InvParts, SyncStops
        DEF RelayTick, relayed, post, wire, RelayedTyped, PostTyped

LEMMA ImportThrowsKeeps == ASSUME RelayInv, ImportThrows PROVE RelayInv'
<1>1. checkpoint \in Watermarks
  BY InvParts DEF RelayedTyped
<1>2. EndSync(homeAcked, checkpoint) BY DEF ImportThrows
<1>3. CallsTyped' /\ AnswersHold' BY CallsStay DEF ImportThrows, serverVars
<1>4. mail \in mail..MaxMail BY InvParts, RelayAssumption DEF PostTyped
<1> QED BY <1>1, <1>2, <1>3, <1>4, EndedSync, InvParts, SyncStops
        DEF ImportThrows, post, wire, PostTyped

LEMMA GiveUpKeeps == ASSUME RelayInv, GiveUp PROVE RelayInv'
<1>1. checkpoint \in Watermarks
  BY InvParts DEF RelayedTyped
<1>2. EndSync(homeAcked, checkpoint) BY DEF GiveUp
<1>3. CallsTyped' /\ AnswersHold' BY CallsStay DEF GiveUp, serverVars
<1>4. mail \in mail..MaxMail BY InvParts, RelayAssumption DEF PostTyped
<1>5. faults' \in 0..MaxFaults BY InvParts, HomeAssumption DEF GiveUp, PostTyped
<1> QED BY <1>1, <1>2, <1>3, <1>4, <1>5, EndedSync, InvParts, SyncStops
        DEF GiveUp, post

LEMMA SendMailKeeps == ASSUME RelayInv, SendMail PROVE RelayInv'
<1>1. CallsTyped' /\ AnswersHold' BY CallsStay DEF SendMail, serverVars
<1>2. mail' \in mail..MaxMail BY InvParts, RelayAssumption DEF PostTyped, SendMail
<1> QED BY <1>1, <1>2, InvParts, SyncStops
        DEF SendMail, relayed, wire, RelayedTyped, PostTyped, StillOrFresh

LEMMA HomeRestartKeeps == ASSUME RelayInv, HomeRestart PROVE RelayInv'
<1>1. sync' \in SyncRecords /\ StillOrFresh BY SyncEnds DEF HomeRestart, StillOrFresh
<1>2. call' = [c \in {"start", "stop", "show"} |-> Silent]
  BY InvParts DEF HomeRestart, CallsTyped
<1>3. CallsTyped'
  BY <1>2, InvParts, RelayAssumption DEF HomeRestart, CallsTyped, Silent, AttachmentStates
<1>4. AnswersHold' BY <1>2 DEF AnswersHold, Silent, Ended
<1>5. mail \in mail..MaxMail BY InvParts, RelayAssumption DEF PostTyped
<1>6. faults' \in 0..MaxFaults BY InvParts, HomeAssumption DEF HomeRestart, PostTyped
<1>7. checkpoint' \in Watermarks
  BY RelayAssumption DEF HomeRestart, NoCheckpoint, Watermarks
<1> QED BY <1>1, <1>3, <1>4, <1>5, <1>6, <1>7, SyncStops DEF HomeRestart, post

-----------------------------------------------------------------------------
(* The sync reads a page and imports it. *)

LEMMA PulledPage ==
    ASSUME ServerTypeOK, NEW imported \in Nat, imported <= Len(items)
    PROVE  /\ FirstPulled(imported) - 1 \in Nat
           /\ FirstPulled(imported) - 1 = (IF LifecycleSettlement THEN acked ELSE imported)
           /\ Pulled(imported) \in Seq(MessageKinds)
           /\ FirstPulled(imported) - 1 + Len(Pulled(imported)) <= Len(items)
           /\ \A i \in 1..Len(Pulled(imported)) :
                  Pulled(imported)[i] = items[FirstPulled(imported) - 1 + i]
<1> DEFINE first == FirstPulled(imported)
           last == Smaller(Len(items), first + PageSize - 1)
<1>1. /\ items \in Seq(MessageKinds) /\ Len(items) \in Nat
      /\ acked \in Nat /\ acked <= Len(items) /\ PageSize \in Nat /\ PageSize >= 1
  BY RelayAssumption DEF ServerTypeOK
<1>2. /\ first - 1 = (IF LifecycleSettlement THEN acked ELSE imported)
      /\ first \in 1..Len(items) + 1
  BY <1>1 DEF FirstPulled
<1>3. last \in Int /\ last <= Len(items) /\ last >= first - 1 BY <1>1, <1>2 DEF Smaller
<1>4. Pulled(imported) = SubSeq(items, first, last) BY DEF Pulled
<1> HIDE DEF first, last
<1>5. /\ SubSeq(items, first, last) \in Seq(MessageKinds)
      /\ Len(SubSeq(items, first, last)) = last - first + 1
      /\ \A i \in 1..last - first + 1 : SubSeq(items, first, last)[i] = items[first + i - 1]
  BY <1>1, <1>2, <1>3
<1>6. \A i \in 1..last - first + 1 : first + i - 1 = first - 1 + i BY <1>2, <1>3
<1> QED BY <1>1, <1>2, <1>3, <1>4, <1>5, <1>6 DEF first

LEMMA PullAnsweredKeeps == ASSUME RelayInv, PullAnswered PROVE RelayInv'
<1> DEFINE n == Len(inbox)
           page == Pulled(n)
           cursor == IF page = <<>> THEN n ELSE FirstPulled(n) - 1
           full == (Len(page) = PageSize)
<1> USE InvParts
<1>1. /\ sync.phase = "pulling" /\ sync.answer = "none"
      /\ sync' = [sync EXCEPT !.phase = "importing", !.epoch = epoch, !.page = page,
                     !.full = full, !.cursor = cursor]
      /\ UNCHANGED <<serverVars, board, calls, relayed, post, wire>>
  BY DEF PullAnswered, Cursors
<1>2. /\ n \in Nat /\ n <= Len(items) /\ Len(items) <= MaxItems /\ acked <= n /\ acked \in Nat
      /\ Len(items) \in Nat /\ MaxItems \in Nat
  BY RelayAssumption DEF RelayedTyped, Cursors, ServerTypeOK
<1>3. /\ cursor \in 0..n
      /\ page \in Seq(MessageKinds) /\ cursor + Len(page) <= Len(items)
      /\ \A i \in 1..Len(page) : page[i] = items[cursor + i]
  <2>1. /\ FirstPulled(n) - 1 \in 0..n /\ page \in Seq(MessageKinds)
        /\ FirstPulled(n) - 1 + Len(page) <= Len(items)
        /\ \A i \in 1..Len(page) : page[i] = items[FirstPulled(n) - 1 + i]
    <3> HIDE DEF n
    <3>1. /\ FirstPulled(n) - 1 = (IF LifecycleSettlement THEN acked ELSE n)
          /\ page \in Seq(MessageKinds)
          /\ FirstPulled(n) - 1 + Len(page) <= Len(items)
          /\ \A i \in 1..Len(page) : page[i] = items[FirstPulled(n) - 1 + i]
      BY <1>2, PulledPage
    <3> QED BY <1>2, <3>1
  <2> HIDE DEF page
  <2>2. CASE page = <<>> BY <1>2, <2>1, <2>2
  <2>3. CASE page # <<>> BY <1>2, <2>1, <2>3
  <2> QED BY <2>2, <2>3
<1>4. epoch \in 0..MaxEpochs /\ full \in BOOLEAN BY RelayAssumption DEF ServerTypeOK
<1> HIDE DEF page, cursor, full
<1>5. sync' \in SyncRecords
  <2>1. cursor \in 0..MaxItems BY <1>2, <1>3
  <2>2. sync \in SyncRecords OBVIOUS
  <2> QED BY ONLY <1>1, <1>3, <1>4, <2>1, <2>2 DEF SyncRecords
<1>6. /\ sync'.phase = "importing" /\ sync'.page = page /\ sync'.cursor = cursor
      /\ sync'.settled = sync.settled /\ sync'.answer = "none"
  BY <1>1 DEF SyncRecords
<1> QED
  <2>1. ServerTypeOK' /\ RelayedTyped' /\ PostTyped'
    BY <1>1 DEF serverVars, relayed, post, wire, ServerTypeOK, RelayedTyped, PostTyped
  <2>2. QuietBoard BY <1>1, BoardStays
  <2>3. CallsTyped' /\ AnswersHold' BY <1>1, CallsStay DEF serverVars
  <2>4. Cursors' BY <1>1, <1>2, <1>3, <1>6 DEF Cursors, serverVars, relayed, wire
  <2>5. MailCursors' BY <1>1, <1>6 DEF MailCursors, serverVars, post, wire
  <2>6. Carried' BY <1>1, <1>3, <1>6 DEF Carried, Carries, serverVars, relayed
  <2>7. VerdictsHold'
    BY <1>1, <1>6, <2>2
       DEF VerdictsHold, Confirmed, AttachmentFollowsHome, QuietBoard, serverVars, wire
  <2>8. ReportsJudged' BY <1>1, JudgedStays DEF serverVars
  <2>9. OutcomeImported' BY <1>1, <2>2, OutcomeStays DEF QuietBoard, relayed
  <2> QED BY <1>5, <2>1, <2>2, <2>3, <2>4, <2>5, <2>6, <2>7, <2>8, <2>9, PartsInv
          DEF QuietBoard

\* What the import of one item does to the board: nothing, or the first outcome, which is
\* the item's; and a verdict is given on what the board says, or on a worker that failed
\* before it could report.
LEMMA ImportOnBoard ==
    ASSUME BoardInv, VerdictsHold, NEW kind \in MessageKinds,
           NEW action \in {"completed", "failed", "rejected", "none"}, Import(kind, action)
    PROVE  /\ BoardInv'
           /\ FailedAtHome' => FailedAtHome
           /\ outbox[D] # "none" => outbox'[D] = outbox[D]
           /\ outbox'[D] \in {outbox[D], kind}
           /\ action \in {"completed", "failed"} =>
                  \/ outbox'[D] = OutcomeSettled(action)
                  \/ attachment.state \in Unreported
<1>1. CASE UNCHANGED board /\ action \in {"rejected", "none"}
  BY <1>1, BoardStays DEF QuietBoard
<1>2. CASE /\ kind \in {"succeeded", "failed"} /\ AlreadySettled(kind)
           /\ action = Verdict(kind) /\ UNCHANGED board
  <2>1. QuietBoard BY <1>2, BoardStays
  <2>2. /\ dispatch[D].status = action /\ task[Task] = action
        /\ dispatch[D].status = "completed" => action = "completed"
        /\ action \in {"completed", "failed"}
    BY <1>2 DEF AlreadySettled, Verdict
  <2>3. CASE action = "completed"
    BY <2>1, <2>2, <2>3 DEF BoardInv, HomeRow, OutcomeSettled, QuietBoard
  <2>4. CASE action = "failed"
    <3>1. dispatch[D].task = Task BY <2>2, <2>4, TheRow DEF Home!Exists
    <3>2. dispatch[D].lastFailure # "stalled"
      BY <1>2, <2>2, <2>4, <3>1 DEF AlreadySettled, Home!SettledByUnobservedPrompt
    <3>3. outbox[D] \in {"none", "failed"}
      BY <2>2, <2>4, TheRow DEF BoardInv, HomeRow
    <3>4. outbox[D] = "none" => attachment.state \in Unreported
      BY <2>2, <2>4, <3>2 DEF VerdictsHold, FailedAtHome
    <3> QED BY <2>1, <2>4, <3>3, <3>4 DEF QuietBoard, OutcomeSettled
  <2> QED BY <2>2, <2>3, <2>4
<1>3. CASE /\ kind \in {"succeeded", "failed"}
           /\ action = Verdict(kind) /\ Home!SettleWorkerReport(D, kind)
  <2>1. /\ BoardInv' /\ ~FailedAtHome' /\ outbox[D] = "none" /\ outbox'[D] = kind
    BY <1>3, ReportKeepsBoard
  <2> QED BY <1>3, <2>1 DEF Verdict, OutcomeSettled
<1> QED BY <1>1, <1>2, <1>3 DEF Import, SettleReport

LEMMA Appended ==
    ASSUME NEW S, NEW q \in Seq(S), NEW e \in S
    PROVE  /\ Append(q, e) \in Seq(S) /\ Len(Append(q, e)) = Len(q) + 1
           /\ Append(q, e)[Len(q) + 1] = e
           /\ \A i \in 1..Len(q) : Append(q, e)[i] = q[i]
OBVIOUS

\* The next item of the page: in the page's place in the queue, and either what the inbox
\* has there or what follows it.
LEMMA NextItem ==
    ASSUME RelayInv, sync.phase = "importing", sync.page # <<>>,
           Importable(sync.cursor + 1, Head(sync.page)),
           inbox' = Received(sync.cursor + 1, Head(sync.page))
    PROVE  /\ Head(sync.page) \in MessageKinds /\ Head(sync.page) = sync.page[1]
           /\ Tail(sync.page) \in Seq(MessageKinds)
           /\ Len(Tail(sync.page)) = Len(sync.page) - 1
           /\ \A i \in 1..Len(sync.page) - 1 : Tail(sync.page)[i] = sync.page[i + 1]
           /\ sync.cursor \in Nat /\ Len(sync.page) \in Nat /\ Len(sync.page) >= 1
           /\ sync.cursor + 1 <= MaxItems /\ sync.cursor + Len(sync.page) <= Len(items)
           /\ inbox' \in Seq(MessageKinds) /\ Len(inbox') \in Nat /\ Len(inbox) \in Nat
           /\ Len(inbox') >= Len(inbox) /\ Len(inbox') <= Len(items) /\ Len(items) <= MaxItems
           /\ sync.cursor + 1 <= Len(inbox') /\ inbox'[sync.cursor + 1] = Head(sync.page)
           /\ \A s \in 1..Len(inbox) : inbox'[s] = inbox[s]
           /\ \A s \in 1..Len(inbox') : s \in 1..Len(inbox) \/ s = sync.cursor + 1
<1> DEFINE kind == Head(sync.page)
           s == sync.cursor + 1
<1>1. /\ sync.page \in Seq(MessageKinds) /\ sync.cursor \in Nat /\ sync.cursor <= Len(inbox)
      /\ inbox \in Seq(MessageKinds) /\ items \in Seq(MessageKinds) /\ Len(items) <= MaxItems
      /\ sync.cursor + Len(sync.page) <= Len(items) /\ Len(inbox) <= Len(items)
      /\ MaxItems \in Nat
  BY InvParts, RelayAssumption DEF SyncRecords, Cursors, RelayedTyped, ServerTypeOK
<1>2. /\ kind \in MessageKinds /\ kind = sync.page[1]
      /\ Tail(sync.page) \in Seq(MessageKinds)
      /\ Len(Tail(sync.page)) = Len(sync.page) - 1
      /\ \A i \in 1..Len(sync.page) - 1 : Tail(sync.page)[i] = sync.page[i + 1]
      /\ Len(sync.page) \in Nat /\ Len(sync.page) >= 1
  BY <1>1
<1>3. s \in Nat /\ s <= Len(items) /\ s <= MaxItems /\ Len(items) \in Nat /\ Len(inbox) \in Nat
  BY <1>1, <1>2
<1>4. CASE s <= Len(inbox)
  <2>1. inbox' = inbox /\ inbox[s] = kind BY <1>1, <1>3, <1>4 DEF Received, Importable
  <2> QED BY <1>1, <1>2, <1>3, <1>4, <2>1
<1>5. CASE s > Len(inbox)
  <2>1. inbox' = Append(inbox, kind) /\ s = Len(inbox) + 1
    BY <1>1, <1>3, <1>5 DEF Received, Importable
  <2> HIDE DEF kind, s
  <2>2. /\ inbox' \in Seq(MessageKinds) /\ Len(inbox') = Len(inbox) + 1
        /\ inbox'[Len(inbox) + 1] = kind /\ \A q \in 1..Len(inbox) : inbox'[q] = inbox[q]
    <3>1. inbox \in Seq(MessageKinds) /\ kind \in MessageKinds BY <1>1, <1>2
    <3> QED BY ONLY <2>1, <3>1, Appended
  <2> QED BY <1>1, <1>2, <1>3, <2>1, <2>2 DEF kind, s
<1> QED BY <1>1, <1>3, <1>4, <1>5

LEMMA ConfirmedStays ==
    ASSUME NEW settled, Confirmed(settled), attachment' = attachment,
           outbox[D] # "none" => outbox'[D] = outbox[D]
    PROVE  Confirmed(settled)'
<1>1. \A s \in settled : OutcomeSettled(s.action) # "none" BY DEF OutcomeSettled
<1> QED BY <1>1 DEF Confirmed

LEMMA ImportItemKeeps == ASSUME RelayInv, ImportItem PROVE RelayInv'
<1> DEFINE kind == Head(sync.page)
           s == sync.cursor + 1
<1> USE InvParts
<1>1. /\ sync.phase = "importing" /\ sync.page # <<>> /\ Importable(s, kind)
      /\ inbox' = Received(s, kind)
      /\ UNCHANGED <<serverVars, calls, homeAcked, homeEpoch, checkpoint, post, wire>>
  BY DEF ImportItem
<1>2. PICK action \in {"completed", "failed", "rejected", "none"} :
          /\ Import(kind, action)
          /\ sync' = [sync EXCEPT !.cursor = s, !.page = Tail(@),
                 !.settled = IF action = "none" \/ ~LifecycleSettlement THEN @
                             ELSE @ \cup {[seq |-> s, action |-> action]}]
  BY DEF ImportItem
<1> DEFINE verdicts == IF action = "none" \/ ~LifecycleSettlement THEN sync.settled
                       ELSE sync.settled \cup {[seq |-> s, action |-> action]}
<1>3. /\ kind \in MessageKinds /\ kind = sync.page[1]
      /\ Tail(sync.page) \in Seq(MessageKinds)
      /\ Len(Tail(sync.page)) = Len(sync.page) - 1
      /\ \A i \in 1..Len(sync.page) - 1 : Tail(sync.page)[i] = sync.page[i + 1]
      /\ sync.cursor \in Nat /\ Len(sync.page) \in Nat /\ Len(sync.page) >= 1
      /\ s <= MaxItems /\ sync.cursor + Len(sync.page) <= Len(items)
      /\ inbox' \in Seq(MessageKinds) /\ Len(inbox') \in Nat /\ Len(inbox) \in Nat
      /\ Len(inbox') >= Len(inbox) /\ Len(inbox') <= Len(items) /\ Len(items) <= MaxItems
      /\ s <= Len(inbox') /\ inbox'[s] = kind
      /\ \A q \in 1..Len(inbox) : inbox'[q] = inbox[q]
      /\ \A q \in 1..Len(inbox') : q \in 1..Len(inbox) \/ q = s
  BY <1>1, NextItem
<1>4. /\ BoardInv' /\ (FailedAtHome' => FailedAtHome)
      /\ outbox[D] # "none" => outbox'[D] = outbox[D]
      /\ outbox'[D] \in {outbox[D], kind}
      /\ action \in {"completed", "failed"} =>
             outbox'[D] = OutcomeSettled(action) \/ attachment.state \in Unreported
  BY <1>2, <1>3, ImportOnBoard
<1>5. verdicts \in SUBSET Settlements
  BY <1>3, RelayAssumption DEF SyncRecords, Settlements, Sequences
<1>6. sync' = [sync EXCEPT !.cursor = s, !.page = Tail(sync.page), !.settled = verdicts]
  BY <1>2
<1>7. attachment' = attachment BY <1>1 DEF serverVars
<1>8. s \in 0..MaxItems BY <1>3, RelayAssumption
<1> HIDE DEF verdicts, kind
<1>9. /\ sync' \in SyncRecords
      /\ sync'.phase = "importing" /\ sync'.cursor = s /\ sync'.page = Tail(sync.page)
      /\ sync'.settled = verdicts /\ sync'.answer = "none"
  <2>1. sync \in SyncRecords /\ Tail(sync.page) \in Seq(MessageKinds) BY <1>3
  <2>2. sync.answer = "none" /\ sync.phase = "importing" BY <1>1 DEF Cursors
  <2> HIDE DEF s
  <2> QED BY ONLY <1>5, <1>6, <1>8, <2>1, <2>2 DEF SyncRecords
<1>10. ServerTypeOK' /\ PostTyped'
  BY <1>1 DEF serverVars, post, wire, ServerTypeOK, PostTyped
<1>11. RelayedTyped'
  <2>1. Len(inbox') <= MaxItems /\ inbox' \in Seq(MessageKinds)
    <3>1. MaxItems \in Nat /\ Len(items) \in Nat BY RelayAssumption DEF ServerTypeOK
    <3> QED BY <1>3, <3>1
  <2> QED BY <1>1, <2>1 DEF RelayedTyped
<1>12. CallsTyped' /\ AnswersHold' BY <1>1, <1>7, CallsStay
<1>13. Cursors'
  <2>1. acked \in Nat /\ \A r \in acks : r.through \in Nat
    BY DEF ServerTypeOK, PostTyped, AckRequests, Sequences
  <2>2. UNCHANGED <<items, acked, ackReceipt, homeAcked, acks>>
    BY <1>1 DEF serverVars, wire
  <2>3. sync'.cursor + Len(sync'.page) <= Len(items) /\ sync'.cursor <= Len(inbox')
    BY <1>3, <1>9
  <2>4. acked <= Len(inbox') /\ \A r \in acks : r.through <= Len(inbox')
    BY <1>3, <2>1 DEF Cursors
  <2>5. Len(inbox') <= Len(items) BY <1>3
  <2>6. sync'.phase = "importing" /\ sync'.answer = "none" BY <1>9
  <2> QED BY ONLY Cursors, <2>2, <2>3, <2>4, <2>5, <2>6 DEF Cursors
<1>14. MailCursors' BY <1>1, <1>9 DEF MailCursors, serverVars, post, wire
<1>15. Carried'
  <2>1. items' = items BY <1>1 DEF serverVars
  <2>2. ASSUME NEW q \in 1..Len(inbox') PROVE Carries(q, inbox'[q])
    <3>1. CASE q \in 1..Len(inbox) BY <1>3, <3>1 DEF Carried
    <3>2. CASE q = s
      <4>1. Carries(sync.cursor + 1, sync.page[1]) BY <1>1, <1>3 DEF Carried
      <4> QED BY <1>3, <3>2, <4>1
    <3> QED BY <1>3, <3>1, <3>2
  <2>3. ASSUME NEW i \in 1..Len(sync'.page) PROVE Carries(s + i, sync'.page[i])
    <3>1. i \in 1..Len(sync.page) - 1 /\ sync'.page[i] = Tail(sync.page)[i] BY <1>3, <1>9
    <3>2. i + 1 \in 1..Len(sync.page) /\ sync'.page[i] = sync.page[i + 1]
      BY <1>3, <3>1
    <3>3. s + i = sync.cursor + (i + 1)
      <4>1. i \in Nat /\ sync.cursor \in Nat BY <1>3, <3>1
      <4> QED BY ONLY <4>1
    <3> QED BY <1>1, <3>2, <3>3 DEF Carried
  <2> QED BY <1>9, <2>1, <2>2, <2>3 DEF Carried, Carries
<1>16. VerdictsHold'
  <2>1. \A r \in acks' : Confirmed(r.settled)'
    BY <1>1, <1>4, <1>7, ConfirmedStays DEF wire, VerdictsHold
  <2>2. Confirmed(sync.settled)'
    BY <1>4, <1>7, <1>9, ConfirmedStays DEF VerdictsHold, Confirmed, verdicts
  <2>3. AttachmentFollowsHome' BY <1>4, <1>7 DEF VerdictsHold, AttachmentFollowsHome
  <2> QED BY <1>4, <1>7, <2>1, <2>2, <2>3 DEF VerdictsHold
<1>17. ReportsJudged' BY <1>1, JudgedStays DEF serverVars
<1>18. OutcomeImported' BY <1>3, <1>4 DEF OutcomeImported
<1> QED BY <1>4, <1>9, <1>10, <1>11, <1>12, <1>13, <1>14, <1>15, <1>16, <1>17, <1>18, PartsInv

-----------------------------------------------------------------------------
(* The sync acknowledges what it imported, pushes the mail and goes on. *)

\* The sync asks for something: the acknowledgment of what the inbox holds, or that the
\* server imports mail the home has queued.
Asks ==
    /\ sync'.answer = "none" /\ sync'.settled = sync.settled
    /\ \/ sync'.phase = "acking" /\ sync'.cursor <= Len(inbox)
       \/ sync'.phase = "mailing" /\ sync'.last <= mail

LEMMA PageStep ==
    ASSUME RelayInv, UNCHANGED <<serverVars, board, calls, inbox, mail, faults>>,
           homeAcked' \in 0..acked, homeEpoch' \in 0..MaxEpochs, checkpoint' \in Watermarks,
           mailAcked' \in 0..mailImported,
           \A r \in acks' \ acks :
               r \in AckRequests /\ r.through <= Len(inbox) /\ r.settled = sync.settled,
           \A r \in imports' \ imports : r \in MailRequests /\ r.last <= mail,
           sync' \in SyncRecords, Fresh' \/ Asks
    PROVE  RelayInv'
<1> USE InvParts DEF serverVars
<1>1. ServerTypeOK' BY DEF ServerTypeOK
<1>2. QuietBoard BY BoardStays
<1>3. CallsTyped' /\ AnswersHold' BY CallsStay
<1>4. RelayedTyped'
  <2>1. homeAcked' \in 0..MaxItems BY RelayAssumption DEF ServerTypeOK
  <2> QED BY <2>1 DEF RelayedTyped, Watermarks
<1>5. PostTyped'
  <2>1. mailAcked' \in 0..MaxMail BY RelayAssumption DEF ServerTypeOK
  <2>2. acks' \subseteq AckRequests /\ imports' \subseteq MailRequests BY DEF PostTyped
  <2> QED BY <2>1, <2>2 DEF PostTyped
<1>6. Cursors'
  <2>1. acked \in Nat BY DEF ServerTypeOK
  <2>2. \A r \in acks' : r.through <= Len(inbox) BY DEF Cursors
  <2> QED BY <2>1, <2>2 DEF Cursors, Fresh, Asks
<1>7. MailCursors'
  <2>1. mailImported \in Nat BY DEF ServerTypeOK
  <2>2. \A r \in imports' : r.last <= mail BY DEF MailCursors
  <2> QED BY <2>1, <2>2 DEF MailCursors, Fresh, Asks
<1>8. Carried' BY DEF Carried, Carries, Fresh, Asks
<1>9. VerdictsHold'
  <2>1. \A settled : Confirmed(settled) => Confirmed(settled)' BY <1>2 DEF Confirmed, QuietBoard
  <2>2. \A r \in acks' : Confirmed(r.settled)' BY <2>1 DEF VerdictsHold
  <2>3. Confirmed(sync.settled)' BY <2>1 DEF VerdictsHold, Confirmed, Fresh, Asks
  <2>4. AttachmentFollowsHome' BY <1>2 DEF VerdictsHold, AttachmentFollowsHome, QuietBoard
  <2> QED BY <1>2, <2>2, <2>3, <2>4 DEF VerdictsHold, QuietBoard
<1>10. ReportsJudged' BY JudgedStays
<1>11. OutcomeImported' BY <1>2, OutcomeStays DEF QuietBoard
<1> QED BY <1>1, <1>2, <1>3, <1>4, <1>5, <1>6, <1>7, <1>8, <1>9, <1>10, <1>11, PartsInv
        DEF QuietBoard

LEMMA FinishedPage ==
    ASSUME sync \in SyncRecords, NEW known \in Watermarks, NEW mark \in Watermarks,
           FinishPage(known, mark)
    PROVE  sync' \in SyncRecords /\ Fresh' /\ checkpoint' \in Watermarks
<1>1. CASE sync.full /\ sync.pages > 1
  <2>1. sync.pages - 1 \in 0..MaxPages BY <1>1, HomeAssumption DEF SyncRecords
  <2>2. PullPage(sync.pages - 1, known) /\ checkpoint' = mark BY <1>1 DEF FinishPage
  <2> QED BY <2>1, <2>2, SyncPulls
<1>2. CASE ~(sync.full /\ sync.pages > 1)
  BY <1>2, EndedSync DEF FinishPage
<1> QED BY <1>1, <1>2

LEMMA ContinuedPage ==
    ASSUME RelayInv, UNCHANGED <<serverVars, board, calls, inbox, post, acks, faults>>,
           NEW known \in Watermarks, NEW mark \in Watermarks, known.through <= acked,
           ContinuePage(known, mark)
    PROVE  RelayInv'
<1> USE InvParts
<1>1. /\ homeEpoch' = known.epoch /\ homeAcked' = known.through
      /\ homeEpoch' \in 0..MaxEpochs /\ homeAcked' \in 0..acked
  BY RelayAssumption DEF ContinuePage, Watermarks, ServerTypeOK
<1>2. mailAcked' \in 0..mailImported /\ mail' = mail
  BY DEF post, PostTyped, MailCursors, ServerTypeOK
<1>3. CASE worker[D] = "ready" /\ PendingMail # {}
  <2> DEFINE request == [first |-> mailAcked + 1, last |-> mail]
  <2>1. /\ sync' = [sync EXCEPT !.phase = "mailing", !.answer = "none", !.last = mail]
        /\ imports' = imports \cup {request} /\ checkpoint' = mark
    BY <1>3 DEF ContinuePage
  <2>2. mail \in 0..MaxMail /\ mailAcked + 1 \in 1..MaxMail /\ mail \in 1..MaxMail
    BY <1>3, RelayAssumption DEF PendingMail, PostTyped
  <2>3. request \in MailRequests /\ request.last <= mail BY <2>2 DEF MailRequests
  <2>4. sync' \in SyncRecords BY <2>1, <2>2 DEF SyncRecords
  <2>5. Asks BY <2>1, <2>2 DEF Asks, SyncRecords
  <2> HIDE DEF request
  <2>6. \A r \in imports' \ imports : r \in MailRequests /\ r.last <= mail BY <2>1, <2>3
  <2> QED BY <1>1, <1>2, <2>1, <2>4, <2>5, <2>6, PageStep
<1>4. CASE ~(worker[D] = "ready" /\ PendingMail # {})
  <2>1. FinishPage(known, mark) /\ imports' = imports BY <1>4 DEF ContinuePage
  <2> QED BY <1>1, <1>2, <2>1, FinishedPage, PageStep
<1> QED BY <1>3, <1>4

LEMMA FinishImportKeeps == ASSUME RelayInv, FinishImport PROVE RelayInv'
<1> USE InvParts
<1>1. /\ sync.phase = "importing" /\ UNCHANGED <<serverVars, board, calls, post, faults>>
      /\ inbox' = inbox
  BY DEF FinishImport, relayed
<1>2. checkpoint \in Watermarks BY DEF RelayedTyped, Watermarks
<1>3. CASE acks' = acks /\ ContinuePage(Known, checkpoint)
  <2>1. Known.through <= acked BY DEF Known, Cursors
  <2> QED BY <1>1, <1>2, <1>3, <2>1, KnownTyped, ContinuedPage
<1>4. CASE /\ acks' = acks \cup {[through |-> sync.cursor, settled |-> sync.settled]}
           /\ sync' = [sync EXCEPT !.phase = "acking"]
           /\ UNCHANGED <<relayed, imports>>
           /\ sync.cursor > 0
  <2> DEFINE request == [through |-> sync.cursor, settled |-> sync.settled]
  <2>1. sync.cursor \in Sequences BY <1>4 DEF SyncRecords, Sequences
  <2>2. request \in AckRequests /\ request.settled = sync.settled
    BY <2>1 DEF AckRequests, SyncRecords
  <2>3. request.through <= Len(inbox) BY <1>1 DEF Cursors
  <2> HIDE DEF request
  <2>4. \A r \in acks' \ acks :
            r \in AckRequests /\ r.through <= Len(inbox) /\ r.settled = sync.settled
    BY <1>4, <2>2, <2>3 DEF request
  <2>5. sync' \in SyncRecords /\ Asks
    BY <1>1, <1>4 DEF SyncRecords, Asks, Cursors
  <2>6. /\ homeAcked' \in 0..acked /\ homeEpoch' \in 0..MaxEpochs /\ checkpoint' \in Watermarks
        /\ mailAcked' \in 0..mailImported /\ mail' = mail
    BY <1>1, <1>2, <1>4
       DEF relayed, post, RelayedTyped, PostTyped, Cursors, MailCursors, ServerTypeOK
  <2> QED BY <1>1, <1>4, <2>4, <2>5, <2>6, PageStep
<1> QED
  <2> DEFINE marked == IF checkpoint.epoch = sync.epoch THEN checkpoint.through ELSE 0
             durable == IF sync.known.epoch = sync.epoch THEN sync.known.through ELSE 0
  <2>1. Larger(marked, durable) >= 0 /\ Larger(marked, durable) \in Int
    BY <1>2 DEF Larger, Watermarks, SyncRecords
  <2>2. sync.cursor \in Int BY DEF SyncRecords
  <2>3. sync.cursor > Larger(marked, durable) => sync.cursor > 0 BY <2>1, <2>2
  <2> QED BY <1>3, <1>4, <2>3 DEF FinishImport
\* What the answer lets the home record, in its row and in its memory, the server holds
\* acknowledged.
LEMMA RecordedIsAcknowledged ==
    ASSUME RelayInv, sync.phase = "acking", sync.answer = "ok"
    PROVE  /\ RecordFederatedHomeAcknowledgment(LocallyAcknowledged) \in Watermarks
           /\ RecordFederatedHomeAcknowledgment(LocallyAcknowledged).through <= acked
           /\ RecordFederationAckCheckpoint(LocallyAcknowledged) \in Watermarks
<1> DEFINE through == LocallyAcknowledged
<1> USE InvParts
<1>1. sync.cursor \in 0..MaxItems /\ sync.cursor <= acked /\ acked \in Nat
  BY DEF SyncRecords, Cursors, ServerTypeOK
<1>2. through \in 0..MaxItems /\ through <= acked
  BY <1>1, RelayAssumption DEF LocallyAcknowledged, Larger
<1>3. homeAcked \in 0..MaxItems /\ homeAcked <= acked BY DEF RelayedTyped, Cursors
<1>4. sync.epoch \in 0..MaxEpochs /\ checkpoint \in Watermarks
  BY DEF SyncRecords, RelayedTyped
<1> HIDE DEF through
<1>5. Larger(homeAcked, through) \in 0..MaxItems /\ Larger(homeAcked, through) <= acked
  BY <1>1, <1>2, <1>3 DEF Larger
<1>6. RecordFederatedHomeAcknowledgment(through) \in Watermarks
      /\ RecordFederatedHomeAcknowledgment(through).through <= acked
  BY <1>2, <1>4, <1>5 DEF RecordFederatedHomeAcknowledgment, Watermarks
<1>7. RecordFederationAckCheckpoint(through) \in Watermarks
  BY <1>2, <1>4 DEF RecordFederationAckCheckpoint, Watermarks
<1> QED BY <1>6, <1>7 DEF through

LEMMA RefusedKeeps ==
    ASSUME RelayInv, EndSync(homeAcked, checkpoint),
           UNCHANGED <<serverVars, board, calls, inbox, homeAcked, homeEpoch, post, wire>>
    PROVE  RelayInv'
<1>1. checkpoint \in Watermarks BY InvParts DEF RelayedTyped
<1>2. CallsTyped' /\ AnswersHold' BY CallsStay DEF serverVars
<1>3. mail \in mail..MaxMail BY InvParts, RelayAssumption DEF PostTyped
<1> QED BY <1>1, <1>2, <1>3, EndedSync, InvParts, SyncStops DEF post, wire, PostTyped

LEMMA AckAnsweredKeeps == ASSUME RelayInv, AckAnswered PROVE RelayInv'
<1>1. CASE sync.answer = "ok"
  <2> DEFINE known == RecordFederatedHomeAcknowledgment(LocallyAcknowledged)
             mark == RecordFederationAckCheckpoint(LocallyAcknowledged)
  <2>1. /\ ContinuePage(known, mark) /\ sync.phase = "acking"
        /\ UNCHANGED <<serverVars, board, calls, inbox, post, acks, faults>>
    BY <1>1 DEF AckAnswered
  <2>2. known \in Watermarks /\ known.through <= acked /\ mark \in Watermarks
    BY <1>1, <2>1, RecordedIsAcknowledged
  <2> HIDE DEF known, mark
  <2> QED BY <2>1, <2>2, ContinuedPage
<1>2. CASE sync.answer # "ok"
  BY <1>2, RefusedKeeps DEF AckAnswered, wire
<1> QED BY <1>1, <1>2

LEMMA MailAnsweredKeeps == ASSUME RelayInv, MailAnswered PROVE RelayInv'
<1> USE InvParts
<1>1. CASE sync.answer = "ok"
  <2>1. /\ mailAcked' = Larger(mailAcked, sync.last) /\ FinishPage(Known, checkpoint)
        /\ UNCHANGED <<serverVars, board, calls, inbox, homeAcked, homeEpoch, mail, wire>>
        /\ sync.phase = "mailing"
    BY <1>1 DEF MailAnswered
  <2>2. checkpoint \in Watermarks BY DEF RelayedTyped
  <2>3. sync' \in SyncRecords /\ Fresh' /\ checkpoint' \in Watermarks
    BY <2>1, <2>2, KnownTyped, FinishedPage
  <2>4. mailAcked' \in 0..mailImported
    BY <1>1, <2>1 DEF Larger, MailCursors, PostTyped, SyncRecords, ServerTypeOK
  <2>5. homeAcked' \in 0..acked /\ homeEpoch' \in 0..MaxEpochs
    BY <2>1 DEF RelayedTyped, Cursors, ServerTypeOK
  <2>6. acks' = acks /\ imports' = imports /\ faults' = faults BY <2>1 DEF wire
  <2> QED BY <2>1, <2>3, <2>4, <2>5, <2>6, PageStep
<1>2. CASE sync.answer # "ok"
  BY <1>2, RefusedKeeps DEF MailAnswered, post
<1> QED BY <1>1, <1>2
-----------------------------------------------------------------------------
(* The server's steps.  No board changes, and an attachment that has ended stays so. *)

EndStays ==
    attachment.state \in Ended \cup {"refused"} => attachment'.state = attachment.state

LEMMA ServerChanges ==
    ASSUME RelayInv, UNCHANGED <<board, relayed, post, faults>>, ServerTypeOK', EndStays,
           CallsTyped', AnswersHold', acks' \subseteq acks, imports' \subseteq imports,
           sync' \in SyncRecords, sync'.settled = sync.settled,
           Cursors', MailCursors', Carried', AttachmentFollowsHome', ReportsJudged'
    PROVE  RelayInv'
<1> USE InvParts
<1>1. QuietBoard BY BoardStays
<1>2. RelayedTyped' /\ PostTyped' BY DEF relayed, post, RelayedTyped, PostTyped
<1>3. VerdictsHold'
  <2>1. \A settled : Confirmed(settled) => Confirmed(settled)'
    BY <1>1 DEF Confirmed, QuietBoard, EndStays, Unreported, Ended
  <2>2. \A r \in acks' : Confirmed(r.settled)' BY <2>1 DEF VerdictsHold
  <2>3. Confirmed(sync.settled)' BY <2>1 DEF VerdictsHold, Confirmed
  <2>4. FailedAtHome' => attachment'.state \in Unreported
    BY <1>1 DEF QuietBoard, VerdictsHold, EndStays, Unreported, Ended
  <2> QED BY <2>2, <2>3, <2>4 DEF VerdictsHold
<1>4. OutcomeImported' BY <1>1, OutcomeStays DEF QuietBoard, relayed
<1> QED BY <1>1, <1>2, <1>3, <1>4, PartsInv DEF QuietBoard

LEMMA Replied ==
    ASSUME RelayInv, NEW op \in {"start", "stop"}, NEW state \in AttachmentStates \cup {"throws"},
           Reply(op, state), sent' \subseteq sent, EndStays,
           op = "start" /\ state \in {"refused", "failed_start"} => attachment'.state = state
    PROVE  CallsTyped' /\ AnswersHold'
<1>1. CASE call[op].state = "waiting"
  <2>1. Answer(state) \in [state : AttachmentStates \cup {"waiting", "throws"},
                           epoch : 0..MaxEpochs]
    BY InvParts, RelayAssumption DEF Answer, ServerTypeOK
  <2>2. call' = [call EXCEPT ![op] = Answer(state)] BY <1>1 DEF Reply
  <2>3. CallsTyped' BY <2>1, <2>2, InvParts DEF CallsTyped
  <2>4. \A d \in {"start", "stop", "show"} :
            call'[d].state = IF d = op THEN state ELSE call[d].state
    BY <2>2, InvParts DEF CallsTyped, Answer
  <2>5. AnswersHold' BY <2>4, InvParts DEF AnswersHold, EndStays, Ended
  <2> QED BY <2>3, <2>5
<1>2. CASE call[op].state # "waiting"
  BY <1>2, InvParts DEF Reply, CallsTyped, AnswersHold, EndStays, Ended
<1> QED BY <1>1, <1>2

LEMMA NoReply ==
    ASSUME RelayInv, call' = call, sent' \subseteq sent, EndStays
    PROVE  CallsTyped' /\ AnswersHold'
BY InvParts DEF CallsTyped, AnswersHold, EndStays, Ended

\* The handlers that start and stop the worker write the attachment alone, and never
\* that it succeeded or failed.
AttachmentMoves ==
    /\ UNCHANGED <<items, acked, ackReceipt, mailImported, mailReceipt, epoch>>
    /\ attachment' \in [state : AttachmentStates, live : BOOLEAN]
    /\ EndStays
    /\ attachment'.state \in {"succeeded", "failed"} => attachment.state = attachment'.state

LEMMA AttachmentMoved ==
    ASSUME RelayInv, AttachmentMoves, OnlyAttachment, CallsTyped', AnswersHold'
    PROVE  RelayInv'
<1> USE InvParts
<1>1. UNCHANGED <<board, relayed, post, sync, wire>> /\ StillOrFresh
  BY DEF OnlyAttachment, StillOrFresh
<1>2. ServerTypeOK' BY DEF AttachmentMoves, ServerTypeOK
<1>3. Cursors' BY <1>1, CursorsStay
                  DEF AttachmentMoves, ServerTypeOK, RelayedTyped, relayed, wire
<1>4. MailCursors' BY <1>1, MailStays DEF AttachmentMoves, post, wire
<1>5. Carried' BY <1>1, CarriedStays DEF AttachmentMoves, relayed
<1>6. AttachmentFollowsHome'
  BY <1>1 DEF AttachmentMoves, VerdictsHold, AttachmentFollowsHome, board
<1>7. ReportsJudged' BY JudgedStays DEF AttachmentMoves, EndStays, Ended
<1> QED BY <1>1, <1>2, <1>3, <1>4, <1>5, <1>6, <1>7, ServerChanges
        DEF AttachmentMoves, wire

LEMMA AttachedMoves ==
    ASSUME NEW state \in AttachmentStates \ {"succeeded", "failed"}, NEW live \in BOOLEAN,
           Attached(state, live), attachment.state \notin Ended \cup {"refused"}
    PROVE  AttachmentMoves /\ attachment'.state = state
BY DEF Attached, AttachmentMoves, EndStays

LEMMA AttachStepKeeps == ASSUME RelayInv, AttachStep PROVE RelayInv'
<1>1. sent' \subseteq sent /\ OnlyAttachment BY DEF AttachStep
<1>2. PICK state \in {"refused", "starting", "attached", "ready", "failed_start", "start_unknown"},
           live \in BOOLEAN :
          /\ Attached(state, live) /\ attachment.state \in {"none", "starting", "attached"}
          /\ call' = call \/ Reply("start", state)
  <2>1. CASE RefuseAttachment /\ Reply("start", "refused") BY <2>1 DEF RefuseAttachment
  <2>2. CASE CreateRemoteDispatchAttachment /\ call' = call
    BY <2>2 DEF CreateRemoteDispatchAttachment
  <2>3. CASE PrepareRemoteAttachmentAuthority /\ call' = call
    BY <2>3 DEF PrepareRemoteAttachmentAuthority
  <2>4. CASE MarkRemoteAttachmentReady /\ Reply("start", "ready")
    BY <2>4 DEF MarkRemoteAttachmentReady
  <2>5. CASE FailRemoteAttachment(FALSE) /\ Reply("start", "failed_start")
    BY <2>5 DEF FailRemoteAttachment
  <2>6. CASE FailRemoteAttachment(TRUE) /\ Reply("start", "start_unknown")
    BY <2>6 DEF FailRemoteAttachment
  <2> QED BY <2>1, <2>2, <2>3, <2>4, <2>5, <2>6 DEF AttachStep
<1>3. AttachmentMoves /\ attachment'.state = state /\ EndStays
  BY <1>2, AttachedMoves DEF AttachmentStates, Ended, AttachmentMoves
<1>4. CallsTyped' /\ AnswersHold'
  BY <1>1, <1>2, <1>3, NoReply, Replied DEF AttachmentStates
<1> QED BY <1>1, <1>3, <1>4, AttachmentMoved

LEMMA StopStepKeeps == ASSUME RelayInv, StopStep PROVE RelayInv'
<1>1. sent' \subseteq sent /\ OnlyAttachment BY DEF StopStep
<1>2. \/ UNCHANGED serverVars
      \/ \E state \in {"stopping", "stopped", "stop_unknown"}, live \in BOOLEAN :
             /\ Attached(state, live)
             /\ attachment.state \in {"ready", "start_unknown", "stopping"}
  <2>1. CASE \E begun \in BOOLEAN : BeginRemoteAttachmentStop(begun)
    BY <2>1 DEF BeginRemoteAttachmentStop
  <2>2. CASE SettleRemoteAttachmentStop BY <2>2 DEF SettleRemoteAttachmentStop
  <2>3. CASE MarkRemoteAttachmentStopUnknown BY <2>3 DEF MarkRemoteAttachmentStopUnknown
  <2> QED BY <2>1, <2>2, <2>3 DEF StopStep
<1>3. AttachmentMoves /\ EndStays
  <2>1. CASE UNCHANGED serverVars
    BY <2>1, InvParts DEF AttachmentMoves, EndStays, serverVars, ServerTypeOK
  <2>2. CASE \E state \in {"stopping", "stopped", "stop_unknown"}, live \in BOOLEAN :
             /\ Attached(state, live)
             /\ attachment.state \in {"ready", "start_unknown", "stopping"}
    BY <2>2, AttachedMoves DEF AttachmentStates, Ended, AttachmentMoves
  <2> QED BY <1>2, <2>1, <2>2
<1>4. \/ call' = call
      \/ \E state \in AttachmentStates \cup {"throws"} : Reply("stop", state)
  BY InvParts DEF StopStep, ServerTypeOK, AttachmentStates
<1>5. CallsTyped' /\ AnswersHold' BY <1>1, <1>3, <1>4, NoReply, Replied
<1> QED BY <1>1, <1>3, <1>5, AttachmentMoved

-----------------------------------------------------------------------------
(* The worker's message takes the next place of the queue, or a heartbeat's. *)

\* Nothing in the queue is lost but an unacknowledged heartbeat a report replaces.
LEMMA QueueGrows ==
    ASSUME ServerTypeOK, NEW kind \in MessageKinds, Len(items) < MaxItems, Queued(kind)
    PROVE  /\ items' \in Seq(MessageKinds) /\ Len(items') <= MaxItems
           /\ Len(items') >= Len(items)
           /\ \A s \in 1..acked : items'[s] = items[s]
           /\ \A s \in 1..Len(items) :
                  \/ items'[s] = items[s]
                  \/ items[s] = "heartbeat" /\ items'[s] \in Reports
<1>1. /\ items \in Seq(MessageKinds) /\ Len(items) \in Nat /\ acked \in 0..Len(items)
      /\ MaxItems \in Nat /\ Quota \in Nat
  BY RelayAssumption DEF ServerTypeOK
<1>2. CASE items' = Append(items, kind)
  <2>1. /\ items' \in Seq(MessageKinds) /\ Len(items') = Len(items) + 1
        /\ \A s \in 1..Len(items) : items'[s] = items[s]
    BY ONLY <1>1, <1>2, kind \in MessageKinds, Appended
  <2> QED BY <1>1, <2>1
<1>3. CASE /\ Len(items) - acked >= Quota /\ kind \in Reports
           /\ \E oldest \in UnackedHeartbeats : items' = [items EXCEPT ![oldest] = kind]
  <2>1. PICK oldest \in UnackedHeartbeats : items' = [items EXCEPT ![oldest] = kind] BY <1>3
  <2>2. /\ oldest \in 1..Len(items) /\ oldest > acked /\ items[oldest] = "heartbeat"
    BY <1>1, <2>1 DEF UnackedHeartbeats, Unacked
  <2>4. items' \in Seq(MessageKinds) /\ Len(items') = Len(items) BY <1>1, <2>1, <2>2
  <2>5. \A s \in 1..Len(items) : items'[s] = IF s = oldest THEN kind ELSE items[s]
    BY <1>1, <2>1, <2>2
  <2> QED BY <1>1, <1>3, <2>2, <2>4, <2>5
<1> QED BY <1>2, <1>3 DEF Queued

LEMMA WorkerSendsKeeps == ASSUME RelayInv, WorkerSends PROVE RelayInv'
<1> USE InvParts
<1>1. PICK kind \in MessageKinds : EnqueueFederationRelay(kind) BY DEF WorkerSends
<1>2. /\ attachment.state \in {"attached", "ready"} /\ Len(items) < MaxItems /\ Queued(kind)
      /\ \/ attachment' = attachment
         \/ ~LifecycleSettlement /\ attachment' = [state |-> OutcomeOf(kind), live |-> FALSE]
      /\ UNCHANGED <<acked, ackReceipt, mailImported, mailReceipt, epoch>>
  BY <1>1 DEF EnqueueFederationRelay
<1>3. UNCHANGED <<board, calls, relayed, post, sync, wire>> /\ StillOrFresh
  BY DEF WorkerSends, StillOrFresh
<1>4. /\ items' \in Seq(MessageKinds) /\ Len(items') <= MaxItems
      /\ Len(items') >= Len(items)
      /\ \A s \in 1..acked : items'[s] = items[s]
      /\ \A s \in 1..Len(items) :
             \/ items'[s] = items[s]
             \/ items[s] = "heartbeat" /\ items'[s] \in Reports
  BY <1>2, QueueGrows
<1>5. EndStays BY <1>2 DEF EndStays, Ended
<1>6. attachment' \in [state : AttachmentStates, live : BOOLEAN]
  <2>1. OutcomeOf(kind) \in AttachmentStates BY DEF OutcomeOf, AttachmentStates
  <2>2. attachment \in [state : AttachmentStates, live : BOOLEAN] BY DEF ServerTypeOK
  <2>3. CASE attachment' = attachment BY ONLY <2>2, <2>3
  <2>4. CASE attachment' = [state |-> OutcomeOf(kind), live |-> FALSE] BY ONLY <2>1, <2>4
  <2> QED BY <1>2, <2>3, <2>4
<1>7. acked \in 0..Len(items') BY <1>4 DEF ServerTypeOK
<1>8. ServerTypeOK' BY <1>2, <1>4, <1>6, <1>7 DEF ServerTypeOK
<1>9. CallsTyped' /\ AnswersHold' BY <1>3, <1>5, NoReply DEF calls
<1>10. Cursors' BY <1>2, <1>3, <1>4, CursorsStay DEF ServerTypeOK, RelayedTyped, relayed, wire
<1>11. MailCursors' BY <1>2, <1>3, MailStays DEF post, wire
<1>12. Carried'
  <2>1. ASSUME NEW s \in 1..Len(items), NEW k, Carries(s, k) PROVE Carries(s, k)'
    <3>1. CASE items[s] = k BY <1>4, <2>1, <3>1 DEF Carries
    <3>2. CASE k = "heartbeat" /\ items[s] \in Reports
      <4>1. items[s] # "heartbeat" BY <3>2 DEF Reports
      <4>2. items'[s] = items[s] BY <1>4, <4>1
      <4>3. Carries(s, k)' <=> \/ items'[s] = k
                               \/ k = "heartbeat" /\ items'[s] \in Reports
        BY DEF Carries
      <4> QED BY <3>2, <4>2, <4>3
    <3> QED BY <2>1, <3>1, <3>2 DEF Carries
  <2>2. Len(inbox) \in Nat /\ Len(items) \in Nat /\ Len(inbox) <= Len(items)
    BY DEF Cursors, RelayedTyped, ServerTypeOK
  <2>5. inbox' = inbox /\ sync' = sync BY <1>3 DEF relayed
  <2>3. ASSUME NEW s \in 1..Len(inbox) PROVE Carries(s, inbox[s])'
    <3>1. Carries(s, inbox[s]) /\ s \in 1..Len(items) BY <2>2 DEF Carried
    <3> QED BY <2>1, <2>5, <3>1
  <2>4. ASSUME sync.phase = "importing", NEW i \in 1..Len(sync.page)
        PROVE  Carries(sync.cursor + i, sync.page[i])'
    <3>1. sync.cursor \in Nat /\ Len(sync.page) \in Nat
      <4>1. sync.page \in Seq(MessageKinds) /\ sync.cursor \in 0..MaxItems
        BY ONLY sync \in SyncRecords DEF SyncRecords
      <4> QED BY ONLY <4>1, RelayAssumption
    <3>4. sync.cursor + Len(sync.page) <= Len(items) BY <2>4 DEF Cursors
    <3>2. sync.cursor + i \in 1..Len(items)
      <4>1. Len(items) \in Nat BY <2>2
      <4> QED BY ONLY <3>1, <3>4, <4>1
    <3>3. Carries(sync.cursor + i, sync.page[i]) BY <2>4 DEF Carried
    <3> QED BY <2>1, <2>5, <3>2, <3>3
  <2> QED BY <2>3, <2>4, <2>5 DEF Carried
<1>13. AttachmentFollowsHome' BY <1>2, <1>3 DEF VerdictsHold, AttachmentFollowsHome, board
<1>14. ReportsJudged' BY <1>2, <1>4, JudgedStays
<1> QED BY <1>3, <1>5, <1>8, <1>9, <1>10, <1>11, <1>12, <1>13, <1>14, ServerChanges DEF wire

-----------------------------------------------------------------------------
(* The server takes an acknowledgment. *)

\* The one verdict of an acknowledgment the server accepts is the home's, and the
\* attachment is ready for it or has it already.
LEMMA VerdictTaken ==
    ASSUME RelayInv, NEW r \in acks, AckAccepted(r.through, r.settled)
    PROVE  /\ SettledBy(r.settled) \in [state : AttachmentStates, live : BOOLEAN]
           /\ SettledBy(r.settled).state = attachment.state
                \/ /\ attachment.state = "ready"
                   /\ SettledBy(r.settled).state \in {"succeeded", "failed"}
                   /\ outbox[D] = SettledBy(r.settled).state
           /\ \A v \in Verdicts(r.settled) : SettledBy(r.settled).state = v
<1> USE InvParts
<1>1. CASE Verdicts(r.settled) = {} BY <1>1 DEF SettledBy, ServerTypeOK
<1>2. CASE Verdicts(r.settled) # {}
  <2> DEFINE verdict == CHOOSE v \in Verdicts(r.settled) : TRUE
  <2>1. SettledBy(r.settled) = [state |-> verdict, live |-> FALSE] BY <1>2 DEF SettledBy
  <2>2. verdict \in Verdicts(r.settled) BY <1>2
  <2> HIDE DEF verdict
  <2>3. PICK s \in r.settled : s.action # "rejected" /\ verdict = OutcomeSettled(s.action)
    BY <2>2 DEF Verdicts
  <2>4. verdict \in {"succeeded", "failed"} BY <2>3 DEF OutcomeSettled
  <2>5. attachment.state \in {"ready", verdict} /\ \A v \in Verdicts(r.settled) : verdict = v
    BY <2>2 DEF AckAccepted
  <2>6. outbox[D] = verdict
    <3>1. Confirmed(r.settled) BY DEF VerdictsHold
    <3>2. attachment.state \notin Unreported BY <2>4, <2>5 DEF Unreported
    <3> QED BY <2>3, <3>1, <3>2 DEF Confirmed
  <2> QED BY <2>1, <2>4, <2>5, <2>6 DEF AttachmentStates
<1> QED BY <1>1, <1>2

LEMMA AckTaken ==
    ASSUME RelayInv, NEW r \in acks, AckAccepted(r.through, r.settled),
           NEW state \in {"pending", "completed"}, ackReceipt[r.through].state = "none",
           acked' = Larger(acked, r.through), UNCHANGED <<items, board>>,
           attachment' \in [state : AttachmentStates, live : BOOLEAN],
           attachment'.state = SettledBy(r.settled).state,
           ackReceipt' = [ackReceipt EXCEPT ![r.through] =
                             [state |-> state, settled |-> r.settled]]
    PROVE  /\ acked' \in acked..Len(inbox) /\ r.through <= acked' /\ acked' \in 0..Len(items)
           /\ ackReceipt' \in [Sequences ->
                  [state : {"none", "pending", "completed"}, settled : SUBSET Settlements]]
           /\ \A t \in Sequences : t # r.through => ackReceipt'[t] = ackReceipt[t]
           /\ EndStays /\ AttachmentFollowsHome' /\ ReportsJudged'
<1> USE InvParts
<1>1. /\ r.through \in Sequences /\ r.settled \in SUBSET Settlements
      /\ r.through \in Nat /\ r.through <= Len(inbox)
  BY DEF PostTyped, AckRequests, Cursors, Sequences
<1>2. acked \in Nat /\ Len(inbox) \in Nat /\ Len(items) \in Nat
      /\ acked <= Len(inbox) /\ Len(inbox) <= Len(items)
  BY DEF ServerTypeOK, RelayedTyped, Cursors
<1>3. acked' \in acked..Len(inbox) /\ r.through <= acked' /\ acked' \in 0..Len(items)
  BY <1>1, <1>2 DEF Larger
<1>4. ackReceipt \in [Sequences ->
          [state : {"none", "pending", "completed"}, settled : SUBSET Settlements]]
  BY DEF ServerTypeOK
<1>5. /\ ackReceipt' \in [Sequences ->
             [state : {"none", "pending", "completed"}, settled : SUBSET Settlements]]
      /\ \A t \in Sequences : t # r.through => ackReceipt'[t] = ackReceipt[t]
      /\ ackReceipt'[r.through].state = state /\ ackReceipt'[r.through].settled = r.settled
  BY <1>1, <1>4
<1>6. /\ attachment'.state = attachment.state
           \/ /\ attachment.state = "ready"
              /\ attachment'.state \in {"succeeded", "failed"}
              /\ outbox[D] = attachment'.state
      /\ \A v \in Verdicts(r.settled) : attachment'.state = v
  BY VerdictTaken
<1>7. EndStays BY <1>6 DEF EndStays, Ended
<1>8. AttachmentFollowsHome' BY <1>6 DEF AttachmentFollowsHome, VerdictsHold, board
<1>9. ASSUME NEW t \in Sequences, ackReceipt'[t].state = "none"
      PROVE  ackReceipt'[t].settled = {}
  BY <1>5, <1>9 DEF ReportsJudged
<1>10. ASSUME LifecycleSettlement, NEW s \in 1..acked', items[s] \in Reports
       PROVE  Judged(s)'
  <2>1. CASE s <= acked
    <3>1. s \in 1..acked BY <1>2, <1>3, <2>1
    <3>2. PICK through \in Sequences, action \in {"completed", "failed", "rejected"} :
              /\ [seq |-> s, action |-> action] \in ackReceipt[through].settled
              /\ action = "rejected" \/ attachment.state = OutcomeOf(items[s])
      BY <1>10, <3>1 DEF ReportsJudged, Judged
    <3>3. through # r.through BY <3>2 DEF ReportsJudged
    <3>4. [seq |-> s, action |-> action] \in ackReceipt'[through].settled
      BY <1>5, <3>2, <3>3
    <3>5. action = "rejected" \/ attachment'.state = OutcomeOf(items[s])
      BY <1>6, <3>2 DEF OutcomeOf
    <3> QED BY <3>4, <3>5 DEF Judged
  <2>2. CASE s > acked
    <3>1. s \in acked + 1 .. r.through BY <1>1, <1>2, <1>3, <2>2 DEF Larger
    <3>2. PICK x \in r.settled : x.seq = s BY <1>10, <3>1 DEF AckAccepted
    <3>3. x = [seq |-> s, action |-> x.action] /\ x.action \in {"completed", "failed", "rejected"}
      BY <1>1, <3>2 DEF Settlements
    <3>4. x.action # "rejected" =>
              /\ OutcomeSettled(x.action) = OutcomeOf(items[s])
              /\ OutcomeSettled(x.action) \in Verdicts(r.settled)
      BY <3>2 DEF AckAccepted, Verdicts
    <3>5. x.action = "rejected" \/ attachment'.state = OutcomeOf(items[s]) BY <1>6, <3>4
    <3>6. [seq |-> s, action |-> x.action] \in ackReceipt'[r.through].settled
      BY <1>5, <3>3
    <3> QED BY <1>1, <3>3, <3>5, <3>6 DEF Judged
  <2> QED BY <1>2, <1>3, <2>1, <2>2
<1>11. ReportsJudged' BY <1>9, <1>10 DEF ReportsJudged
<1> QED BY <1>3, <1>5, <1>7, <1>8, <1>11

\* What handling an acknowledgment leaves true, whether or not it is recorded.
AckHandled(through) ==
    /\ UNCHANGED <<items, mailImported, mailReceipt>>
    /\ acked' \in acked..Len(inbox) /\ acked' \in 0..Len(items)
    /\ attachment' \in [state : AttachmentStates, live : BOOLEAN]
    /\ ackReceipt' \in [Sequences ->
           [state : {"none", "pending", "completed"}, settled : SUBSET Settlements]]
    /\ \A t \in Sequences : ackReceipt'[t].state = "completed" => t <= acked'
    /\ epoch' \in 1..MaxEpochs
    /\ EndStays /\ AttachmentFollowsHome' /\ ReportsJudged'

LEMMA AnsweredSync ==
    ASSUME sync \in SyncRecords, NEW waits, NEW reply \in {"ok", "refused"},
           Answered(waits, reply)
    PROVE  /\ sync' \in SyncRecords
           /\ sync'.phase = sync.phase /\ sync'.cursor = sync.cursor /\ sync'.page = sync.page
           /\ sync'.settled = sync.settled /\ sync'.last = sync.last
           /\ sync'.answer = sync.answer \/ (waits /\ sync'.answer = reply)
<1>1. CASE sync' = sync BY <1>1
<1>2. CASE waits /\ sync' = [sync EXCEPT !.answer = reply]
  BY <1>2 DEF SyncRecords
<1> QED BY <1>1, <1>2 DEF Answered

LEMMA AckHandledKeeps ==
    ASSUME RelayInv, NEW r \in acks, NEW waits, NEW reply \in {"ok", "refused"},
           AckHandled(r.through), reply = "ok" /\ waits => r.through <= acked',
           waits => AwaitedAck(r),
           Answered(waits, reply) \/ sync' = sync,
           acks' \subseteq acks, UNCHANGED <<board, calls, relayed, post, imports, faults>>
    PROVE  RelayInv'
<1> USE InvParts
<1>1. /\ sync' \in SyncRecords
      /\ sync'.phase = sync.phase /\ sync'.cursor = sync.cursor /\ sync'.page = sync.page
      /\ sync'.settled = sync.settled /\ sync'.last = sync.last
      /\ sync'.answer = sync.answer \/ (waits /\ sync'.answer = reply)
  BY AnsweredSync
<1>2. ServerTypeOK' BY DEF AckHandled, ServerTypeOK
<1>3. CallsTyped' /\ AnswersHold' BY NoReply DEF calls, AckHandled
<1>4. UNCHANGED <<inbox, homeAcked, mail, mailAcked>> BY DEF relayed, post
<1>5. waits => sync.phase = "acking" /\ r.through = sync.cursor BY DEF AwaitedAck
<1>6. Cursors'
  <2>1. /\ acked' \in Nat /\ acked' >= acked /\ acked' <= Len(inbox) /\ acked \in Nat
        /\ homeAcked \in Nat /\ Len(inbox) \in Nat
    BY DEF AckHandled, ServerTypeOK, RelayedTyped
  <2>2. homeAcked <= acked' BY <2>1 DEF Cursors
  <2>3. sync.phase = "acking" /\ sync'.answer = "ok" => sync.cursor <= acked'
    <3>1. sync.cursor \in Nat BY DEF SyncRecords
    <3> QED BY <1>1, <1>5, <2>1, <3>1 DEF Cursors
  <2>4. sync.phase \in {"idle", "pulling", "importing"} => sync'.answer = "none"
    BY <1>1, <1>5 DEF Cursors
  <2>5. \A t \in Sequences : ackReceipt'[t].state = "completed" => t <= acked'
    BY DEF AckHandled
  <2>6. items' = items BY DEF AckHandled
  <2> QED BY ONLY Cursors, acks' \subseteq acks, <1>1, <1>4, <2>1, <2>2, <2>3, <2>4, <2>5, <2>6
          DEF Cursors
<1>7. MailCursors'
  BY <1>1, <1>4, <1>5 DEF MailCursors, AckHandled
<1>8. Carried' BY <1>1, <1>4 DEF Carried, Carries, AckHandled
<1> QED BY <1>1, <1>2, <1>3, <1>6, <1>7, <1>8, ServerChanges DEF AckHandled

\* An acknowledgment that is not recorded, for it was before, or cannot be.
LEMMA AckUnrecorded ==
    ASSUME RelayInv, NEW through,
           UNCHANGED <<items, acked, ackReceipt, mailImported, mailReceipt, epoch, board>>,
           attachment' = attachment
    PROVE  AckHandled(through)
<1> USE InvParts
<1>1. acked \in acked..Len(inbox) /\ acked \in 0..Len(items)
  BY DEF ServerTypeOK, Cursors, RelayedTyped
<1>2. AttachmentFollowsHome' BY DEF VerdictsHold, AttachmentFollowsHome, board
<1>3. ReportsJudged' BY JudgedStays
<1> QED BY <1>1, <1>2, <1>3 DEF AckHandled, ServerTypeOK, Cursors, EndStays

LEMMA AnswerAckKeeps == ASSUME RelayInv, NEW r \in acks, AnswerAck(r) PROVE RelayInv'
<1> USE InvParts
<1> DEFINE receipt == ackReceipt[r.through]
           runs == receipt.state = "none" /\ AckAccepted(r.through, r.settled)
<1>1. PICK reply \in {"ok", "refused"} :
          FederationAck(r.through, r.settled, reply) /\ Answered(AwaitedAck(r), reply)
  BY DEF AnswerAck
<1>2. acks' \subseteq acks /\ UNCHANGED <<board, calls, relayed, post, imports, faults>>
  BY DEF AnswerAck
<1>3. r.through \in Sequences /\ r.through \in Nat BY DEF PostTyped, AckRequests, Sequences
<1>4. UNCHANGED <<items, mailImported, mailReceipt, epoch>> BY <1>1 DEF FederationAck
<1>5. CASE runs
  <2>1. /\ acked' = Larger(acked, r.through) /\ attachment' = SettledBy(r.settled)
        /\ ackReceipt' = [ackReceipt EXCEPT
               ![r.through] = [state |-> "completed", settled |-> r.settled]]
    BY <1>1, <1>5 DEF FederationAck, AcknowledgeFederationRelay
  <2>2. attachment' \in [state : AttachmentStates, live : BOOLEAN]
    BY <1>5, <2>1, VerdictTaken
  <2>3. /\ acked' \in acked..Len(inbox) /\ r.through <= acked' /\ acked' \in 0..Len(items)
        /\ ackReceipt' \in [Sequences ->
               [state : {"none", "pending", "completed"}, settled : SUBSET Settlements]]
        /\ \A t \in Sequences : t # r.through => ackReceipt'[t] = ackReceipt[t]
        /\ EndStays /\ AttachmentFollowsHome' /\ ReportsJudged'
    BY <1>2, <1>4, <1>5, <2>1, <2>2, AckTaken
  <2>4. ASSUME NEW t \in Sequences, ackReceipt'[t].state = "completed" PROVE t <= acked'
    <3>1. CASE t = r.through BY <2>3, <3>1
    <3>2. CASE t # r.through
      <4>1. t <= acked BY <2>3, <2>4, <3>2 DEF Cursors
      <4>2. t \in Nat /\ acked \in Nat /\ acked' \in Nat /\ acked <= acked'
        BY <2>3 DEF Sequences, ServerTypeOK
      <4> QED BY ONLY <4>1, <4>2
    <3> QED BY <3>1, <3>2
  <2>5. AckHandled(r.through)
    BY <1>4, <2>2, <2>3, <2>4 DEF AckHandled, ServerTypeOK
  <2> QED BY <1>1, <1>2, <2>3, <2>5, AckHandledKeeps
<1>6. CASE ~runs
  <2>1. UNCHANGED <<acked, attachment, ackReceipt>> BY <1>1, <1>6 DEF FederationAck
  <2>2. AckHandled(r.through) BY <1>2, <1>4, <2>1, AckUnrecorded
  <2>3. reply = "ok" => r.through <= acked'
    <3>1. reply = "ok" => receipt = [state |-> "completed", settled |-> r.settled]
      BY <1>1, <1>6 DEF FederationAck
    <3> QED BY <1>3, <2>1, <3>1 DEF Cursors
  <2> QED BY <1>1, <1>2, <2>2, <2>3, AckHandledKeeps
<1> QED BY <1>5, <1>6

LEMMA CrashInAckKeeps ==
    ASSUME RelayInv, NEW r \in acks, NEW committed \in BOOLEAN,
           CrashInAck(r.through, r.settled, committed), acks' \subseteq acks,
           UNCHANGED <<board, calls, relayed, post, sync, imports, faults>>
    PROVE  RelayInv'
<1> USE InvParts
<1> DEFINE mark == [state |-> "pending", settled |-> r.settled]
<1>1. /\ ackReceipt[r.through].state = "none"
      /\ UNCHANGED <<items, mailImported, mailReceipt>>
      /\ ackReceipt' = [ackReceipt EXCEPT ![r.through] = mark]
  BY DEF CrashInAck
<1>2. epoch' \in 1..MaxEpochs BY RelayAssumption DEF CrashInAck, NextEpoch, ServerTypeOK
<1>3. r.through \in Sequences /\ r.settled \in SUBSET Settlements
  BY DEF PostTyped, AckRequests
<1>4. CASE committed
  <2>1. /\ acked' = Larger(acked, r.through) /\ AckAccepted(r.through, r.settled)
        /\ attachment' = [SettledBy(r.settled) EXCEPT !.live = FALSE]
    BY <1>4 DEF CrashInAck
  <2>2. SettledBy(r.settled) \in [state : AttachmentStates, live : BOOLEAN]
    BY <2>1, VerdictTaken
  <2>3. /\ attachment' \in [state : AttachmentStates, live : BOOLEAN]
        /\ attachment'.state = SettledBy(r.settled).state
    BY <2>1, <2>2
  <2>4. /\ acked' \in acked..Len(inbox) /\ acked' \in 0..Len(items)
        /\ ackReceipt' \in [Sequences ->
               [state : {"none", "pending", "completed"}, settled : SUBSET Settlements]]
        /\ \A t \in Sequences : t # r.through => ackReceipt'[t] = ackReceipt[t]
        /\ EndStays /\ AttachmentFollowsHome' /\ ReportsJudged'
    BY <1>1, <2>1, <2>3, AckTaken
  <2>5. ASSUME NEW t \in Sequences, ackReceipt'[t].state = "completed" PROVE t <= acked'
    <3>1. ackReceipt'[r.through].state = "pending"
      BY <1>1, <1>3 DEF ServerTypeOK
    <3>2. t <= acked BY <2>4, <2>5, <3>1 DEF Cursors
    <3>3. t \in Nat /\ acked \in Nat /\ acked' \in Nat /\ acked <= acked'
      BY <2>4 DEF Sequences, ServerTypeOK
    <3> QED BY ONLY <3>2, <3>3
  <2>6. AckHandled(r.through) BY <1>1, <1>2, <2>3, <2>4, <2>5 DEF AckHandled
  <2> QED BY <2>6, AckHandledKeeps
<1>5. CASE ~committed
  <2>1. acked' = acked /\ attachment' = [attachment EXCEPT !.live = FALSE]
    BY <1>5 DEF CrashInAck
  <2>2. /\ attachment' \in [state : AttachmentStates, live : BOOLEAN]
        /\ attachment'.state = attachment.state /\ EndStays
    BY <2>1 DEF ServerTypeOK, EndStays
  <2>3. mark \in [state : {"none", "pending", "completed"}, settled : SUBSET Settlements]
    BY <1>3
  <2>4. /\ ackReceipt' \in [Sequences ->
               [state : {"none", "pending", "completed"}, settled : SUBSET Settlements]]
        /\ \A t \in Sequences : ackReceipt'[t] = IF t = r.through THEN mark ELSE ackReceipt[t]
    BY <1>1, <2>3 DEF ServerTypeOK
  <2>5. \A t \in Sequences : ackReceipt'[t].state = "completed" => t <= acked'
    BY <2>1, <2>4 DEF Cursors
  <2>6. AttachmentFollowsHome' BY <2>2 DEF VerdictsHold, AttachmentFollowsHome, board
  <2>7. ReportsJudged'
    <3>1. ASSUME NEW s, Judged(s) PROVE Judged(s)'
      BY <1>1, <2>2, <2>4, <3>1 DEF Judged, ReportsJudged
    <3> QED BY <1>1, <2>1, <2>4, <3>1 DEF ReportsJudged
  <2>8. acked \in acked..Len(inbox) /\ acked \in 0..Len(items)
    BY DEF ServerTypeOK, Cursors, RelayedTyped
  <2>9. AckHandled(r.through)
    BY <1>1, <1>2, <2>1, <2>2, <2>4, <2>5, <2>6, <2>7, <2>8 DEF AckHandled
  <2> QED BY <2>9, AckHandledKeeps
<1> QED BY <1>4, <1>5

-----------------------------------------------------------------------------
(* The server takes the home's mail, or restarts. *)

LEMMA MailHandledKeeps ==
    ASSUME RelayInv, NEW waits, NEW reply \in {"ok", "refused"}, NEW last \in Nat,
           UNCHANGED <<items, acked, ackReceipt, board, calls, relayed, post, faults>>,
           acks' \subseteq acks, imports' \subseteq imports,
           mailImported' \in mailImported..mail,
           mailReceipt' \in [1..MaxMail -> {"none", "pending", "completed"}],
           \A m \in 1..MaxMail : mailReceipt'[m] = "completed" => m <= mailImported',
           epoch' \in 1..MaxEpochs,
           attachment' \in [state : AttachmentStates, live : BOOLEAN],
           attachment'.state = attachment.state,
           Answered(waits, reply) \/ sync' = sync,
           waits => sync.phase = "mailing" /\ sync.last = last,
           reply = "ok" /\ waits => last <= mailImported'
    PROVE  RelayInv'
<1> USE InvParts
<1>1. /\ sync' \in SyncRecords
      /\ sync'.phase = sync.phase /\ sync'.cursor = sync.cursor /\ sync'.page = sync.page
      /\ sync'.settled = sync.settled /\ sync'.last = sync.last
      /\ sync'.answer = sync.answer \/ (waits /\ sync'.answer = reply)
  BY AnsweredSync
<1>2. /\ mailImported \in Nat /\ mail \in 0..MaxMail /\ mailImported' \in 0..MaxMail
      /\ mailImported' \in Nat /\ mailImported <= mailImported' /\ mailImported' <= mail
      /\ mailAcked \in Nat
  BY RelayAssumption DEF ServerTypeOK, PostTyped
<1>3. ServerTypeOK' BY <1>2 DEF ServerTypeOK
<1>4. EndStays BY DEF EndStays
<1>5. CallsTyped' /\ AnswersHold' BY <1>4, NoReply DEF calls
<1>6. UNCHANGED <<inbox, homeAcked, mail, mailAcked>> BY DEF relayed, post
<1>7. Cursors'
  <2>1. /\ sync'.phase = "acking" => sync'.answer = sync.answer
        /\ sync'.phase \in {"idle", "pulling", "importing"} => sync'.answer = sync.answer
    BY <1>1
  <2> QED BY <1>1, <1>6, <2>1 DEF Cursors
<1>8. MailCursors'
  <2>1. mailAcked <= mailImported' BY <1>2 DEF MailCursors
  <2>2. sync.phase = "mailing" /\ sync'.answer = "ok" => sync.last <= mailImported'
    <3>1. sync.last \in Nat BY DEF SyncRecords
    <3> QED BY <1>1, <1>2, <3>1 DEF MailCursors
  <2> QED BY <1>1, <1>2, <1>6, <2>1, <2>2 DEF MailCursors
<1>9. Carried' BY <1>1, <1>6 DEF Carried, Carries
<1>10. AttachmentFollowsHome' BY DEF VerdictsHold, AttachmentFollowsHome, board
<1>11. ReportsJudged' BY JudgedStays
<1> QED BY <1>1, <1>3, <1>4, <1>5, <1>7, <1>8, <1>9, <1>10, <1>11, ServerChanges

LEMMA AnswerImportKeeps == ASSUME RelayInv, NEW r \in imports, AnswerImport(r) PROVE RelayInv'
<1> USE InvParts
<1> DEFINE runs == mailReceipt[r.last] = "none" /\ ImportAccepted(r.first, r.last)
<1>1. PICK reply \in {"ok", "refused"} :
          FederationImport(r.first, r.last, reply) /\ Answered(AwaitedImport(r), reply)
  BY DEF AnswerImport
<1>2. /\ imports' \subseteq imports /\ acks' = acks
      /\ UNCHANGED <<board, calls, relayed, post, faults>>
      /\ UNCHANGED <<attachment, items, acked, ackReceipt, epoch>>
  BY <1>1 DEF AnswerImport, FederationImport
<1>3. r.last \in 1..MaxMail /\ r.last \in Nat /\ r.last <= mail
  BY RelayAssumption DEF PostTyped, MailRequests, MailCursors
<1>4. /\ mailImported \in Nat /\ mail \in Nat /\ mailImported <= mail
      /\ mailReceipt \in [1..MaxMail -> {"none", "pending", "completed"}]
  BY DEF ServerTypeOK, PostTyped, MailCursors
<1>5. /\ mailImported' \in mailImported..mail
      /\ mailReceipt' \in [1..MaxMail -> {"none", "pending", "completed"}]
      /\ \A m \in 1..MaxMail : mailReceipt'[m] = "completed" => m <= mailImported'
      /\ reply = "ok" => r.last <= mailImported'
  <2>1. CASE runs
    <3>1. /\ mailImported' = Larger(mailImported, r.last)
          /\ mailReceipt' = [mailReceipt EXCEPT ![r.last] = "completed"]
      BY <1>1, <2>1 DEF FederationImport
    <3>2. mailImported' \in mailImported..mail /\ r.last <= mailImported'
      BY <1>3, <1>4, <3>1 DEF Larger
    <3>3. \A m \in 1..MaxMail :
              mailReceipt'[m] = IF m = r.last THEN "completed" ELSE mailReceipt[m]
      BY <1>4, <3>1
    <3>4. ASSUME NEW m \in 1..MaxMail, mailReceipt'[m] = "completed" PROVE m <= mailImported'
      <4>1. m = r.last \/ m <= mailImported BY <3>3, <3>4 DEF MailCursors
      <4> QED BY <1>4, <3>2, <4>1
    <3> QED BY <1>3, <1>4, <3>1, <3>2, <3>4
  <2>2. CASE ~runs
    <3>1. mailImported' = mailImported /\ mailReceipt' = mailReceipt
      BY <1>1, <2>2 DEF FederationImport
    <3>2. reply = "ok" => mailReceipt[r.last] = "completed"
      BY <1>1, <2>2 DEF FederationImport
    <3> QED BY <1>3, <1>4, <3>1, <3>2 DEF MailCursors
  <2> QED BY <2>1, <2>2
<1>6. AwaitedImport(r) => sync.phase = "mailing" /\ sync.last = r.last BY DEF AwaitedImport
<1> QED BY <1>1, <1>2, <1>3, <1>5, <1>6, MailHandledKeeps DEF ServerTypeOK

LEMMA CrashKeeps == ASSUME RelayInv, Crash PROVE RelayInv'
<1> USE InvParts
<1>1. UNCHANGED <<board, calls, relayed, post, sync, faults>> BY DEF Crash
<1>2. /\ mailImported \in Nat /\ mail \in Nat /\ mailImported <= mail
      /\ mailReceipt \in [1..MaxMail -> {"none", "pending", "completed"}]
      /\ \A m \in 1..MaxMail : mailReceipt[m] = "completed" => m <= mailImported
  BY DEF ServerTypeOK, PostTyped, MailCursors
<1>3. [attachment EXCEPT !.live = FALSE] \in [state : AttachmentStates, live : BOOLEAN]
      /\ [attachment EXCEPT !.live = FALSE].state = attachment.state
  BY DEF ServerTypeOK
<1>4. NextEpoch => epoch' \in 1..MaxEpochs BY RelayAssumption DEF NextEpoch, ServerTypeOK
<1>5. CASE ServerRestart /\ UNCHANGED <<acks, imports>>
  <2>1. /\ epoch' \in 1..MaxEpochs /\ attachment' = [attachment EXCEPT !.live = FALSE]
        /\ UNCHANGED <<items, acked, ackReceipt, mailImported, mailReceipt>>
    BY <1>4, <1>5 DEF ServerRestart
  <2>2. /\ mailImported' \in mailImported..mail
        /\ mailReceipt' \in [1..MaxMail -> {"none", "pending", "completed"}]
        /\ \A m \in 1..MaxMail : mailReceipt'[m] = "completed" => m <= mailImported'
    BY <1>2, <2>1
  <2>3. acks' \subseteq acks /\ imports' \subseteq imports BY <1>5
  <2>4. "ok" \in {"ok", "refused"} /\ 0 \in Nat OBVIOUS
  <2> QED BY <1>1, <1>3, <2>1, <2>2, <2>3, <2>4, MailHandledKeeps
<1>6. CASE \E r \in acks, committed \in BOOLEAN :
               /\ CrashInAck(r.through, r.settled, committed)
               /\ acks' = acks \ {r} /\ UNCHANGED imports
  BY <1>1, <1>6, CrashInAckKeeps
<1>7. ASSUME NEW r \in imports, NEW reached \in 0..MaxMail,
             CrashInImport(r.first, r.last, reached),
             imports' = imports \ {r}, UNCHANGED acks
      PROVE  RelayInv'
  <2>1. r.last \in 1..MaxMail /\ r.last \in Nat /\ r.last <= mail
    BY RelayAssumption DEF PostTyped, MailRequests, MailCursors
  <2>2. /\ mailImported' = Larger(mailImported, reached)
        /\ reached > mailImported => reached <= r.last
        /\ mailReceipt' = [mailReceipt EXCEPT ![r.last] = "pending"]
        /\ attachment' = [attachment EXCEPT !.live = FALSE]
        /\ NextEpoch /\ UNCHANGED <<items, acked, ackReceipt>>
    BY <1>7 DEF CrashInImport
  <2>3. mailImported' \in mailImported..mail /\ mailImported' \in Nat
    BY <1>2, <2>1, <2>2, RelayAssumption DEF Larger
  <2>4. /\ mailReceipt' \in [1..MaxMail -> {"none", "pending", "completed"}]
        /\ \A m \in 1..MaxMail : mailReceipt'[m] = "completed" => mailReceipt[m] = "completed"
    BY <1>2, <2>1, <2>2
  <2>5. \A m \in 1..MaxMail : mailReceipt'[m] = "completed" => m <= mailImported'
    BY <1>2, <2>3, <2>4
  <2> QED BY <1>1, <1>3, <1>4, <1>7, <2>2, <2>3, <2>4, <2>5, MailHandledKeeps
<1> QED BY <1>5, <1>6, <1>7 DEF Crash

-----------------------------------------------------------------------------
(* The invariant. *)

LEMMA InitRelay == Init => RelayInv
<1> SUFFICES ASSUME Init PROVE RelayInv OBVIOUS
<1> USE RelayAssumption, HomeAssumption, KindsAssumption DEF Init
<1>1. ServerTypeOK
  BY DEF ServerInit, ServerTypeOK, NoReceipt, AttachmentStates, Settlements
<1>2. /\ task = [t \in {Task} |-> "absent"]
      /\ dispatch = [d \in {D} |-> Home!NoDispatch]
      /\ worker = [d \in {D} |-> "none"] /\ gate = [g \in Home!GateIds |-> Home!NoGate]
      /\ outbox = [d \in {D} |-> "none"]
  BY OneDispatch DEF Home!Init
<1>3. /\ Home!NoDispatch \in Home!DispatchRows /\ Home!NoDispatch.status = "absent"
      /\ Home!NoGate \in Home!GateRows
  BY DEF Home!NoDispatch, Home!DispatchRows, Home!Kinds, Home!DispatchStatuses, Home!NoGate,
         Home!GateRows
<1>4. Home!TypeOK BY <1>2, <1>3, OneDispatch DEF Home!TypeOK
<1>5. HomeRow
  BY <1>2, <1>3 DEF HomeRow, Home!Exists, Home!Active, Home!ActiveStatuses
<1>6. CallsTyped BY DEF CallsTyped, Silent, AttachmentStates
<1>7. inbox = <<>> /\ Len(inbox) = 0 /\ inbox \in Seq(MessageKinds) OBVIOUS
<1>8. RelayedTyped BY <1>7 DEF RelayedTyped, NoCheckpoint, Watermarks
<1>9. PostTyped BY DEF PostTyped
<1>10. sync \in SyncRecords /\ Fresh
  BY DEF SyncRecords, Watermarks, Fresh, IdleSync, NoCheckpoint
<1>11. sync.phase = "idle" /\ sync.answer = "none" /\ sync.settled = {} BY DEF IdleSync
<1>12. Cursors BY <1>7, <1>11 DEF Cursors, ServerInit, NoReceipt
<1>13. MailCursors BY <1>11 DEF MailCursors, ServerInit
<1>14. Carried BY <1>7, <1>11 DEF Carried
<1>15. AnswersHold BY DEF AnswersHold, Silent, Ended
<1>16. outbox[D] = "none" /\ dispatch[D].status = "absent" /\ attachment.state = "none"
  BY <1>2, <1>3 DEF ServerInit
<1>17. VerdictsHold
  BY <1>11, <1>16 DEF VerdictsHold, FailedAtHome, Confirmed, AttachmentFollowsHome
<1>18. ReportsJudged BY DEF ReportsJudged, ServerInit, NoReceipt
<1>19. OutcomeImported BY <1>16 DEF OutcomeImported
<1> QED BY <1>1, <1>4, <1>5, <1>6, <1>8, <1>9, <1>10, <1>12, <1>13, <1>14, <1>15, <1>17,
           <1>18, <1>19
        DEF RelayInv, TypeOK, CallsTyped, RelayedTyped, PostTyped, SyncRecords, Watermarks

LEMMA NothingChanges == ASSUME RelayInv, UNCHANGED vars PROVE RelayInv'
<1>1. UNCHANGED <<serverVars, board, calls, relayed, post, sync, wire>> BY DEF vars
<1>2. HomeStep BY <1>1, InvParts, BoardStays, QuietIsHomeStep
<1>3. CallsTyped' /\ AnswersHold' BY <1>1, CallsStay DEF serverVars
<1> QED BY <1>1, <1>2, <1>3, NothingElse, CallStep

LEMMA NextRelay == ASSUME RelayInv, [Next]_vars PROVE RelayInv'
<1>1. CASE HomeCalls
  BY <1>1, CreateTaskKeeps, StartWorkerKeeps, StartAnsweredKeeps, StartTimesOutKeeps,
     StopWorkerKeeps, StopAnsweredKeeps, StopTimesOutKeeps, AbandonWorkerKeeps,
     ShowWorkerKeeps, ShowAnsweredKeeps, SendMailKeeps, HomeRestartKeeps DEF HomeCalls
<1>2. CASE SyncStep
  BY <1>2, PullAnsweredKeeps, ImportItemKeeps, ImportThrowsKeeps, FinishImportKeeps,
     AckAnsweredKeeps, MailAnsweredKeeps DEF SyncStep
<1>3. CASE ServerStep
  BY <1>3, AttachStepKeeps, StopStepKeeps, WorkerSendsKeeps, CrashKeeps, AnswerAckKeeps,
     AnswerImportKeeps DEF ServerStep
<1> QED BY <1>1, <1>2, <1>3, RelayTickKeeps, GiveUpKeeps, NothingChanges DEF Next

\* However answers are lost and requests repeated, and whichever side restarts, what is
\* in memory or on its way agrees with the rows.
THEOREM RelayInductive == Spec => []RelayInv
<1>1. Init => RelayInv BY InitRelay
<1>2. RelayInv /\ [Next]_vars => RelayInv' BY NextRelay
<1> QED BY <1>1, <1>2, PTL DEF Spec

-----------------------------------------------------------------------------
(* What the runs check. *)

\* Every variable of the two runtimes and of the wire keeps its type: receipts, cursors
\* and watermarks stay within the bounds of the queue and of the mail.
THEOREM RelayTypeCorrect == Spec => []TypeOK
<1>1. RelayInv => TypeOK BY DEF RelayInv
<1> QED BY <1>1, RelayInductive, PTL

\* federationAck advances the server's acknowledgment only over items whose import the
\* home has committed, so no item leaves the replayed part of the queue unimported.
THEOREM AcknowledgedItemsAreImported == Spec => []AcknowledgedWasImported
<1>1. RelayInv => AcknowledgedWasImported BY DEF RelayInv, Cursors, AcknowledgedWasImported
<1> QED BY <1>1, RelayInductive, PTL

\* recordFederatedHomeAcknowledgment never writes more into the home's row than the
\* server holds acknowledged, whatever runtimes of the server its epochs name.
THEOREM WatermarksAreAcknowledged == Spec => []WatermarkWasAcknowledged
<1>1. RelayInv => WatermarkWasAcknowledged BY DEF RelayInv, Cursors, WatermarkWasAcknowledged
<1> QED BY <1>1, RelayInductive, PTL

\* The mail the home stops pushing, federationImport has committed on the server, and the
\* server has none the home did not send.
THEOREM AcknowledgedMailIsImported == Spec => []MailAcknowledgedWasImported
<1>1. RelayInv => MailAcknowledgedWasImported
  BY DEF RelayInv, MailCursors, MailAcknowledgedWasImported
<1> QED BY <1>1, RelayInductive, PTL

\* With lifecycle settlement acknowledgeFederationRelay ends an attachment as succeeded or
\* failed only with the outcome the home's rows record.
THEOREM AttachmentsFollowHome == Spec => []AttachmentFollowsHome
<1>1. RelayInv => AttachmentFollowsHome BY DEF RelayInv, VerdictsHold
<1> QED BY <1>1, RelayInductive, PTL

LEMMA SettledWhenRelayed ==
    ASSUME RelayInv, LifecycleSettlement, outbox[D] # "none", ~Eligible
    PROVE  attachment.state = outbox[D] \/ ToldRejected(outbox[D])
<1> USE InvParts
<1>1. /\ items \in Seq(MessageKinds) /\ Len(items) \in Nat /\ acked \in Nat
      /\ Len(inbox) \in Nat /\ homeAcked \in Nat
  BY DEF ServerTypeOK, RelayedTyped
<1>2. acked = Len(inbox) /\ Len(inbox) <= Len(items)
  BY <1>1 DEF Eligible, EligibleAt, Cursors
<1>3. PICK s \in 1..Len(inbox) : inbox[s] = outbox[D] BY DEF OutcomeImported
<1>4. outbox[D] \in {"succeeded", "failed"} BY TheRow
<1>5. items[s] = outbox[D] BY <1>3, <1>4 DEF Carried, Carries
<1>6. s \in 1..acked /\ s \in DOMAIN items BY <1>1, <1>2, <1>3
<1>7. PICK through \in Sequences, action \in {"completed", "failed", "rejected"} :
          /\ [seq |-> s, action |-> action] \in ackReceipt[through].settled
          /\ action = "rejected" \/ attachment.state = OutcomeOf(items[s])
  BY <1>4, <1>5, <1>6 DEF ReportsJudged, Judged, Reports
<1>8. OutcomeOf(items[s]) = outbox[D] BY <1>4, <1>5 DEF OutcomeOf
<1> QED BY <1>5, <1>6, <1>7, <1>8 DEF ToldRejected

\* isFederatedDispatchRelayEligible keeps a settled dispatch in the relay until the server
\* has the verdict: an attachment is left open only where the home rejected its report.
THEOREM RelayOutlivesEverySettlement == Spec => []RelayOutlivesSettlement
<1>1. RelayInv => RelayOutlivesSettlement
  BY SettledWhenRelayed DEF RelayOutlivesSettlement
<1> QED BY <1>1, RelayInductive, PTL

-----------------------------------------------------------------------------
(* The relay as a channel. *)

\* The queue is full and a report takes the row of a heartbeat that is not acknowledged.
HeartbeatReplaced ==
    \E s \in Unacked, report \in Reports :
        /\ items[s] = "heartbeat" /\ Len(items) - acked >= Quota
        /\ items' = [items EXCEPT ![s] = report]
        /\ UNCHANGED inbox

\* A heartbeat arrives that was read before a report took its row.
ReplacedHeartbeatArrives ==
    /\ Len(inbox) < Len(items)
    /\ items[Len(inbox) + 1] \in Reports
    /\ inbox' = Append(inbox, "heartbeat")
    /\ UNCHANGED items

ChannelNext == Channel!Next \/ HeartbeatReplaced \/ ReplacedHeartbeatArrives

LEMMA SendIsChannelStep ==
    ASSUME RelayInv, WorkerSends
    PROVE  [ChannelNext]_<<items, inbox>>
<1> USE InvParts
<1>1. PICK kind \in MessageKinds : EnqueueFederationRelay(kind) BY DEF WorkerSends
<1>2. Queued(kind) /\ Len(items) < MaxItems /\ inbox' = inbox
  BY <1>1 DEF EnqueueFederationRelay, WorkerSends, relayed
<1>3. CASE items' = Append(items, kind)
  BY <1>2, <1>3 DEF ChannelNext, Channel!Next, Channel!Accept
<1>4. CASE /\ Len(items) - acked >= Quota /\ kind \in Reports
           /\ \E oldest \in UnackedHeartbeats : items' = [items EXCEPT ![oldest] = kind]
  <2>1. PICK oldest \in UnackedHeartbeats : items' = [items EXCEPT ![oldest] = kind] BY <1>4
  <2>2. oldest \in Unacked /\ items[oldest] = "heartbeat" BY <2>1 DEF UnackedHeartbeats
  <2>3. HeartbeatReplaced BY <1>2, <1>4, <2>1, <2>2 DEF HeartbeatReplaced
  <2> QED BY <2>3 DEF ChannelNext
<1> QED BY <1>2, <1>3, <1>4 DEF Queued

LEMMA ImportIsChannelStep ==
    ASSUME RelayInv, ImportItem
    PROVE  [ChannelNext]_<<items, inbox>>
<1> DEFINE kind == Head(sync.page)
           s == sync.cursor + 1
<1> USE InvParts
<1>1. /\ sync.phase = "importing" /\ sync.page # <<>> /\ Importable(s, kind)
      /\ inbox' = Received(s, kind) /\ items' = items
  BY DEF ImportItem, serverVars
<1>2. /\ kind = sync.page[1] /\ sync.cursor \in Nat /\ Len(sync.page) \in Nat
      /\ Len(sync.page) >= 1
      /\ sync.cursor + Len(sync.page) <= Len(items) /\ Len(inbox) \in Nat
  BY <1>1, NextItem
<1>3. Carries(s, kind) BY <1>1, <1>2 DEF Carried
<1>4. CASE s <= Len(inbox) BY <1>1, <1>2, <1>4 DEF Received
<1>5. CASE s > Len(inbox)
  <2>1. inbox' = Append(inbox, kind) /\ s = Len(inbox) + 1
    BY <1>1, <1>2, <1>5 DEF Received, Importable
  <2>2. Len(inbox) < Len(items)
    <3>1. Len(items) \in Nat BY DEF ServerTypeOK
    <3> QED BY <1>2, <2>1, <3>1
  <2> HIDE DEF kind, s
  <2>3. CASE items[s] = kind
    BY <1>1, <2>1, <2>2, <2>3 DEF ChannelNext, Channel!Next, Channel!Arrive
  <2>4. CASE kind = "heartbeat" /\ items[s] \in Reports
    BY <1>1, <2>1, <2>2, <2>4 DEF ChannelNext, ReplacedHeartbeatArrives
  <2> QED BY <1>3, <2>3, <2>4 DEF Carries
<1> QED BY <1>2, <1>4, <1>5

LEMMA OnlyImportsArrive == ASSUME [Next]_vars, ~ImportItem PROVE inbox' = inbox
BY DEF Next, SyncStep, ServerStep, HomeCalls, CreateTask, StartWorker, StartAnswered,
       StartTimesOut, StopWorker, StopAnswered, StopTimesOut, AbandonWorker, ShowWorker,
       ShowAnswered, SendMail, HomeRestart, OnlyBoard, RelayTick, GiveUp, PullAnswered,
       ImportThrows, FinishImport, AckAnswered, MailAnswered, AttachStep, StopStep,
       OnlyAttachment, WorkerSends, Crash, AnswerAck, AnswerImport, relayed, vars

LEMMA OnlySendsAccept == ASSUME RelayInv, [Next]_vars, ~WorkerSends PROVE items' = items
<1>1. CASE HomeCalls
  BY <1>1
     DEF HomeCalls, CreateTask, StartWorker, StartAnswered, StartTimesOut, StopWorker,
         StopAnswered, StopTimesOut, AbandonWorker, ShowWorker, ShowAnswered, SendMail,
         HomeRestart, OnlyBoard, serverVars
<1>2. CASE SyncStep \/ RelayTick \/ GiveUp
  BY <1>2
     DEF SyncStep, PullAnswered, ImportItem, ImportThrows, FinishImport, AckAnswered,
         MailAnswered, RelayTick, GiveUp, serverVars
<1>3. CASE AttachStep \/ StopStep
  BY <1>3
     DEF AttachStep, StopStep, Attached, RefuseAttachment, CreateRemoteDispatchAttachment,
         PrepareRemoteAttachmentAuthority, MarkRemoteAttachmentReady, FailRemoteAttachment,
         BeginRemoteAttachmentStop, SettleRemoteAttachmentStop,
         MarkRemoteAttachmentStopUnknown, serverVars
<1>4. CASE Crash \/ (\E r \in acks : AnswerAck(r)) \/ (\E r \in imports : AnswerImport(r))
  BY <1>4
     DEF Crash, ServerRestart, CrashInAck, CrashInImport, AnswerAck, AnswerImport,
         FederationAck, FederationImport
<1>5. CASE UNCHANGED vars BY <1>5 DEF vars, serverVars
<1> QED BY <1>1, <1>2, <1>3, <1>4, <1>5 DEF Next, ServerStep

LEMMA StepsOfTheChannel ==
    ASSUME RelayInv, [Next]_vars
    PROVE  [ChannelNext]_<<items, inbox>>
<1>1. CASE WorkerSends BY <1>1, SendIsChannelStep
<1>2. CASE ImportItem BY <1>2, ImportIsChannelStep
<1>3. CASE ~WorkerSends /\ ~ImportItem BY <1>3, OnlyImportsArrive, OnlySendsAccept
<1> QED BY <1>1, <1>2, <1>3

\* Every accepted message arrives once and in order, but for a heartbeat: a report may take
\* its row while the queue is full, and the heartbeat may still arrive in the report's place.
THEOREM RelayIsAChannelButForHeartbeats ==
    Spec => Channel!Init /\ [][ChannelNext]_<<items, inbox>>
<1>1. Init => Channel!Init BY DEF Init, ServerInit, Channel!Init
<1>2. RelayInv /\ [Next]_vars => [ChannelNext]_<<items, inbox>> BY StepsOfTheChannel
<1> QED BY <1>1, <1>2, RelayInductive, PTL DEF Spec

\* The queue stands below its quota, or the worker sends no heartbeats.
QueueHasRoom == "heartbeat" \in MessageKinds => Len(items) - acked < Quota

\* Then what the home imported, or is about to import, is what the queue holds.
Exact ==
    /\ InboxFollowsQueue
    /\ sync.phase = "importing" =>
           \A i \in 1..Len(sync.page) : sync.page[i] = items[sync.cursor + i]

LEMMA NoneReplaced ==
    ASSUME RelayInv, QueueHasRoom
    PROVE  ~HeartbeatReplaced
<1> SUFFICES ASSUME HeartbeatReplaced PROVE FALSE OBVIOUS
<1>1. /\ items \in Seq(MessageKinds) /\ Len(items) \in Nat /\ acked \in Nat /\ Quota \in Nat
  BY InvParts, RelayAssumption DEF ServerTypeOK
<1>2. PICK s \in Unacked : items[s] = "heartbeat" /\ Len(items) - acked >= Quota
  BY DEF HeartbeatReplaced
<1>3. s \in 1..Len(items) BY <1>1, <1>2 DEF Unacked
<1>4. "heartbeat" \in MessageKinds BY <1>1, <1>2, <1>3
<1> QED BY <1>1, <1>2, <1>4 DEF QueueHasRoom

\* A sync that is importing has just pulled its page, or has gone on with it.
LEMMA PagesStay ==
    ASSUME RelayInv, [Next]_vars, ~PullAnswered, ~ImportItem, sync'.phase = "importing"
    PROVE  sync.phase = "importing" /\ sync'.page = sync.page /\ sync'.cursor = sync.cursor
<1> USE InvParts
<1>1. CASE sync' = sync BY <1>1
<1>2. CASE sync' = IdleSync BY <1>2 DEF IdleSync
<1>3. ASSUME NEW pages, NEW known, PullPage(pages, known) PROVE FALSE
  BY <1>3 DEF PullPage, IdleSync
<1>4. ASSUME NEW known, NEW mark, FinishPage(known, mark) PROVE FALSE
  BY <1>2, <1>3, <1>4 DEF FinishPage, EndSync, IdleSync
<1>5. ASSUME NEW known, NEW mark, ContinuePage(known, mark) PROVE FALSE
  BY <1>4, <1>5 DEF ContinuePage, SyncRecords
<1>6. ASSUME NEW waits, NEW reply \in {"ok", "refused"}, Answered(waits, reply)
      PROVE  sync.phase = "importing" /\ sync'.page = sync.page /\ sync'.cursor = sync.cursor
  BY <1>6, AnsweredSync
<1>7. CASE HomeCalls
  BY <1>1, <1>2, <1>3, <1>7
     DEF HomeCalls, CreateTask, StartWorker, StartAnswered, StartTimesOut, StopWorker,
         StopAnswered, StopTimesOut, AbandonWorker, ShowWorker, ShowAnswered, SendMail,
         HomeRestart, OnlyBoard
<1>8. CASE RelayTick \/ GiveUp \/ ImportThrows
  BY <1>2, <1>3, <1>8 DEF RelayTick, GiveUp, ImportThrows, EndSync
<1>9. CASE FinishImport BY <1>5, <1>9 DEF FinishImport, SyncRecords
<1>10. CASE AckAnswered BY <1>2, <1>5, <1>10 DEF AckAnswered, EndSync
<1>11. CASE MailAnswered BY <1>2, <1>4, <1>11 DEF MailAnswered, EndSync
<1>12. CASE AttachStep \/ StopStep \/ WorkerSends \/ Crash
  BY <1>1, <1>12 DEF AttachStep, StopStep, OnlyAttachment, WorkerSends, Crash
<1>13. CASE (\E r \in acks : AnswerAck(r)) \/ (\E r \in imports : AnswerImport(r))
  BY <1>6, <1>13 DEF AnswerAck, AnswerImport
<1>14. CASE UNCHANGED vars BY <1>1, <1>14 DEF vars
<1> QED BY <1>7, <1>8, <1>9, <1>10, <1>11, <1>12, <1>13, <1>14 DEF Next, SyncStep, ServerStep

LEMMA ExactPull == ASSUME RelayInv, Exact, PullAnswered PROVE Exact'
<1> USE InvParts
<1> DEFINE n == Len(inbox)
           page == Pulled(n)
<1>1. /\ sync'.page = page
      /\ sync'.cursor = IF page = <<>> THEN n ELSE FirstPulled(n) - 1
      /\ UNCHANGED <<items, inbox>>
  BY DEF PullAnswered, SyncRecords, serverVars, relayed
<1>2. n \in Nat /\ n <= Len(items) BY DEF RelayedTyped, Cursors
<1> HIDE DEF n
<1>3. \A i \in 1..Len(page) : page[i] = items[FirstPulled(n) - 1 + i] BY <1>2, PulledPage
<1> HIDE DEF page
<1>4. \A i \in 1..Len(page) : page[i] = items[sync'.cursor + i]
  <2>1. CASE page = <<>> BY <2>1
  <2>2. CASE page # <<>> BY <1>1, <1>3, <2>2
  <2> QED BY <2>1, <2>2
<1> QED BY <1>1, <1>4 DEF Exact, InboxFollowsQueue

LEMMA ExactImport == ASSUME RelayInv, Exact, ImportItem PROVE Exact'
<1> USE InvParts
<1>1. /\ sync.phase = "importing" /\ sync.page # <<>> /\ UNCHANGED items
      /\ Importable(sync.cursor + 1, Head(sync.page))
      /\ inbox' = Received(sync.cursor + 1, Head(sync.page))
      /\ sync'.page = Tail(sync.page) /\ sync'.cursor = sync.cursor + 1
  BY DEF ImportItem, SyncRecords, serverVars
<1>2. /\ Head(sync.page) = sync.page[1] /\ sync.cursor \in Nat /\ Len(sync.page) \in Nat
      /\ Len(sync.page) >= 1 /\ Len(Tail(sync.page)) = Len(sync.page) - 1
      /\ \A i \in 1..Len(sync.page) - 1 : Tail(sync.page)[i] = sync.page[i + 1]
      /\ inbox'[sync.cursor + 1] = Head(sync.page)
      /\ \A s \in 1..Len(inbox) : inbox'[s] = inbox[s]
      /\ \A s \in 1..Len(inbox') : s \in 1..Len(inbox) \/ s = sync.cursor + 1
  BY <1>1, NextItem
<1>3. \A i \in 1..Len(sync.page) : sync.page[i] = items[sync.cursor + i] BY <1>1 DEF Exact
<1>4. Head(sync.page) = items[sync.cursor + 1] BY <1>2, <1>3
<1>5. InboxFollowsQueue' BY <1>1, <1>2, <1>4 DEF Exact, InboxFollowsQueue
<1>6. ASSUME NEW i \in 1..Len(sync'.page) PROVE sync'.page[i] = items[sync'.cursor + i]
  <2>1. i \in Nat /\ i \in 1..Len(sync.page) - 1 /\ i + 1 \in 1..Len(sync.page)
    BY <1>1, <1>2
  <2>2. sync'.page[i] = sync.page[i + 1] BY <1>1, <1>2, <2>1
  <2>3. sync.page[i + 1] = items[sync.cursor + (i + 1)] BY <1>3, <2>1
  <2>4. sync.cursor + (i + 1) = (sync.cursor + 1) + i
    <3>1. sync.cursor \in Nat BY <1>2
    <3> QED BY ONLY <2>1, <3>1
  <2> QED BY <1>1, <2>2, <2>3, <2>4
<1> QED BY <1>1, <1>5, <1>6 DEF Exact

LEMMA ExactStays ==
    ASSUME RelayInv, Exact, QueueHasRoom, [Next]_vars
    PROVE  Exact'
<1> USE InvParts
<1>1. CASE PullAnswered BY <1>1, ExactPull
<1>2. CASE ImportItem BY <1>2, ExactImport
<1>3. CASE ~PullAnswered /\ ~ImportItem
  <2>1. inbox' = inbox BY <1>3, OnlyImportsArrive
  <2>2. \A s \in 1..Len(items) : items'[s] = items[s]
    <3>1. items' = items \/ \E kind \in MessageKinds : items' = Append(items, kind)
      BY <2>1, StepsOfTheChannel, NoneReplaced
         DEF ChannelNext, Channel!Next, Channel!Accept, Channel!Arrive,
             ReplacedHeartbeatArrives
    <3>2. items \in Seq(MessageKinds) BY DEF ServerTypeOK
    <3> QED BY ONLY <3>1, <3>2, Appended
  <2>3. Len(inbox) \in Nat /\ Len(items) \in Nat /\ Len(inbox) <= Len(items)
    BY DEF RelayedTyped, ServerTypeOK, Cursors
  <2>4. InboxFollowsQueue' BY <2>1, <2>2, <2>3 DEF Exact, InboxFollowsQueue
  <2>5. ASSUME sync'.phase = "importing", NEW i \in 1..Len(sync'.page)
        PROVE  sync'.page[i] = items'[sync'.cursor + i]
    <3>1. sync.phase = "importing" /\ sync'.page = sync.page /\ sync'.cursor = sync.cursor
      BY <1>3, <2>5, PagesStay
    <3>2. sync.page[i] = items[sync.cursor + i] BY <2>5, <3>1 DEF Exact
    <3>3. sync.cursor + i \in 1..Len(items)
      <4>1. sync.page \in Seq(MessageKinds) /\ sync.cursor \in 0..MaxItems
        BY ONLY sync \in SyncRecords DEF SyncRecords
      <4>2. sync.cursor + Len(sync.page) <= Len(items) BY <3>1 DEF Cursors
      <4>3. i \in 1..Len(sync.page) BY <2>5, <3>1
      <4> QED BY ONLY <2>3, <4>1, <4>2, <4>3, RelayAssumption
    <3> QED BY <2>2, <3>1, <3>2, <3>3
  <2> QED BY <2>4, <2>5 DEF Exact
<1> QED BY <1>1, <1>2, <1>3

LEMMA ChannelWithRoom ==
    ASSUME RelayInv, QueueHasRoom, InboxFollowsQueue', [Next]_vars
    PROVE  [Channel!Next]_Channel!vars
<1>1. ~ReplacedHeartbeatArrives
  <2> SUFFICES ASSUME ReplacedHeartbeatArrives PROVE FALSE OBVIOUS
  <2>1. /\ items[Len(inbox) + 1] \in Reports /\ inbox' = Append(inbox, "heartbeat")
        /\ items' = items /\ inbox \in Seq(MessageKinds)
    BY InvParts DEF ReplacedHeartbeatArrives, RelayedTyped
  <2>2. inbox'[Len(inbox) + 1] = "heartbeat" /\ Len(inbox) + 1 \in 1..Len(inbox')
    BY <2>1
  <2>3. items[Len(inbox) + 1] = "heartbeat" BY <2>1, <2>2 DEF InboxFollowsQueue
  <2> QED BY <2>1, <2>3 DEF Reports
<1> QED BY <1>1, StepsOfTheChannel, NoneReplaced DEF ChannelNext, Channel!vars

\* While the queue stands below its quota, and always for a worker that sends no heartbeats,
\* each sequence is the same message on both sides.
THEOREM InboxesFollowQueues == Spec /\ []QueueHasRoom => []InboxFollowsQueue
<1>1. Init => Exact BY DEF Init, Exact, InboxFollowsQueue, IdleSync
<1>2. RelayInv /\ Exact /\ QueueHasRoom /\ [Next]_vars => Exact' BY ExactStays
<1>3. Exact => InboxFollowsQueue BY DEF Exact
<1> QED BY <1>1, <1>2, <1>3, RelayInductive, PTL DEF Spec

\* And then enqueueFederationRelay and importFederatedRelayItem are the two ends of a
\* channel: nothing accepted is lost, duplicated or reordered on its way home.
THEOREM RelayImplementsChannel == Spec /\ []QueueHasRoom => ImplementsChannel
<1>1. Init => Channel!Init BY DEF Init, ServerInit, Channel!Init
<1>2. RelayInv /\ QueueHasRoom /\ InboxFollowsQueue' /\ [Next]_vars => [Channel!Next]_Channel!vars
  BY ChannelWithRoom
<1> QED BY <1>1, <1>2, RelayInductive, InboxesFollowQueues, PTL
        DEF Spec, ImplementsChannel, Channel!Spec

-----------------------------------------------------------------------------
(* The relay as a user of the task board. *)

LEMMA BoardStep ==
    ASSUME [Next]_vars
    PROVE  [Home!Next]_Home!vars
<1> USE OneDispatch DEF Home!vars
<1>1. CASE UNCHANGED board BY <1>1 DEF board
<1>2. CASE Home!CreateTask(Task) BY <1>2 DEF Home!Next, Home!TaskStep
<1>3. CASE \/ Home!CreateStartingWorkerDispatch(D, Task, "federated", 0)
           \/ Home!MarkWorkerDispatchReady(D) \/ Home!MarkWorkerStartUnknown(D)
           \/ \E stalled \in BOOLEAN : Home!FailWorkerStart(D, stalled)
  BY <1>3 DEF Home!Next, Home!StartStep
<1>4. CASE \/ Home!BeginWorkerStop(D) \/ Home!MarkWorkerStopUnknown(D)
           \/ Home!AbandonWorkerDispatch(D)
  BY <1>4 DEF Home!Next, Home!StopStep
<1>5. CASE \/ Home!ReconcileFederatedWorkerReady(D) \/ Home!ReconcileFederatedWorkerStop(D)
           \/ Home!ResumeFederatedWorkerForTerminalRelay(D)
           \/ \E state \in {"failed", "stopped"}, cause \in {"stalled", "other"} :
                  Home!ReconcileFederatedWorkerEnded(D, state, cause)
  BY <1>5 DEF Home!Next, Home!FederationStep
<1>6. CASE \E outcome \in {"succeeded", "failed"} : Home!SettleWorkerReport(D, outcome)
  BY <1>6 DEF Home!Next, Home!ReportStep
<1>7. CASE CreateTask \/ StartWorker \/ StartAnswered \/ StartTimesOut
  BY <1>1, <1>2, <1>3, <1>7
     DEF CreateTask, StartWorker, StartAnswered, StartTimesOut, AfterStart
<1>8. CASE StopWorker \/ StopAnswered \/ StopTimesOut \/ AbandonWorker
  BY <1>1, <1>4, <1>5, <1>8
     DEF StopWorker, StopAnswered, StopTimesOut, StopUnknown, WhileStopping, AbandonWorker
<1>9. CASE ShowAnswered BY <1>1, <1>5, <1>9 DEF ShowAnswered
<1>10. CASE ImportItem BY <1>1, <1>6, <1>10 DEF ImportItem, Import, SettleReport
<1>11. CASE ShowWorker \/ SendMail \/ HomeRestart \/ RelayTick \/ GiveUp
  BY <1>1, <1>11 DEF ShowWorker, SendMail, HomeRestart, RelayTick, GiveUp
<1>12. CASE PullAnswered \/ ImportThrows \/ FinishImport \/ AckAnswered \/ MailAnswered
  BY <1>1, <1>12 DEF PullAnswered, ImportThrows, FinishImport, AckAnswered, MailAnswered
<1>13. CASE ServerStep
  BY <1>1, <1>13
     DEF ServerStep, AttachStep, StopStep, OnlyAttachment, WorkerSends, Crash, AnswerAck,
         AnswerImport
<1>14. CASE UNCHANGED vars BY <1>1, <1>14 DEF vars
<1> QED BY <1>7, <1>8, <1>9, <1>10, <1>11, <1>12, <1>13, <1>14 DEF Next, HomeCalls, SyncStep

\* Whatever the relay does to the home's rows, a method of the task board does: what is
\* proved of the board holds of it under the relay.
THEOREM RelayKeepsTheBoard == Spec => Home!Spec
<1>1. Init => Home!Init BY DEF Init
<1>2. [Next]_vars => [Home!Next]_Home!vars BY BoardStep
<1> QED BY <1>1, <1>2, PTL DEF Spec, Home!Spec

-----------------------------------------------------------------------------
(* What the two sides have decided stands. *)

LEMMA EndsStay ==
    ASSUME RelayInv, [Next]_vars
    PROVE  EndStays
<1> USE InvParts
<1>1. CASE attachment' = attachment BY <1>1 DEF EndStays
<1>2. CASE AttachStep
  BY <1>2
     DEF EndStays, Ended, AttachStep, Attached, RefuseAttachment,
         CreateRemoteDispatchAttachment, PrepareRemoteAttachmentAuthority,
         MarkRemoteAttachmentReady, FailRemoteAttachment
<1>3. CASE StopStep
  BY <1>1, <1>3
     DEF EndStays, Ended, StopStep, Attached, BeginRemoteAttachmentStop,
         SettleRemoteAttachmentStop, MarkRemoteAttachmentStopUnknown, serverVars
<1>4. CASE WorkerSends
  BY <1>4 DEF EndStays, Ended, WorkerSends, EnqueueFederationRelay
<1>5. ASSUME NEW r \in acks, AckAccepted(r.through, r.settled),
             attachment'.state = SettledBy(r.settled).state
      PROVE  EndStays
  BY <1>5, VerdictTaken DEF EndStays, Ended
<1>6. ASSUME NEW r \in acks, AnswerAck(r) PROVE EndStays
  BY <1>1, <1>5, <1>6 DEF AnswerAck, FederationAck, AcknowledgeFederationRelay
<1>7. CASE Crash
  <2>1. CASE attachment' = [attachment EXCEPT !.live = FALSE]
    BY <2>1 DEF EndStays, ServerTypeOK
  <2>2. ASSUME NEW r \in acks, AckAccepted(r.through, r.settled),
               attachment' = [SettledBy(r.settled) EXCEPT !.live = FALSE]
        PROVE  EndStays
    BY <1>5, <2>2, VerdictTaken
  <2> QED BY <1>7, <2>1, <2>2 DEF Crash, ServerRestart, CrashInAck, CrashInImport
<1>8. ASSUME NEW r \in imports, AnswerImport(r) PROVE attachment' = attachment
  BY <1>8 DEF AnswerImport, FederationImport
<1>9. CASE ServerStep BY <1>1, <1>2, <1>3, <1>4, <1>6, <1>7, <1>8, <1>9 DEF ServerStep
<1>10. CASE HomeCalls
  BY <1>1, <1>10
     DEF HomeCalls, CreateTask, StartWorker, StartAnswered, StartTimesOut, StopWorker,
         StopAnswered, StopTimesOut, AbandonWorker, ShowWorker, ShowAnswered, SendMail,
         HomeRestart, OnlyBoard, serverVars
<1>11. CASE SyncStep \/ RelayTick \/ GiveUp
  BY <1>1, <1>11
     DEF SyncStep, PullAnswered, ImportItem, ImportThrows, FinishImport, AckAnswered,
         MailAnswered, RelayTick, GiveUp, serverVars
<1>12. CASE UNCHANGED vars BY <1>1, <1>12 DEF vars, serverVars
<1> QED BY <1>9, <1>10, <1>11, <1>12 DEF Next

\* An attachment that succeeded, failed, was stopped or was refused is never anything else
\* again: late reports, repeated acknowledgments, stops and restarts leave it as it is.
THEOREM EndedAttachmentsStay == Spec => [][EndStays]_vars
<1>1. RelayInv /\ [Next]_vars => EndStays BY EndsStay
<1> QED BY <1>1, RelayInductive, PTL DEF Spec

OutcomeStands == outbox[D] # "none" => outbox'[D] = outbox[D]

LEMMA OutcomesStay ==
    ASSUME RelayInv, [Next]_vars
    PROVE  OutcomeStands
<1>1. CASE outbox' = outbox BY <1>1 DEF OutcomeStands
<1>2. CASE ImportItem
  <2>1. PICK action \in {"completed", "failed", "rejected", "none"} :
            Import(Head(sync.page), action)
    BY <1>2 DEF ImportItem
  <2>2. Head(sync.page) \in MessageKinds BY <1>2, NextItem DEF ImportItem
  <2> QED BY <2>1, <2>2, InvParts, ImportOnBoard DEF OutcomeStands
<1>3. CASE CreateTask \/ StartWorker \/ StartAnswered \/ StartTimesOut
  BY <1>1, <1>3
     DEF CreateTask, StartWorker, StartAnswered, StartTimesOut, AfterStart, board,
         Home!CreateTask, Home!CreateStartingWorkerDispatch, Home!MarkWorkerDispatchReady,
         Home!FailWorkerStart, Home!MarkWorkerStartUnknown
<1>4. CASE StopWorker \/ StopAnswered \/ StopTimesOut \/ AbandonWorker
  BY <1>1, <1>4
     DEF StopWorker, StopAnswered, StopTimesOut, StopUnknown, WhileStopping, AbandonWorker,
         board, Home!BeginWorkerStop, Home!ReconcileFederatedWorkerStop, Home!Stopped,
         Home!ResumeFederatedWorkerForTerminalRelay, Home!MarkWorkerStopUnknown,
         Home!AbandonWorkerDispatch
<1>5. CASE ShowAnswered
  BY <1>1, <1>5
     DEF ShowAnswered, board, Home!ReconcileFederatedWorkerStop, Home!Stopped,
         Home!ReconcileFederatedWorkerReady, Home!ReconcileFederatedWorkerEnded
<1>6. CASE ShowWorker \/ SendMail \/ HomeRestart \/ RelayTick \/ GiveUp
  BY <1>1, <1>6 DEF ShowWorker, SendMail, HomeRestart, RelayTick, GiveUp, board
<1>7. CASE PullAnswered \/ ImportThrows \/ FinishImport \/ AckAnswered \/ MailAnswered
  BY <1>1, <1>7
     DEF PullAnswered, ImportThrows, FinishImport, AckAnswered, MailAnswered, board
<1>8. CASE ServerStep
  BY <1>1, <1>8
     DEF ServerStep, AttachStep, StopStep, OnlyAttachment, WorkerSends, Crash, AnswerAck,
         AnswerImport, board
<1>9. CASE UNCHANGED vars BY <1>1, <1>9 DEF vars, board
<1> QED BY <1>2, <1>3, <1>4, <1>5, <1>6, <1>7, <1>8, <1>9 DEF Next, HomeCalls, SyncStep

\* importFederatedRelayItem settles a dispatch once: whatever is replayed, or reported
\* again under another sequence, the outcome recorded first stands.
THEOREM FirstOutcomeStands == Spec => [][OutcomeStands]_vars
<1>1. RelayInv /\ [Next]_vars => OutcomeStands BY OutcomesStay
<1> QED BY <1>1, RelayInductive, PTL DEF Spec

=============================================================================
