--------------------------- MODULE FederationRelay ---------------------------
(***************************************************************************)
(* One federated dispatch: the home's task board, the worker's server, and   *)
(* the relay between them.                                                   *)
(*                                                                          *)
(* The home starts and stops the worker by requests that may be answered      *)
(* late or never.  Its sync pulls the server's queue, imports the items into  *)
(* the board, acknowledges what it imported, with its verdict on each report   *)
(* when the protocol settles at home, and pushes its own mail.  A sync runs   *)
(* to completion between two awaits; everything else happens meanwhile.      *)
(***************************************************************************)
EXTENDS RelayServer

CONSTANTS
    Task, NoTask, NoTerminal,
    MaxPages,       \* pages of one sync (6)
    MaxFaults       \* bound: requests of a sync the home gives up waiting for

ASSUME HomeAssumption == Task # NoTask /\ MaxPages \in Nat \ {0} /\ MaxFaults \in Nat

VARIABLES
    task, dispatch, worker, gate, outbox,   \* the home's board
    call,           \* the start and stop calls and shows the home awaits
    sent,           \* start and stop requests on their way
    inbox,          \* imported items; its length is to_home_imported_sequence
    homeAcked,      \* to_home_acknowledged_sequence
    homeEpoch,      \* remote_runtime_epoch, 0 for null
    checkpoint,     \* the in-memory acknowledgment checkpoint
    mail,           \* mail queued for the worker
    mailAcked,      \* the mail up to here is acknowledged
    sync,           \* the dispatch's sync
    acks, imports,  \* its requests on their way
    faults

board == <<task, dispatch, worker, gate, outbox>>
calls == <<call, sent>>
relayed == <<inbox, homeAcked, homeEpoch, checkpoint>>
post == <<mail, mailAcked>>
wire == <<acks, imports, faults>>
vars == <<serverVars, board, calls, relayed, post, sync, wire>>

D == 1
Home == INSTANCE TaskDispatch WITH
    Tasks <- {Task}, Deps <- [t \in {Task} |-> {}], Terminals <- {}, MaxDispatches <- D,
    MaxGates <- 0, OperatorStatuses <- {}, BreakAfter <- 3

-----------------------------------------------------------------------------
Silent == [state |-> "none", epoch |-> 0]
Awaited == [state |-> "waiting", epoch |-> 0]
Answer(state) == [state |-> state, epoch |-> epoch]
NoCheckpoint == [epoch |-> 0, through |-> 0]
IdleSync == [phase |-> "idle", pages |-> 0, known |-> NoCheckpoint, epoch |-> 0, page |-> <<>>,
             full |-> FALSE, cursor |-> 0, settled |-> {}, last |-> 0, answer |-> "none"]

AckRequests == [through : Sequences, settled : SUBSET Settlements]
MailRequests == [first : 1..MaxMail, last : 1..MaxMail]

TypeOK ==
    /\ ServerTypeOK
    /\ Home!TypeOK
    /\ call \in [{"start", "stop", "show"} ->
           [state : AttachmentStates \cup {"waiting", "throws"}, epoch : 0..MaxEpochs]]
    /\ sent \subseteq {"start", "stop"}
    /\ inbox \in Seq(MessageKinds) /\ Len(inbox) <= MaxItems
    /\ homeAcked \in 0..MaxItems /\ homeEpoch \in 0..MaxEpochs
    /\ checkpoint \in [epoch : 0..MaxEpochs, through : 0..MaxItems]
    /\ mail \in 0..MaxMail /\ mailAcked \in 0..MaxMail
    /\ sync \in [phase : {"idle", "pulling", "importing", "acking", "mailing"},
                 pages : 0..MaxPages, known : [epoch : 0..MaxEpochs, through : 0..MaxItems],
                 epoch : 0..MaxEpochs, page : Seq(MessageKinds), full : BOOLEAN,
                 cursor : 0..MaxItems, settled : SUBSET Settlements,
                 last : 0..MaxMail, answer : {"none", "ok", "refused"}]
    /\ acks \subseteq AckRequests /\ imports \subseteq MailRequests
    /\ faults \in 0..MaxFaults

Init ==
    /\ ServerInit
    /\ Home!Init
    /\ call = [c \in {"start", "stop", "show"} |-> Silent]
    /\ sent = {}
    /\ inbox = <<>> /\ homeAcked = 0 /\ homeEpoch = 0 /\ checkpoint = NoCheckpoint
    /\ mail = 0 /\ mailAcked = 0
    /\ sync = IdleSync
    /\ acks = {} /\ imports = {} /\ faults = 0

\* The import loop holds the home's event loop; no other call runs on it meanwhile.
HomeFree == sync.phase # "importing"

-----------------------------------------------------------------------------
(* Starting, stopping and inspecting the worker. *)

OnlyBoard == UNCHANGED <<serverVars, relayed, post, sync, wire>>

CreateTask == HomeFree /\ Home!CreateTask(Task) /\ UNCHANGED calls /\ OnlyBoard

StartWorker ==
    /\ HomeFree
    /\ Home!CreateStartingWorkerDispatch(D, Task, "federated", 0)
    /\ call' = [call EXCEPT !.start = Awaited]
    /\ sent' = sent \cup {"start"}
    /\ OnlyBoard

\* A worker that show or abandon moved on meanwhile refuses what the reply brings.
AfterStart(step) == IF worker[D] = "starting" THEN step ELSE UNCHANGED board

StartAnswered ==
    /\ HomeFree
    /\ call.start.state \notin {"none", "waiting"}
    /\ call' = [call EXCEPT !.start = Silent]
    /\ \/ call.start.state = "ready" /\ AfterStart(Home!MarkWorkerDispatchReady(D))
       \/ call.start.state = "refused" /\ AfterStart(Home!FailWorkerStart(D, FALSE))
       \/ /\ call.start.state = "failed_start"
          /\ \E stalled \in BOOLEAN : AfterStart(Home!FailWorkerStart(D, stalled))
       \/ call.start.state = "start_unknown" /\ AfterStart(Home!MarkWorkerStartUnknown(D))
    /\ homeEpoch' = IF call.start.state = "ready" THEN call.start.epoch ELSE homeEpoch
    /\ UNCHANGED <<serverVars, sent, inbox, homeAcked, checkpoint, post, sync, wire>>

StartTimesOut ==
    /\ HomeFree
    /\ call.start.state = "waiting"
    /\ call' = [call EXCEPT !.start = Silent]
    /\ AfterStart(Home!MarkWorkerStartUnknown(D))
    /\ UNCHANGED sent /\ OnlyBoard

StopWorker ==
    /\ HomeFree
    /\ Home!BeginWorkerStop(D)
    /\ call' = [call EXCEPT !.stop = Awaited]
    /\ sent' = sent \cup {"stop"}
    /\ OnlyBoard

\* Only a worker that is still stopping takes an answer that is not a confirmed stop.
WhileStopping(step) == IF worker[D] = "stopping" THEN step ELSE UNCHANGED board
StopUnknown == WhileStopping(Home!MarkWorkerStopUnknown(D))

StopAnswered ==
    /\ HomeFree
    /\ call.stop.state \notin {"none", "waiting"}
    /\ call' = [call EXCEPT !.stop = Silent]
    /\ \/ call.stop.state = "stopped" /\ (IF worker[D] \in {"stopping", "stop_unknown"}
              THEN Home!ReconcileFederatedWorkerStop(D) ELSE UNCHANGED board)
       \/ /\ call.stop.state \in {"succeeded", "failed", "failed_start"}
          /\ WhileStopping(Home!ResumeFederatedWorkerForTerminalRelay(D))
       \/ call.stop.state \in {"throws", "stop_unknown"} /\ StopUnknown
    /\ UNCHANGED sent /\ OnlyBoard

StopTimesOut ==
    /\ HomeFree
    /\ call.stop.state = "waiting"
    /\ call' = [call EXCEPT !.stop = Silent]
    /\ StopUnknown
    /\ UNCHANGED sent /\ OnlyBoard

AbandonWorker == HomeFree /\ Home!AbandonWorkerDispatch(D) /\ UNCHANGED calls /\ OnlyBoard

-----------------------------------------------------------------------------
(* The sync of the dispatch. *)

\* isFederatedDispatchRelayEligible.
EligibleWhileUnacknowledged(through) == through < Len(inbox)
EligibleAt(through) == Home!Unsettled(D) \/ through < Len(inbox)
Eligible == EligibleAt(homeAcked)

\* syncFederatedDispatchPages reads the federated row, then awaits the pull.
PullPage(pages, known) ==
    sync' = [IdleSync EXCEPT !.phase = "pulling", !.pages = pages, !.known = known]
Known == [epoch |-> homeEpoch, through |-> homeAcked]

\* A sync that ends drops the checkpoint of a dispatch that needs no relay any more.
EndSync(acknowledged, mark) ==
    /\ sync' = IdleSync
    /\ checkpoint' = IF EligibleAt(acknowledged) THEN mark ELSE NoCheckpoint

\* The 1 s timer, or the recovery of settled dispatches.
RelayTick ==
    /\ HomeFree
    /\ sync.phase = "idle"
    /\ Eligible
    /\ PullPage(MaxPages, Known)
    /\ UNCHANGED <<serverVars, board, calls, relayed, post, wire>>

\* worker-show reads the attachment remotely and applies it later.  A report that waits
\* in the queue is fetched by a sync of its own.
ShowWorker ==
    /\ call.show = Silent
    /\ worker[D] # "none" /\ attachment.state \notin {"none", "refused"}
    /\ call' = [call EXCEPT !.show = Answer(attachment.state)]
    /\ UNCHANGED <<serverVars, board, sent, relayed, post, sync, wire>>

ShowAnswered ==
    LET shown == call.show.state
        reported == shown = "succeeded" \/ (shown = "failed" /\ ~LifecycleSettlement)
        open == worker[D] \in {"starting", "start_unknown"}
    IN  /\ HomeFree
        /\ call.show # Silent
        /\ reported => sync.phase = "idle"
        /\ call' = [call EXCEPT !.show = Silent]
        /\ IF reported THEN PullPage(MaxPages, Known) ELSE UNCHANGED sync
        /\ \/ shown = "stopped" /\ worker[D] \in {"stopping", "stop_unknown"}
              /\ Home!ReconcileFederatedWorkerStop(D)
           \/ shown = "stopped" /\ open /\ Home!ReconcileFederatedWorkerEnded(D, "stopped", "other")
           \/ shown = "ready" /\ open /\ Home!ReconcileFederatedWorkerReady(D)
           \/ /\ shown \in {"failed", "failed_start"} /\ open /\ ~reported
              /\ \E cause \in {"stalled", "other"} :
                     Home!ReconcileFederatedWorkerEnded(D, "failed", cause)
           \/ /\ \/ shown \notin {"stopped", "ready", "failed", "failed_start"}
                 \/ reported
                 \/ ~open /\ ~(shown = "stopped" /\ worker[D] \in {"stopping", "stop_unknown"})
              /\ UNCHANGED board
        /\ homeEpoch' = IF shown = "ready" THEN call.show.epoch ELSE homeEpoch
        /\ UNCHANGED <<serverVars, sent, inbox, homeAcked, checkpoint, post, wire>>

\* The pull is answered: a settling protocol replays from the server's watermark.
PullAnswered ==
    LET page == Pulled(Len(inbox))
    IN  /\ sync.phase = "pulling"
        /\ attachment.state \notin {"none", "refused"}
        /\ sync' = [sync EXCEPT !.phase = "importing", !.epoch = epoch, !.page = page,
               !.full = (Len(page) = PageSize),
               !.cursor = IF page = <<>> THEN Len(inbox) ELSE FirstPulled(Len(inbox)) - 1]
        /\ UNCHANGED <<serverVars, board, calls, relayed, post, wire>>

-----------------------------------------------------------------------------
(* importFederatedRelayItem: one transaction for each item of the page. *)

Verdict(outcome) == IF outcome = "succeeded" THEN "completed" ELSE "failed"

\* A replayed report finds the rows as it would leave them.
AlreadySettled(outcome) ==
    /\ dispatch[D].status = Verdict(outcome) /\ task[Task] = Verdict(outcome)
    /\ ~Home!SettledByUnobservedPrompt(D)

\* settleWorkerReportInTransaction, and the action it returns.
SettleReport(outcome, action) ==
    IF AlreadySettled(outcome) THEN action = Verdict(outcome) /\ UNCHANGED board
    ELSE IF Home!AcceptsReport(D)
         THEN action = Verdict(outcome) /\ Home!SettleWorkerReport(D, outcome)
         ELSE action = "rejected" /\ UNCHANGED board

\* A report that names another task is rejected before it reaches the board.
Import(kind, action) ==
    IF kind \in {"succeeded", "failed"} THEN SettleReport(kind, action)
    ELSE action = (IF kind = "mistaken" THEN "rejected" ELSE "none") /\ UNCHANGED board

\* A sequence imported before must still carry its message, and a new one follows the last.
Importable(s, kind) == IF s <= Len(inbox) THEN inbox[s] = kind ELSE s = Len(inbox) + 1

\* A replayed item is not received twice.
ReceivedAgain(s, kind) == Append(inbox, kind)
ReceivedUnlessHeartbeat(s, kind) ==
    IF s > Len(inbox) /\ kind # "heartbeat" THEN Append(inbox, kind) ELSE inbox
Received(s, kind) == IF s > Len(inbox) THEN Append(inbox, kind) ELSE inbox

ImportItem ==
    LET s == sync.cursor + 1
        kind == Head(sync.page)
    IN  /\ sync.phase = "importing" /\ sync.page # <<>>
        /\ Importable(s, kind)
        /\ \E action \in {"completed", "failed", "rejected", "none"} :
               /\ Import(kind, action)
               /\ sync' = [sync EXCEPT !.cursor = s, !.page = Tail(@),
                      !.settled = IF action = "none" \/ ~LifecycleSettlement THEN @
                                  ELSE @ \cup {[seq |-> s, action |-> action]}]
        /\ inbox' = Received(s, kind)
        /\ UNCHANGED <<serverVars, calls, homeAcked, homeEpoch, checkpoint, post, wire>>

ImportThrows ==
    /\ sync.phase = "importing" /\ sync.page # <<>>
    /\ ~Importable(sync.cursor + 1, Head(sync.page))
    /\ EndSync(homeAcked, checkpoint)
    /\ UNCHANGED <<serverVars, board, calls, inbox, homeAcked, homeEpoch, post, wire>>

\* The page is done: the next one, or the end of the sync.
FinishPage(known, mark) ==
    IF sync.full /\ sync.pages > 1
    THEN PullPage(sync.pages - 1, known) /\ checkpoint' = mark
    ELSE EndSync(known.through, mark)

\* What listPendingFederationRelay returns of the home's mail.
PendingMailButTheLast == mailAcked + 1 .. mail - 1
PendingMail == mailAcked + 1 .. mail

\* Past the acknowledgment the sync pushes the home's mail to a ready worker.
ContinuePage(known, mark) ==
    /\ homeEpoch' = known.epoch /\ homeAcked' = known.through
    /\ IF worker[D] = "ready" /\ PendingMail # {}
       THEN /\ sync' = [sync EXCEPT !.phase = "mailing", !.answer = "none", !.last = mail]
            /\ imports' = imports \cup {[first |-> mailAcked + 1, last |-> mail]}
            /\ checkpoint' = mark
       ELSE FinishPage(known, mark) /\ UNCHANGED imports

\* A cursor neither the checkpoint nor the row of this runtime of the server covers is
\* acknowledged.
FinishImport ==
    LET marked == IF checkpoint.epoch = sync.epoch THEN checkpoint.through ELSE 0
        durable == IF sync.known.epoch = sync.epoch THEN sync.known.through ELSE 0
    IN  /\ sync.phase = "importing" /\ sync.page = <<>>
        /\ IF sync.cursor > Larger(marked, durable)
           THEN /\ acks' = acks \cup {[through |-> sync.cursor, settled |-> sync.settled]}
                /\ sync' = [sync EXCEPT !.phase = "acking"]
                /\ UNCHANGED <<relayed, imports>>
           ELSE ContinuePage(Known, checkpoint) /\ UNCHANGED <<inbox, acks>>
        /\ UNCHANGED <<serverVars, board, calls, post, faults>>

\* The last page of a sync that was full leaves one item unacknowledged in the row, so
\* that the dispatch stays eligible.
LocallyAcknowledged ==
    IF sync.full /\ sync.pages = 1 THEN Larger(0, sync.cursor - 1) ELSE sync.cursor

RecordedInAddition(through) == [epoch |-> sync.epoch, through |-> homeAcked + through]
RecordFederatedHomeAcknowledgment(through) ==
    [epoch |-> sync.epoch,
     through |-> IF homeEpoch = sync.epoch THEN Larger(homeAcked, through) ELSE through]

RecordFederationAckCheckpoint(through) ==
    IF checkpoint.epoch = sync.epoch /\ checkpoint.through >= through THEN checkpoint
    ELSE [epoch |-> sync.epoch, through |-> through]

AckAnsweredUnchecked ==
    /\ sync.phase = "acking" /\ sync.answer # "none"
    /\ ContinuePage(RecordFederatedHomeAcknowledgment(LocallyAcknowledged),
                    RecordFederationAckCheckpoint(LocallyAcknowledged))
    /\ UNCHANGED <<serverVars, board, calls, inbox, post, acks, faults>>
AckAnswered ==
    /\ sync.phase = "acking" /\ sync.answer # "none"
    /\ IF sync.answer = "ok"
       THEN ContinuePage(RecordFederatedHomeAcknowledgment(LocallyAcknowledged),
                         RecordFederationAckCheckpoint(LocallyAcknowledged))
       ELSE EndSync(homeAcked, checkpoint) /\ UNCHANGED <<homeEpoch, homeAcked, imports>>
    /\ UNCHANGED <<serverVars, board, calls, inbox, post, acks, faults>>

MailAnsweredUnchecked ==
    /\ sync.phase = "mailing" /\ sync.answer # "none"
    /\ mailAcked' = Larger(mailAcked, sync.last) /\ FinishPage(Known, checkpoint)
    /\ UNCHANGED <<serverVars, board, calls, inbox, homeAcked, homeEpoch, mail, wire>>
MailAnswered ==
    /\ sync.phase = "mailing" /\ sync.answer # "none"
    /\ IF sync.answer = "ok"
       THEN mailAcked' = Larger(mailAcked, sync.last) /\ FinishPage(Known, checkpoint)
       ELSE EndSync(homeAcked, checkpoint) /\ UNCHANGED mailAcked
    /\ UNCHANGED <<serverVars, board, calls, inbox, homeAcked, homeEpoch, mail, wire>>

\* The home gives up a request: it is lost, its answer is, or it is still to arrive.
\* What no runtime of the server will answer any more costs no fault.
Pending ==
    \/ sync.phase = "pulling" /\ attachment.state \notin {"none", "refused"}
    \/ sync.phase = "acking" /\ [through |-> sync.cursor, settled |-> sync.settled] \in acks
    \/ sync.phase = "mailing" /\ \E r \in imports : r.last = sync.last

GiveUp ==
    /\ sync.phase \in {"pulling", "acking", "mailing"} /\ sync.answer = "none"
    /\ Pending => faults < MaxFaults
    /\ faults' = IF Pending THEN faults + 1 ELSE faults
    /\ EndSync(homeAcked, checkpoint)
    /\ UNCHANGED <<serverVars, board, calls, inbox, homeAcked, homeEpoch, post, acks, imports>>

\* A coordinator's message to the worker.
SendMail ==
    /\ HomeFree
    /\ worker[D] = "ready" /\ mail < MaxMail
    /\ mail' = mail + 1
    /\ UNCHANGED <<serverVars, board, calls, relayed, mailAcked, sync, wire>>

\* Calls, syncs and the checkpoint are memory; the rows stay.
HomeRestart ==
    /\ faults < MaxFaults /\ faults' = faults + 1
    /\ call' = [c \in DOMAIN call |-> Silent]
    /\ sync' = IdleSync
    /\ checkpoint' = NoCheckpoint
    /\ UNCHANGED <<serverVars, board, sent, inbox, homeAcked, homeEpoch, post, acks, imports>>

-----------------------------------------------------------------------------
(* The server answers. *)

OnlyAttachment == UNCHANGED <<board, relayed, post, sync, wire>>

Reply(op, state) ==
    call' = IF call[op].state = "waiting" THEN [call EXCEPT ![op] = Answer(state)] ELSE call

AttachStep ==
    /\ \/ /\ "start" \in sent /\ sent' = sent \ {"start"}
          /\ \/ RefuseAttachment /\ Reply("start", "refused")
             \/ CreateRemoteDispatchAttachment /\ UNCHANGED call
       \/ /\ UNCHANGED sent
          /\ \/ PrepareRemoteAttachmentAuthority /\ UNCHANGED call
             \/ MarkRemoteAttachmentReady /\ Reply("start", "ready")
             \/ FailRemoteAttachment(FALSE) /\ Reply("start", "failed_start")
             \/ FailRemoteAttachment(TRUE) /\ Reply("start", "start_unknown")
    /\ OnlyAttachment

StopStep ==
    /\ \/ /\ "stop" \in sent /\ sent' = sent \ {"stop"}
          /\ \E begun \in BOOLEAN :
                 /\ BeginRemoteAttachmentStop(begun)
                 /\ \/ ~begun /\ Reply("stop", "throws")
                    \/ begun /\ attachment.state \in Ended /\ Reply("stop", attachment.state)
                    \/ begun /\ attachment.state \notin Ended /\ UNCHANGED call
       \/ /\ UNCHANGED sent
          /\ \/ SettleRemoteAttachmentStop /\ Reply("stop", "stopped")
             \/ MarkRemoteAttachmentStopUnknown /\ Reply("stop", "stop_unknown")
    /\ OnlyAttachment

WorkerSends ==
    /\ \E kind \in MessageKinds : EnqueueFederationRelay(kind)
    /\ UNCHANGED <<board, calls, relayed, post, sync, wire>>

Answered(waits, reply) ==
    sync' = IF waits /\ sync.answer = "none" THEN [sync EXCEPT !.answer = reply] ELSE sync

AwaitedAck(r) == sync.phase = "acking" /\ r = [through |-> sync.cursor, settled |-> sync.settled]
AwaitedImport(r) == sync.phase = "mailing" /\ r.last = sync.last

AnswerAck(r) ==
    /\ r \in acks /\ acks' = acks \ {r}
    /\ \E reply \in {"ok", "refused"} :
           FederationAck(r.through, r.settled, reply) /\ Answered(AwaitedAck(r), reply)
    /\ UNCHANGED <<board, calls, relayed, post, imports, faults>>

AnswerImport(r) ==
    /\ r \in imports /\ imports' = imports \ {r}
    /\ \E reply \in {"ok", "refused"} :
           FederationImport(r.first, r.last, reply) /\ Answered(AwaitedImport(r), reply)
    /\ UNCHANGED <<board, calls, relayed, post, acks, faults>>

Crash ==
    /\ \/ ServerRestart /\ UNCHANGED <<acks, imports>>
       \/ \E r \in acks, committed \in BOOLEAN :
              CrashInAck(r.through, r.settled, committed) /\ acks' = acks \ {r} /\ UNCHANGED imports
       \/ \E r \in imports, reached \in 0..MaxMail :
              CrashInImport(r.first, r.last, reached) /\ imports' = imports \ {r} /\ UNCHANGED acks
    /\ UNCHANGED <<board, calls, relayed, post, sync, faults>>

-----------------------------------------------------------------------------
HomeCalls == CreateTask \/ StartWorker \/ StartAnswered \/ StartTimesOut \/ StopWorker
                 \/ StopAnswered \/ StopTimesOut \/ AbandonWorker \/ ShowWorker \/ ShowAnswered
                 \/ SendMail \/ HomeRestart
SyncStep == PullAnswered \/ ImportItem \/ ImportThrows \/ FinishImport \/ AckAnswered
                \/ MailAnswered
ServerStep == AttachStep \/ StopStep \/ WorkerSends \/ Crash
                  \/ (\E r \in acks : AnswerAck(r)) \/ (\E r \in imports : AnswerImport(r))

Next == HomeCalls \/ RelayTick \/ SyncStep \/ GiveUp \/ ServerStep

Spec == Init /\ [][Next]_vars

\* The event loop runs the continuations of a sync, the server answers the request the
\* home waits for, and the timer of a dispatch whose start was answered ticks each second.
RelayTimer == RelayTick /\ worker[D] \notin {"starting", "start_unknown"}
Fairness ==
    /\ WF_vars(RelayTimer)
    /\ WF_vars(SyncStep)
    /\ WF_vars(GiveUp /\ ~Pending)
    /\ WF_vars(\E r \in acks : AwaitedAck(r) /\ AnswerAck(r))
    /\ WF_vars(\E r \in imports : AwaitedImport(r) /\ AnswerImport(r))

FairSpec == Spec /\ Fairness

-----------------------------------------------------------------------------
(* Safety. *)

\* The server marks an item acknowledged, and stops replaying it, only when the home has
\* committed it: lost answers, repeated and late requests and crashes lose no message.
AcknowledgedWasImported == acked <= Len(inbox)

\* The row that ends the relay of a settled dispatch says acknowledged only of what the
\* server holds acknowledged.
WatermarkWasAcknowledged == homeAcked <= acked

\* What the worker's server accepted arrives at home once and in order.
Channel == INSTANCE RelayChannel WITH Message <- MessageKinds, accepted <- items, arrived <- inbox
ImplementsChannel == Channel!Spec

\* With lifecycle settlement the attachment ends as succeeded or failed only as the home
\* recorded it: the worker is never told of a completion the Run does not have.
AttachmentFollowsHome ==
    LifecycleSettlement /\ attachment.state \in {"succeeded", "failed"} =>
        outbox[D] = attachment.state

\* The home keeps relaying a settled dispatch until its server has taken the verdict,
\* unless it had told the server before that it rejects that very report.
ToldRejected(outcome) ==
    \E s \in DOMAIN items :
        items[s] = outcome /\ \E through \in Sequences :
            [seq |-> s, action |-> "rejected"] \in ackReceipt[through].settled
RelayOutlivesSettlement ==
    LifecycleSettlement /\ outbox[D] # "none" /\ ~Eligible =>
        attachment.state = outbox[D] \/ ToldRejected(outbox[D])

\* Mail is pushed in order, and the home holds acknowledged only what the worker's server
\* has imported.
MailAcknowledgedWasImported == mailAcked <= mailImported /\ mailImported <= mail

-----------------------------------------------------------------------------
(* Liveness. *)

\* While the home's worker is not settled, what the server accepted reaches the home.
ItemsReachHome ==
    \A s \in Sequences :
        worker[D] = "ready" /\ s <= Len(items) ~> Len(inbox) >= s \/ ~Home!Unsettled(D)

\* Mail for a worker that stays ready reaches its server, unless a crash in the middle of
\* a request left a receipt that answers operation_unknown to every repetition.
ReceiptUnknown ==
    \/ \E m \in 1..MaxMail : mailReceipt[m] = "pending"
    \/ \E s \in Sequences : ackReceipt[s].state = "pending"
MailReachesWorker ==
    \A m \in 1..MaxMail :
        m <= mail ~> \/ mailAcked >= m \/ ReceiptUnknown
                    \/ worker[D] # "ready" \/ attachment.state # "ready"

-----------------------------------------------------------------------------
(* What the tests and the documentation say, and the code does not do. *)

\* "retries a lost relay acknowledgment without duplicating the home message"
\* (orchestration-federation.test.ts): an acknowledgment the server has already recorded
\* is answered when the home repeats it.
RepeatedAckIsAnswered ==
    sync.phase = "acking" /\ sync.answer = "refused" => acked < sync.cursor

\* "A valid worker_done for the active taskId + dispatchId marks the task and dispatch
\* completed automatically" (skill-guides/orchestration.md): what the home imported as a
\* sequence is what the server holds as that sequence.
InboxFollowsQueue == \A s \in 1..Len(inbox) : inbox[s] = items[s]

=============================================================================
