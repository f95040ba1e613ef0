----------------------------- MODULE RelayServer -----------------------------
(***************************************************************************)
(* The worker's server in a federated dispatch: the attachment of the remote *)
(* worker, the relay queue of what the worker sends home, and the receipts   *)
(* that make the home's acknowledgments and mail idempotent.                 *)
(*                                                                          *)
(* The rows are durable; a handler that awaits a terminal dies in a restart.  *)
(* A message id is minted with the row of a sequence and again when a report  *)
(* takes a heartbeat's row, so sequence and kind stand for the id.           *)
(***************************************************************************)
EXTENDS Integers, Sequences

CONSTANTS
    MessageKinds,           \* the kinds of message the worker sends
    LifecycleSettlement,    \* the negotiated protocol settles on the home's verdict
    Quota,                  \* unacknowledged items a dispatch may hold (256)
    PageSize,               \* items of one pull (50)
    MaxItems,               \* bound: items the worker ever queues
    MaxMail,                \* bound: mail the home ever sends
    MaxEpochs               \* bound: runtimes of the server, restarts included

ASSUME KindsAssumption ==
    MessageKinds \subseteq {"mail", "heartbeat", "succeeded", "failed", "mistaken"}
ASSUME RelayAssumption ==
    /\ LifecycleSettlement \in BOOLEAN
    /\ Quota \in Nat \ {0} /\ PageSize \in Nat \ {0}
    /\ MaxItems \in Nat /\ MaxMail \in Nat /\ MaxEpochs \in Nat \ {0}

VARIABLES
    attachment,     \* remote_dispatch_attachments; live: its handler still runs
    items,          \* federation_relay_items, direction to_home, in sequence
    acked,          \* the items up to here are acknowledged
    ackReceipt,     \* mutation_receipts of relay_ack_<dispatch>_<sequence>
    mailImported,   \* to_worker_imported_sequence
    mailReceipt,    \* mutation_receipts of relay_import_<dispatch>_<sequence>
    epoch           \* the runtime id

serverVars == <<attachment, items, acked, ackReceipt, mailImported, mailReceipt, epoch>>

-----------------------------------------------------------------------------
AttachmentStates == {"none", "refused", "starting", "attached", "ready", "start_unknown",
                     "failed_start", "stopping", "stop_unknown", "stopped", "succeeded", "failed"}
Ended == {"failed_start", "stopped", "succeeded", "failed"}

\* worker_done messages; a mistaken one names another task and the home rejects it.
Reports == {"succeeded", "failed", "mistaken"}
OutcomeOf(kind) == IF kind = "failed" THEN "failed" ELSE "succeeded"
OutcomeSettled(action) == IF action = "completed" THEN "succeeded" ELSE "failed"

Sequences == 1..MaxItems
Settlements == [seq : Sequences, action : {"completed", "failed", "rejected"}]
NoReceipt == [state |-> "none", settled |-> {}]

ServerTypeOK ==
    /\ attachment \in [state : AttachmentStates, live : BOOLEAN]
    /\ items \in Seq(MessageKinds) /\ Len(items) <= MaxItems
    /\ acked \in 0..Len(items)
    /\ ackReceipt \in [Sequences ->
           [state : {"none", "pending", "completed"}, settled : SUBSET Settlements]]
    /\ mailImported \in 0..MaxMail
    /\ mailReceipt \in [1..MaxMail -> {"none", "pending", "completed"}]
    /\ epoch \in 1..MaxEpochs

ServerInit ==
    /\ attachment = [state |-> "none", live |-> FALSE]
    /\ items = <<>>
    /\ acked = 0
    /\ ackReceipt = [s \in Sequences |-> NoReceipt]
    /\ mailImported = 0
    /\ mailReceipt = [s \in 1..MaxMail |-> "none"]
    /\ epoch = 1

Larger(m, n) == IF m < n THEN n ELSE m
Smaller(m, n) == IF m < n THEN m ELSE n

-----------------------------------------------------------------------------
(* federationAttachStart and federationStop: handlers that await terminals. *)

Attached(state, live) ==
    /\ attachment' = [state |-> state, live |-> live]
    /\ UNCHANGED <<items, acked, ackReceipt, mailImported, mailReceipt, epoch>>

\* Preconditions that fail before the row exists answer with a known failure.
RefuseAttachment == attachment.state = "none" /\ Attached("refused", FALSE)

CreateRemoteDispatchAttachment == attachment.state = "none" /\ Attached("starting", TRUE)

PrepareRemoteAttachmentAuthority ==
    attachment.state = "starting" /\ attachment.live /\ Attached("attached", TRUE)

MarkRemoteAttachmentReady ==
    attachment.state = "attached" /\ attachment.live /\ Attached("ready", FALSE)

FailRemoteAttachment(unknown) ==
    /\ attachment.state \in {"starting", "attached"} /\ attachment.live
    /\ Attached(IF unknown THEN "start_unknown" ELSE "failed_start", FALSE)

\* begun is FALSE when the handler throws: no row, or a state that cannot stop.
BeginRemoteAttachmentStop(begun) ==
    IF attachment.state \in {"ready", "start_unknown"}
    THEN begun /\ Attached("stopping", TRUE)
    ELSE begun = (attachment.state \in Ended) /\ UNCHANGED serverVars

SettleRemoteAttachmentStop ==
    attachment.state = "stopping" /\ attachment.live /\ Attached("stopped", FALSE)

MarkRemoteAttachmentStopUnknown ==
    attachment.state = "stopping" /\ attachment.live /\ Attached("stop_unknown", FALSE)

-----------------------------------------------------------------------------
(* The relay queue. *)

Unacked == acked + 1 .. Len(items)
UnackedHeartbeats == {s \in Unacked : items[s] = "heartbeat"}

\* A full queue admits a report in the row of the oldest unacknowledged heartbeat.
Queued(kind) ==
    \/ /\ Len(items) - acked < Quota
       /\ items' = Append(items, kind)
    \/ /\ Len(items) - acked >= Quota
       /\ kind \in Reports
       /\ \E oldest \in UnackedHeartbeats :
              /\ \A s \in UnackedHeartbeats : oldest <= s
              /\ items' = [items EXCEPT ![oldest] = kind]

\* A definition named in PROJECT.json as a mutation stands before the one it breaks.
EnqueueAndSettle(kind) ==
    /\ attachment.state \in {"attached", "ready"}
    /\ kind = "heartbeat" => UnackedHeartbeats = {}
    /\ Len(items) < MaxItems
    /\ Queued(kind)
    /\ attachment' = IF kind \in Reports THEN [state |-> OutcomeOf(kind), live |-> FALSE]
                     ELSE attachment
    /\ UNCHANGED <<acked, ackReceipt, mailImported, mailReceipt, epoch>>

\* sendRemoteMessage and enqueueFederationRelay.  A heartbeat refreshes the one still
\* unacknowledged, and an identical unacknowledged report is the row it repeats: both
\* change nothing here.  Without lifecycle settlement a report settles the attachment.
EnqueueFederationRelay(kind) ==
    LET settles == kind \in Reports /\ ~LifecycleSettlement
    IN  /\ attachment.state \in {"attached", "ready"}
        /\ settles => attachment.state = "ready"
        /\ kind = "heartbeat" => UnackedHeartbeats = {}
        /\ Len(items) < MaxItems
        /\ Queued(kind)
        /\ attachment' = IF settles THEN [state |-> OutcomeOf(kind), live |-> FALSE]
                         ELSE attachment
        /\ UNCHANGED <<acked, ackReceipt, mailImported, mailReceipt, epoch>>

\* federationPull: a settling home replays what is unacknowledged, an older one reads on
\* from what it has imported.
FirstPulled(imported) == (IF LifecycleSettlement THEN acked ELSE imported) + 1
Pulled(imported) ==
    SubSeq(items, FirstPulled(imported), Smaller(Len(items), FirstPulled(imported) + PageSize - 1))

Verdicts(settled) == {OutcomeSettled(s.action) : s \in {r \in settled : r.action # "rejected"}}

\* acknowledgeFederationRelay: every report acknowledged here has its verdict, the verdicts
\* match the reports and each other, and the attachment can take them.
AckAccepted(through, settled) ==
    /\ \A s \in settled :
           /\ s.seq <= through /\ items[s.seq] \in Reports
           /\ s.action # "rejected" => OutcomeSettled(s.action) = OutcomeOf(items[s.seq])
    /\ LifecycleSettlement => \A q \in acked + 1 .. through :
           items[q] \in Reports => \E s \in settled : s.seq = q
    /\ \A v, w \in Verdicts(settled) : v = w
    /\ \A v \in Verdicts(settled) : attachment.state \in {"ready", v}

SettledBy(settled) ==
    IF Verdicts(settled) = {} THEN attachment
    ELSE [state |-> CHOOSE v \in Verdicts(settled) : TRUE, live |-> FALSE]

AckedWithoutSettling(through, settled) ==
    /\ acked' = Larger(acked, through)
    /\ UNCHANGED attachment

AcknowledgeFederationRelay(through, settled) ==
    /\ acked' = Larger(acked, through)
    /\ attachment' = SettledBy(settled)

\* federationAck behind the mutation executor: a completed receipt answers a repeated
\* request, a different payload under the same id is a mismatch, and a receipt a crash
\* left pending answers operation_unknown.  A handler that throws discards its receipt.
FederationAck(through, settled, reply) ==
    LET receipt == ackReceipt[through]
        runs == receipt.state = "none" /\ AckAccepted(through, settled)
    IN  /\ reply = (IF runs \/ receipt = [state |-> "completed", settled |-> settled]
                    THEN "ok" ELSE "refused")
        /\ IF runs
           THEN /\ AcknowledgeFederationRelay(through, settled)
                /\ ackReceipt' = [ackReceipt EXCEPT
                       ![through] = [state |-> "completed", settled |-> settled]]
           ELSE UNCHANGED <<acked, attachment, ackReceipt>>
        /\ UNCHANGED <<items, mailImported, mailReceipt, epoch>>

\* federationImport of the home's mail from first to last: what is new needs a worker
\* that is ready.
ImportAccepted(first, last) ==
    /\ first <= mailImported + 1
    /\ last > mailImported => attachment.state = "ready"

FederationImport(first, last, reply) ==
    LET runs == mailReceipt[last] = "none" /\ ImportAccepted(first, last)
    IN  /\ reply = (IF runs \/ mailReceipt[last] = "completed" THEN "ok" ELSE "refused")
        /\ IF runs
           THEN /\ mailImported' = Larger(mailImported, last)
                /\ mailReceipt' = [mailReceipt EXCEPT ![last] = "completed"]
           ELSE UNCHANGED <<mailImported, mailReceipt>>
        /\ UNCHANGED <<attachment, items, acked, ackReceipt, epoch>>

-----------------------------------------------------------------------------
(* Restarts.  The receipt, the handler and the completed receipt are three        *)
(* transactions: a crash among them leaves the receipt pending.                  *)

NextEpoch == epoch < MaxEpochs /\ epoch' = epoch + 1

ServerRestart ==
    /\ NextEpoch
    /\ attachment' = [attachment EXCEPT !.live = FALSE]
    /\ UNCHANGED <<items, acked, ackReceipt, mailImported, mailReceipt>>

CrashInAck(through, settled, committed) ==
    /\ ackReceipt[through].state = "none"
    /\ NextEpoch
    /\ committed => AckAccepted(through, settled)
    /\ acked' = IF committed THEN Larger(acked, through) ELSE acked
    /\ attachment' = [IF committed THEN SettledBy(settled) ELSE attachment EXCEPT !.live = FALSE]
    /\ ackReceipt' = [ackReceipt EXCEPT ![through] = [state |-> "pending", settled |-> settled]]
    /\ UNCHANGED <<items, mailImported, mailReceipt>>

\* Each item commits on its own: the crash comes after some of them.
CrashInImport(first, last, reached) ==
    /\ mailReceipt[last] = "none"
    /\ reached > mailImported => ImportAccepted(first, last) /\ reached <= last
    /\ NextEpoch
    /\ mailImported' = Larger(mailImported, reached)
    /\ mailReceipt' = [mailReceipt EXCEPT ![last] = "pending"]
    /\ attachment' = [attachment EXCEPT !.live = FALSE]
    /\ UNCHANGED <<items, acked, ackReceipt>>

=============================================================================
