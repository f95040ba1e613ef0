# Verification of the Alicorn orchestration runtime

Alicorn (package name Orca) is an Electron application in which coordinators (agents or people)
hand tasks to coding agents that run in terminals, on this machine or on another server. This
directory models the part that decides *who works on what, whose report counts, and what is told to
whom*: the orchestration database under `src/src/main/runtime/orchestration` and the methods that
drive it. The models are checked with TLC on small instances; their safety properties are proved
with TLAPS for every instance.

All paths below are relative to the repository root; `db/` stands for
`src/main/runtime/orchestration/db/`, `methods/` for `src/main/runtime/rpc/methods/`.

## 1. Inventory

The repository has about 24 700 files. What follows is the part with state machines of its own; the
full list, with what is left out and why, is `components` in `PROJECT.json`.

| component | state | operations | hard behaviour | what makes it correct |
|---|---|---|---|---|
| **task board** (`db/tasks`, `db/dispatch-context`, `db/worker-dispatch`, `db/decision-gates`) | tasks, dispatch rows, worker rows, gates, outbox rows in SQLite | create, move, claim, start, ready, fail, stop, abandon, reconcile, report, gate | callers race: coordinators, operators, worker reports, terminal exits, restarts | one holder per task and terminal; late calls change nothing that is settled; order of dependencies |
| **federation relay** (`db/federation`, `federation-sync.ts`, `runtime-orchestration-federation.ts`) | attachment, queue and receipts on the worker's server; watermarks, checkpoint and mail at home | attach, stop, show, enqueue, pull, import, acknowledge, push mail | lost, late and repeated requests, restarts of either side, full queue, two protocol generations | in order, exactly once; never acknowledged before imported; the worker hears what the home recorded |
| **mutation receipts** (`db/mutation-receipts`, `rpc/orchestration-mutation-executor.ts`) | receipt per caller and request id | begin, complete, discard | crash between receipt and handler, repeated requests | a request takes effect once |
| **runs and deliveries** (`db/runs`, `methods/orchestration-check-run.ts`) | run, its coordinator and consumer generation, deliveries | create, use, take over, check, deliver, acknowledge | two consumers of one mailbox, checks that await and wait, restarts | a fenced consumer marks nothing read; a delivery is handed out again until it is acknowledged |
| **messages and routing** (`db/messages`, `mailbox-owner.ts`, `mailbox-notification-coordinator.ts`, `runtime-message-waiters.ts`) | message rows, waiters in memory | send, reply, route, notify, check, wait, cancel | owners change between routing, reading and waking | read by who owns it; no waiter sleeps on mail that is there |
| **worker terminals** (`db/worker-terminal`, `methods/orchestration-worker-release*.ts`, `methods/orchestration-worker-stop.ts`, `worker-terminal-release-reconciliation.ts`) | who owns a pane's process, the state of its release, the archive | create, transfer, retain, take over, release, stop, recover | awaits between proof and close, exits, lost hosts, restarts, the user's typing | the process closed is the settled worker's own; its output is kept first; released means gone |
| **questions** (`db/questions`) | question state | ask, answer, close | answer racing the end of the dispatch | one answer, to the one who asked |
| **ledger outbox** (`src/main/alicorn/ledger-outbox-drainer.ts`) | outbox rows with attempts and backoff | drain, retry, kill, retain | retry of a write that may have succeeded | rows leave in order and once |
| **coordinator loop** (`coordinator*.ts`) | run state in memory | read messages, re-block gated tasks, dispatch ready tasks | retired: the CLI no longer starts it (`skill-guides/orchestration.md:340`) | its writes are the board's |

**Interactions.** The database is synchronous SQLite in one process; a method is one transaction or
savepoint. Concurrency comes from the RPC handlers that await between two methods, from timers, from
terminal exits reported by the terminal host, and from the worker's server, which is another process
with a database of its own. The relay calls the task board: an imported report is settled on the board
in the same transaction that imports it. A settled report leaves an outbox row in the same savepoint. A terminal's
exit fails the dispatch that runs in it, which is how closing a worker's terminal comes back to the board. A dispatch
decides where its terminal's mail goes: to the dispatch while it is active, to the terminal or its run afterwards.

The hazards of this code, each at its line and with the properties aimed at it, are `hazards` in
`PROJECT.json`.

## 2. Modules

| module | what it is | proofs in |
|---|---|---|
| `TaskDispatch` | the task board, one action per database method | `TaskDispatchProofs`, and on top of it `TaskDispatchReportProofs`, `TaskDispatchBoardProofs` |
| `TaskClaim` | abstract: exclusive claims, each with at most one recorded outcome | `TaskDispatchProofs` |
| `RelayServer` | the worker's server: attachment, queue, receipts | `FederationRelayProofs` |
| `FederationRelay` | the home, the server and the messages between them; contains `TaskDispatch` (`INSTANCE`) for the home's board and extends `RelayServer` | `FederationRelayProofs` |
| `RelayChannel` | abstract: what the server accepted arrives once and in order | `FederationRelayProofs` |
| `RunMailbox` | runs, deliveries, messages and the checks that wait for them; its claims are `TaskClaim` (`INSTANCE`) | `RunMailboxProofs` |
| `AtLeastOnceBox` | abstract: a mailbox whose batch is handed out until it is consumed whole | |
| `WorkerTerminal` | the processes of supervised workers, their release and their stop; extends `TaskDispatch` | `WorkerTerminalProofs`, `WorkerTerminalEndProofs`, `WorkerTerminalCloseProofs` |
| `MCTaskDispatch`, `MCFederationRelay`, `MCRunMailbox`, `MCWorkerTerminal` | instances for TLC | |

### TaskDispatch

State: `task` (`tasks.status`), `dispatch` (rows of `dispatch_contexts`: task, kind, status,
`failure_count`, a two-valued `last_failure`, assignee and the state of the capability), `worker`
(`worker_dispatches.state`), `gate`, and `outbox` (the outcome under the key `step_outcome:<dispatch>`).
A dispatch id is a rowid, so "newest attempt" is the largest id. `last_failure` keeps only what the code
asks of it: whether it is the text of a stalled prompt. A terminal's handle and pane are one identity.

Every action is one method and keeps the method's name (`CreateStartingWorkerDispatch`, `FailDispatch`,
`SettleWorkerReport`, ...). A method that throws or returns early without writing is a step that is not
taken. Trailing work is part of the action: settlement closes sibling dispatches, promotes dependents
and writes the outbox row in one step, as in the code. Operators may ask for any status of
`OperatorStatuses`; runs that ask what happens without overrides leave that set empty.

### RelayServer and FederationRelay

One federated dispatch. On the server: `attachment` (state, and whether the handler that works on it is
alive), `items` (the queue to the home), `acked`, and the receipts of acknowledgments and imports.
At home: the task board, the calls it awaits, `inbox` (what it imported), `homeAcked`/`homeEpoch` (the row's
watermark and the runtime it belongs to), the in-memory `checkpoint`, its `mail`, and `sync`, the
sync in progress. A sync is split where the code awaits: pull, then the import loop (one transaction for
each item; the event loop is held, so other home actions wait), then the acknowledgment, then the mail,
then perhaps the next page. What the code read before the pull and uses after it (`to_home_imported_sequence`
is monotone and read with it; the watermark and its epoch are kept in `sync.known`) is modelled as read
then. `worker-show` is two steps for the same reason: the attachment it applies may be stale.

An acknowledgment's effect passes through the receipt of the mutation executor: request id
`relay_ack_<dispatch>_<sequence>`, payload compared, completed receipt replayed, pending receipt refused. `acks`
and `imports` hold requests on their way, so a request the home gave up may still arrive later.
`GiveUp` is the 15 s timeout of a sync's request and covers a lost request, a lost answer and a late
one. `HomeRestart` and `Crash` lose exactly what is in memory; `CrashInAck` and `CrashInImport` are the
crashes among the transactions of one request.

`LifecycleSettlement` chooses the protocol: with it the server settles its attachment on the verdict the
home sends with the acknowledgment and replays what is unacknowledged; without it the report settles the
attachment when it is queued and the home reads on from what it imported. `mistaken` is a report that
names another task, which the home rejects.

### RunMailbox

State: `run` (its coordinator's terminal and the consumer generation), `message` (address, box, read), `delivery` (its batch, the
generation it was made for, acknowledged or not), the claims of `TaskClaim` (a dispatch takes a task, attaches a terminal, ends)
and `call`, the checks in progress. A box is a run's, a dispatch's or a terminal's. A check is split where the code awaits: *routed*
page by page (the terminal's own mail moves to the run or dispatch that owns it), then the look, then *waiting*, and *woken*,
*expired* or *cancelled* until its continuation runs. `Insert` and `Notices` do what an insertion does before it returns: they put the
message where the trigger of `run-coordinator-mail-routing.ts` says and wake the waiters of every box it may have reached. Creating a run, using it and
taking it over share `Hand`: it unbinds the terminal's other runs, raises the generation, fences the delivery that is out and cancels the waiters.
`told` and `quiet` are history: the deliveries a consumer was given, and the boxes whose mail was moved without a notice.

### WorkerTerminal

Every step is a step of `TaskDispatch` (its local and context-only dispatches) or leaves the board alone. Added state: `pane`
(a terminal's process, as a numbered incarnation, whether it runs and whether its exit is still to be reported), `contact` (the
terminals the runtime is connected to), `attached` (the process a dispatch was given), `resource` (`worker_terminal_resources`: owner, former
owners, ownership, state of the release), `archive`, and the calls in flight: `release` for each resource (a second caller shares it), `stop` for each worker and
`recovery`, the pass after a terminal recovery. `lost` are the starts and stops of an earlier runtime, which `worker_dispatches.runtime_epoch` tells.

A release goes *inspecting* (`showTerminal`), *capturing* (the output), then, without an await, commits the archive, proves the lease
again and calls `closeTerminal` (*closing*); `ReleaseKills` is the process ending by it, *closed*, and `ReleaseCloses` the answer, which may come without the other. A stop
is the same without archive and lease. `Exit` is any other end of a process, `ExitReported` the runtime's reaction, which fails the active dispatch;
`Disconnect` loses reports, `Restart` loses the calls and every connection and leaves processes running, `Reconnect` is the end of a recovery run.

## 3. Runs

Half a minute to three minutes for each passing run and seconds for the violations, with two workers.

| run | shows |
|---|---|
| `board` | a chain of two tasks, two attempts, a gate, an operator who reopens, completes and fails tasks: who holds a task and a terminal, whose report counts, which capability still speaks, what the ledger is told, that nothing is stranded; the inductive invariant of the proofs |
| `dag` | two tasks in a chain, three attempts, no operator: dependency order, finality, superseded reports; refinement of `TaskClaim` |
| `relay_settle` | fair, settling protocol, a report and a mistaken one in any order, two pages a sync, one fault: the attachment follows the home, the relay lives until it does, what the server accepted reaches the home of a worker that is not settled; refinement of `RelayChannel` |
| `relay_restart` | settling protocol, full queue, a restart of the server at any point and one fault: nothing is acknowledged that was not imported |
| `relay_legacy` | fair, older protocol, a restart of the server at any point and one fault: mail is never taken for imported that was not, and reaches the server of a worker that stays ready unless a crash left a receipt pending |
| `mailbox` | two runs and two terminals that take them from each other, a dispatch, two checks at once that look, wait or peek, restarts: each run has one coordinator, mail is read by its owner, deliveries do not overlap, nobody waits for mail that is there; refinement of `AtLeastOnceBox` by each run's mailbox |
| `terminals` | two attempts on one terminal with two processes, releases, stops, retention, takeover and recovery among exits, lost connections and restarts: only the settled worker's own process is closed and only after its output is kept, released means gone, a stop leaves an outcome, a takeover lasts |

### Disagreements found

Each of these is a run that TLC must find violated; the finding in `PROJECT.json` quotes the text the code departs from.

| run | what happens |
|---|---|
| `failures` | failures of supervised starts never add up: three failed attempts do not break the circuit |
| `regate` | answering a gate a second time reopens a completed task |
| `relay_repeat` | an acknowledgment whose answer is lost is repeated without its verdict and refused for ever |
| `relay_overwrite` | a full queue puts the report under the sequence of a heartbeat that was imported |
| `unfound` | the lease is checked before the terminal that is not found is deferred: after a restart, the recovery of one host reverts to *retained* the releases requested of terminals on every host that is not back yet |

The models reach more states that a reader of the code may not expect. They have no run; they are
told here because they bound what the passing runs can say.

- *Two gates.* `resolveGate` (`db/decision-gates/decision-gate-store.ts:107`) makes the task ready although a second
  gate of it is pending. No run has two gates.
- *A resumed federated start.* A stop of a federated start of unknown outcome that finds a report
  (`db/worker-dispatch/worker-dispatch-stop.ts:184`) makes the worker ready and leaves the dispatch row pending, and
  the report is then rejected as inactive. `ReadyWorkerCanReport` speaks of local workers for this reason.
- *A crash between receipt and handler.* The acknowledgment's pending receipt survives the restart and every repetition
  is answered `operation_unknown` (`src/main/runtime/rpc/orchestration-mutation-executor.ts:83`): until something later is acknowledged the
  watermark does not move and the mail behind the acknowledgment is not pushed. `MailReachesWorker` exempts a pending receipt.
- *A late verdict.* An acknowledgment that arrives late settles the report with a verdict the home has changed
  since (`db/federation/federation-relay-ack.ts:110`), and the next one finds nothing to settle.
  `RelayOutlivesSettlement` exempts a report whose rejection the server was told.
- *A report that overtakes its start.* A sync may import the report between the server's answer and
  `methods/orchestration-federated-worker-start.ts:210`; on the older protocol it is rejected and spent, and the
  home waits for it until the dispatch is stopped or abandoned. `ItemsReachHome` says the report arrives, not that it is accepted.

- *A dispatched task nobody holds.* With an operator who asks for `dispatched`, recovery of a stopping worker leaves the task dispatched without a
  dispatch; with one who asks for `pending`, a task whose dependencies are done is stranded. `board` leaves these two statuses out (`blocked` holds too, and costs states).
- *A peek that consumes.* A worker's `check --peek --wait` marks what it waited for as read (`methods/orchestration-check-worker.ts:182`, against
  `src/cli/specs/orchestration.ts:93`). The same check without `--wait` does not.
- *Mail left behind.* Mail unread in a dispatch's mailbox when the dispatch ends is moved to the run only by a check of that worker that is in
  progress. A check's own routing wakes nobody: a second check of the same box may wait on mail the first has moved in (`quiet` exempts it from
  `NoMissedMail`). A reply marks its original read without an acknowledgment. Worker and direct checks read at most once: an answer that is lost takes its mail with it.
- *A coordinator that was a worker.* A direct check that has waited reads direct mail although its terminal has meanwhile become a worker's.
- *An exited worker is retained.* The lease wants a connected process, so a release of a worker that has exited is answered
  `retained`, and the branch that reports `closed_exited_terminal` is not reached.
- *A context-only guest.* A context-only dispatch records no resource: on a settled worker's terminal it is closed by that worker's release. `ClosesOnlyItsOwnWorker` protects supervised workers.
- *A shared release.* A release that joins one in flight gets its answer, also if that one began for the terminal's former owner; such a call may revert the new owner's request.
- *Takeover too late.* Typing during a stop, or once a release is committed or unknown, is not recorded.
- *A stop cut by a restart* leaves the worker stopping until `worker-show`, its exit or recovery; `StoppingIsPursued` says nothing else does.

`RelayChannel` compares whole queues, so `relay_settle` uses a quota that its two items do not reach; with the quota
reached the refinement fails, as `relay_overwrite` shows. That is the hypothesis `[]QueueHasRoom` of the theorem about it (section 4). `AcknowledgedWasImported`
and `WatermarkWasAcknowledged` hold with the quota reached, and `relay_restart` reaches it.

### Bounds

- Tasks: one or two. The board's rules relate a task, its dependencies and its own dispatches;
  two tasks in a chain or side by side reach each of them.
- `MaxDispatches` 2 or 3: a first attempt, a retry, and a second retry whose predecessors may both report.
- `MaxGates` 0 or 1: a gate that is asked, answered and answered again.
- One terminal: two tasks and a context-only claim compete for it. The proofs hold for any number. Two where a mailbox or a host is taken from another.
- `MaxMessages`, `MaxDeliveries`, `MaxGeneration` 2, `Batch` 1: a delivery handed out again while newer mail waits, the next one, and a take-over; `Mailed` names the
  run that is written to, `Waking` the kind of messages a filtered wait answers to. Two checks: one waits while the other reads or takes over.
- `MaxProcesses` 2: the pane of a worker that exited runs somebody else's process. One task and two dispatches: a worker, and its retry on the same terminal.
- `BreakAfter` is 2 in `board`, so that two attempts break the circuit; 3, the code's value, elsewhere.
- `MaxItems` 2 (1 in `relay_legacy`), `PageSize` 1 or 2, `MaxPages` 1 or 2: the page is full, the queue is left with an unacknowledged
  item on the last page, and the next page exists. `Quota` 1 is reached by one heartbeat; 3 is not reached.
- `MaxMail` 1: an import of mail that a crash cuts, repeated. `MaxEpochs` 2: one restart of the server.
- `MaxFaults` 1: one request given up, or one restart of the home. A request that no runtime of the server will
  answer may be given up without costing a fault.

`CHECK_DEADLOCK FALSE` everywhere: an orchestration with all tasks settled really is at rest, and so is
a relay that is no longer eligible.

### Fairness

`FairSpec` assumes what the event loop and the timer give: the relay's 1 s timer ticks while the dispatch is
eligible (from the moment the start was answered or reconciled, which is when the code ensures the timer); a sync in progress continues when its
answer is there; the server answers the request the home is waiting for; a request whose server cannot
answer any more times out. Nothing is assumed of operators, coordinators, workers, late requests or
crashes, and faults are finite. `mailbox` and `terminals` state no liveness: whether a coordinator checks again, a user lets go of a terminal or
a provider confirms an exit is up to them, and the code gives up a waiting check by its timeout, a close by its answer.

## 4. Proofs

Everything below is proved for every set of tasks and terminals, every dependency relation and every bound. The assumptions are those
the modules declare of their constants: dependencies are tasks, bounds are naturals, the null values are not members, operators ask for
statuses that exist; a theorem that needs more of the operators says so in its statement.

### The task board

| module | theorems | rest on |
|---|---|---|
| `TaskDispatchProofs` | `TypeOK`, `OneActiveDispatchPerTask`, `OneActiveDispatchPerTerminal`, `ActiveDispatchHoldsTask`, `SettledWorkerHoldsNothing` | `IInv` |
| `TaskDispatchReportProofs` | `CapabilityDiesWithDispatch`, `OutboxAgreesWithDispatch`, `ReadyWorkerCanReport`, `SettledDispatchIsFinal` | `SInv` beside `IInv` |
| `TaskDispatchBoardProofs` | `DispatchedTaskHasDispatch`, `WorkerSettlesWithDispatch`, if no operator asks for *dispatched* | `BInv` beside `IInv` |
| `TaskDispatchBoardProofs` | `NoStrandedPending`, if no operator asks for *pending*; `CompletedTaskIsFinal`, `SupersededReportsAreRejected`, `DependenciesRespected`, without operators and gates | what each method leaves of open tasks (`KeepsOpen`), `IInv` |
| `TaskDispatchProofs` | `ImplementsTaskClaim` | `IInv` |

*`IInv`, why an inductive invariant.* "A task has one active dispatch" alone is not preserved: a retry checks only
that the newest attempt has ended, so one must know that no older attempt is active (`ActiveIsLatest`); a plain start checks only that the
task is ready, so one must know that an active dispatch keeps its task dispatched or blocked (`ActiveDispatchHoldsTask`); an
open start is reconciled by methods that do not look at its row, so one must know that it is pending
(`StartingIsPending`); a retry takes a row whose worker is settled as over (`SettledWorkerHoldsNothing`). `RowsBelongToTasks` keeps
fresh rows apart from existing ones. `IInv` is their conjunction; `NextIInv` has one lemma for each action.
The lemmas on actions that only close rows, that only move one row within the active statuses, and that add
one row share `ClosingPreserves`, `MovingPreserves` and `ClaimPreserves`.

*`SInv`.* A report is accepted when its capability is live or its failure is the correctable one, so the finality of a dispatch, the outbox and
the readiness of a worker are one statement about rows: which pairs of dispatch status, worker state, capability and enqueued outcome
occur together. Each method writes several of these columns at once; the lemmas follow the method, and the rows it does not name are framed once.

*`BInv`.* That a dispatched task has a dispatch cannot be kept if an operator may write *dispatched* into any task (or into a blocked one, while its
worker is being stopped); the theorem assumes that none does, and then only claims make a task dispatched. The converse direction, that a worker without an outcome has an
active dispatch, needs to know of a task whose worker's fate is open that nothing but that worker's own stop, show or abandon unblocks it (`OpenFateBlocksTask`).

*Order.* `NoStrandedPending` is preserved because only `Moved` completes a task, and it promotes what waited for it. Dispatches, starts, stops and peers move a task among
*ready*, *dispatched*, *failed* and *blocked* only (`KeepsOpen`): without operators and gates nothing leaves *completed* and only promotion leaves *pending*, so a task
handed out has had its dependencies completed, and they stay so.

*`ImplementsTaskClaim`.* An active dispatch is a held claim; every
action takes, attaches, releases or reports one claim, or leaves them all alone. Under `IInv` no action closes two active dispatches, which is what makes
`SettleActive` a single release.

### The terminals of workers

`TerminalsKeepTheBoard` (`WorkerTerminalProofs`) shows that `TerminalSpec` implements `Spec`: what is proved of the board holds beside processes, releases,
stops, recoveries and restarts. `BoardBeneath` carries `BInv` over as well, and needs no assumption there, for this composition has no operators.
All six properties of the run `terminals` are theorems, from four invariants, each stacked on the one before.

- `RInv` (`WorkerTerminalProofs`): rows, owners and archives. A worker owns one terminal (`OneTerminalPerOwner`), so an archive that is removed for one terminal is
  not the archive of another; a release that closes has its row *releasing* and a row *releasing* has its archive. From it `ResourceTypeOK`, `OutputKeptBeforeClose`,
  `TakeoverIsDurable` (a row of the user's is *retained*, and no outcome of a release applies to a retained row).
- `StoppingIsPursued` is inductive together with `IInv`: of the steps that end a stop's call each writes an outcome, of those that do not each leaves the call.
- `GInv` (`WorkerTerminalEndProofs`): owners, callers of a release and the pairs a recovery pass has left all *share* the process of the row (`SameAs`), whatever
  transfers happened since they read it. Processes only advance (`ProcessesAdvance`), so what one of them saw gone is gone for all, for ever: `ReleasedIsGone`.
- `CInv` (`WorkerTerminalCloseProofs`): a committed row is owned by a settled worker; every running worker has a row of its own for its process, so the conflict check of a release
  that proves its lease sees it, and from then on `worker-start --terminal` refuses the pane (`NobodyElseInside`); a stop in flight still holds its worker or the process is
  gone (`StopHoldsWorker`), and holds its terminal, since a user's takeover waits for it (`StopOwnsTerminal`). From it `ClosesOnlyItsOwnWorker`. For the other worker of a stop the board is needed: two
  unsettled workers in one pane would be two active dispatches on one terminal.

### The mailboxes of runs

All eight properties of the run `mailbox` are theorems of `RunMailboxProofs`, for any number of runs, terminals, claims, checks and messages and any size of batch.

- `MInv`: `TypeOK`, `MessagesOK`, `OneRunPerTerminal`, `DeliveriesOK`, `CallsOK`. That two deliveries to one consumer share no message (`DeliveriesDoNotOverlap`)
  is not inductive: the next batch is taken of what is unread, so one must know that everything handed to this generation is outstanding, in which case there is no next batch,
  or acknowledged and read (`DeliveryKept`), and that a delivery never is ahead of its run's generation, so that raising it makes every older delivery another consumer's. That the one who waits
  is the consumer (`WaitersOK`) needs the take-over to cancel whoever waits in each mailbox whose generation it raises. From it `TypeOK`, `OneRunPerTerminal`,
  `OutstandingIsCurrent`, `DeliveriesDoNotOverlap`, `WaiterIsCurrent`, and with a lemma for each action that marks mail read, `MailIsReadByItsOwner`.
- `NInv` adds where mail and checks may be: mail in a dispatch's mailbox is of the dispatch's run, and a dispatch never taken has none (`MailPlaced`); a check of such a mailbox is of that run
  too, and one of a terminal's mailbox is that terminal's (`CallsPlaced`).
  A message is then found by the waiter of its new mailbox, so each step that moves mail either announces it there or leaves it *quiet* (`WellMoved`), and each that begins
  to wait has looked (`WellWaiting`). From it `NoMissedMail`.
- `HInv` adds that what is handed out is in its run's mailbox (`BatchesInBox`). Then each step is, for each run, a step of `AtLeastOnceBox` or none: mail arrives or is
  answered (`ArrivingIsArrival`), the consumer is done and handed the oldest of the rest (`DoneIsStep`, `NextBatchIsStep`), or is replaced (`HandReplaces`); the other runs' mailboxes stay as they are (`OthersStay`). This is `ImplementsAtLeastOnceBox`.

### The federation relay

All safety properties of the runs `relay_settle`, `relay_restart` and `relay_legacy` are theorems of `FederationRelayProofs`, for both protocol generations, every quota and
page size, and any number of items, mails, pages, restarts and faults. They follow from one inductive invariant, `RelayInv`, which says of everything
in memory or on its way what the rows still hold of it, for a request that is late is still believed when it arrives.

- `Cursors`, `MailCursors`: the cursor of a sync, its page, the acknowledgments on their way and the completed receipts stay within what the home imported, and that within the
  queue. The server acknowledges whatever a request names, and the home records whatever an answer acknowledges, so the bound must hold of the request when it is sent, of the receipt that
  replays it, and of an answer read by a sync that began before a restart. From them `AcknowledgedWasImported`, `WatermarkWasAcknowledged`, `MailAcknowledgedWasImported`.
- `Carried`: what was imported, and the page about to be, is in the queue under its sequence, or was a heartbeat whose row a report took.
- `AnswersHold`: an answer to a start or a show that names an end names the attachment's end, however late the home applies it.
- `VerdictsHold`: a verdict in memory, or in an acknowledgment on its way, is that of the home's outbox, unless the attachment is in a state that no report can have reached
  (`Unreported`). The exception is needed: the home calls a report *failed* also if it has itself failed the start, and then there is no outbox row to agree with. From it
  `AttachmentFollowsHome`.
- `ReportsJudged`: each acknowledged report stands in a receipt with its verdict, and the attachment took that verdict unless it is a rejection; with `OutcomeImported`, no outcome
  without an imported report, this gives `RelayOutlivesSettlement`.
- `HomeRow`: what the one row of the board says, which each of the methods the relay calls keeps (`QuietBoard`).

The other theorems:

- `RelayIsAChannelButForHeartbeats`, without a hypothesis: every step is a step of `RelayChannel`, or a report takes the row of an unacknowledged heartbeat while the queue is full
  (`HeartbeatReplaced`), or that heartbeat still arrives, from a page pulled before (`ReplacedHeartbeatArrives`). Nothing but a heartbeat is ever lost or arrives in another's place.
- `RelayImplementsChannel` and `InboxesFollowQueues`: `ImplementsChannel` and `InboxFollowsQueue` if the queue always has room (`QueueHasRoom`), or the worker sends no heartbeats. Without it both are
  false: `relay_overwrite` is the counterexample. The step needs `Exact`: the page in memory is the queue's, so what is imported next is what was accepted under that sequence.
- `RelayKeepsTheBoard`: `Spec => Home!Spec`, so each behaviour of the relay is one of the task board and what `Spec` of `TaskDispatch` implies holds of the home's board. The prover does not carry a theorem
  through `INSTANCE` with a substitution, so that last inference is the reader's, and the board facts needed here are proved here (`HomeRow`).
- `EndedAttachmentsStay` and `FirstOutcomeStands`, from the same invariant: an attachment that ended never changes again, and the outcome recorded first is not replaced by a replay or a second report.

### Only model-checked

Liveness (`ItemsReachHome`, `MailReachesWorker`), which is out of the prover's reach, as is `ENABLED`; and the statements that the violation runs refute, for which there is nothing to prove.

## 5. Not modelled

- In the task board: gate timeouts and `completeDispatch` (no production caller), `reset`, nesting depth,
  heartbeat times, interruption capture. With an operator who may
  ask for `dispatched`, `DispatchedTaskHasDispatch` is out of the code's hands and is checked without that
  status.
- In the relay: questions and replies, the check that the peer is still the same, capabilities of remote panes,
  the byte quota (the item quota stands for both), the limit of 50 mails a push, the probe of the server's
  capabilities before a stop (a failing probe is a stop that times out), change of database, several dispatches.
- In the mailbox: legacy runs, groups, federated attachments, detached and reminted handles, `--all` and history, the pointer typed into a
  terminal, the reconciliation of reports (the board's). The pages routed when a dispatch ends or a notice is given are one step; a check's own pages are steps.
- In the terminals: what an archive contains, setup terminals, the backfill of older rows, providers without `stopAndWait` (whose
  closes are unconfirmed), how the local worker-start opens a terminal and delivers its prompt.
- Components listed as `not_modelled` in `PROJECT.json`, each with the reason.

## 6. Plan

In this order, each with its runs and, where named, its proofs.

1. The receipts of the local worker-start over `WorkerTerminal`: one request, one worker.
2. `LedgerOutbox`: the drainer's retries, backoff and death; the row a settlement leaves is sent or dead, in order.
3. `Questions`: ask, answer and close, locally and over the relay.
