---------------------------- MODULE WorkerTerminal ----------------------------
(***************************************************************************)
(* The terminals of supervised workers: who owns the process a worker runs  *)
(* in, and how orchestration.workerRelease, orchestration.workerStop and the *)
(* recovery after a restart close it.                                       *)
(*                                                                          *)
(* The task board runs beside it: every step here is a step of TaskDispatch  *)
(* or leaves its rows alone.  Only its local and context-only dispatches     *)
(* occur; gates, operators and other servers have no terminal here.          *)
(*                                                                          *)
(* A method of the database is one action.  A release and a stop are        *)
(* continuations: each await is a state of their call (pc), and anything may *)
(* happen there.  A restart of the runtime ends the calls; the rows and, with *)
(* a terminal daemon or a remote host, the processes stay.                   *)
(*                                                                          *)
(* A terminal's handle and pane are one identity, its host never changes,   *)
(* and the process in it is an incarnation, numbered from 1 (0: none yet).    *)
(***************************************************************************)
EXTENDS TaskDispatch

CONSTANT MaxProcesses   \* bound: processes one pane runs after each other

ASSUME ProcessesAssumption == MaxProcesses \in Nat

VARIABLES
    pane,       \* per terminal: its process, whether it runs, whether its exit is unreported
    contact,    \* the terminals whose process the runtime has an open connection to
    attached,   \* dispatch_contexts.process_incarnation
    resource,   \* worker_terminal_resources, by the dispatch that created the row
    archive,    \* the dispatches with a row in worker_terminal_archives
    release,    \* the release in flight of each resource (activeReleaseByRuntime)
    stop,       \* the worker-stop in flight of each dispatch
    recovery,   \* reconcileRequestedWorkerTerminalReleases
    lost        \* the starts and stops an earlier runtime left unfinished

boardVars == <<task, dispatch, worker, gate, outbox>>
processVars == <<pane, contact>>
rowVars == <<attached, resource, archive>>
callVars == <<release, stop, recovery, lost>>
terminalVars == <<pane, contact, attached, resource, archive, release, stop, recovery, lost>>

-----------------------------------------------------------------------------
Incarnations == 0..MaxProcesses
NoPane == [inc |-> 0, up |-> FALSE, exiting |-> FALSE]
PaneRows == [inc : Incarnations, up : BOOLEAN, exiting : BOOLEAN]

OwnershipStates == {"owned", "external", "user_owned", "released"}
ReleaseStates == {"not_requested", "retained", "requested", "releasing", "released", "unknown"}
Committed == {"requested", "releasing", "unknown"}

NoResource == [owner |-> 0, priors |-> {}, ownership |-> "none",
               release |-> "not_requested", byUser |-> FALSE]
ResourceRows ==
    [owner : {0} \cup DispatchIds, priors : SUBSET DispatchIds,
     ownership : OwnershipStates \cup {"none"}, release : ReleaseStates, byUser : BOOLEAN]

Idle == [pc |-> "idle", by |-> 0, recovering |-> FALSE]
ReleaseCalls ==
    [pc : {"idle", "inspecting", "capturing", "closing", "closed"},
     by : {0} \cup DispatchIds, recovering : BOOLEAN]
StopCalls == {"idle", "inspecting", "closing", "closed"}
Quiet == [on |-> FALSE, rerun |-> FALSE, left |-> {}, at |-> 0]

ResourceTypeOK ==
    /\ pane \in [Terminals -> PaneRows]
    /\ contact \subseteq Terminals
    /\ attached \in [DispatchIds -> Incarnations]
    /\ resource \in [DispatchIds -> ResourceRows]
    /\ archive \subseteq DispatchIds
    /\ release \in [DispatchIds -> ReleaseCalls]
    /\ stop \in [DispatchIds -> StopCalls]
    /\ recovery \in [on : BOOLEAN, rerun : BOOLEAN, left : SUBSET (DispatchIds \X DispatchIds),
                     at : {0} \cup DispatchIds]
    /\ lost \subseteq DispatchIds

TerminalInit ==
    /\ Init
    /\ pane = [x \in Terminals |-> NoPane]
    /\ contact = Terminals
    /\ attached = [d \in DispatchIds |-> 0]
    /\ resource = [d \in DispatchIds |-> NoResource]
    /\ archive = {}
    /\ release = [d \in DispatchIds |-> Idle]
    /\ stop = [d \in DispatchIds |-> "idle"]
    /\ recovery = Quiet
    /\ lost = {}

-----------------------------------------------------------------------------
(* Queries. *)

Settled(d) == worker[d] \in SettledStates
PaneOf(d) == dispatch[d].assignee

\* isDispatchProcessCurrent: the pane still has the process the dispatch was given.
IsCurrent(d) == attached[d] # 0 /\ pane[PaneOf(d)].inc = attached[d]
Runs(d) == IsCurrent(d) /\ pane[PaneOf(d)].up

\* getWorkerTerminalResourceByOwner
OwnedBy(d) == {r \in DispatchIds : resource[r].owner = d}

\* A transfer keeps the pane and the process, so a row's identity is its creator's.
SameProcess(r, x, inc) ==
    resource[r].ownership \notin {"none", "released"} /\ PaneOf(r) = x /\ attached[r] = inc

\* workerTerminalResourceHasIdentityConflict
Conflict(r) == \E q \in DispatchIds \ {r} : SameProcess(q, PaneOf(r), attached[r])

\* workerTerminalLeaseIsCurrent: getOrchestrationDispatchAuthority answers for a
\* connected process only.
LeaseIsCurrent(r, d) ==
    Runs(d) /\ PaneOf(d) \in contact /\ ~Conflict(r)

\* listWorkerTerminalReleaseBacklog: the row and its owner, as they are now.
Backlog ==
    {<<r, resource[r].owner>> : r \in {q \in DispatchIds :
                                          resource[q].release \in {"requested", "releasing"}}}

-----------------------------------------------------------------------------
(* Processes. *)

\* Somebody opens a terminal, or a pane whose process has exited gets a new one.
Open(x) ==
    /\ ~pane[x].up /\ ~pane[x].exiting
    /\ pane[x].inc < MaxProcesses
    /\ pane' = [pane EXCEPT ![x] = [inc |-> @.inc + 1, up |-> TRUE, exiting |-> FALSE]]
    /\ UNCHANGED <<boardVars, contact, rowVars, callVars>>

Ended(x) == [pane EXCEPT ![x].up = FALSE, ![x].exiting = x \in contact]

Exit(x) ==
    /\ pane[x].up
    /\ pane' = Ended(x)
    /\ UNCHANGED <<boardVars, contact, rowVars, callVars>>

\* onPtyExit and failActiveDispatchOnExit: the exit fails the pane's active dispatch.
ExitReported(x) ==
    /\ pane[x].exiting
    /\ pane' = [pane EXCEPT ![x].exiting = FALSE]
    /\ IF Occupied(x) = {} THEN UNCHANGED boardVars
       ELSE \E d \in Occupied(x) : FailDispatch(d, TRUE, "other")
    /\ UNCHANGED <<contact, rowVars, callVars>>

\* The connection to the pane's provider drops: its exits go unreported.
Disconnect(x) ==
    /\ x \in contact
    /\ contact' = contact \ {x}
    /\ pane' = [pane EXCEPT ![x].exiting = FALSE]
    /\ UNCHANGED <<boardVars, rowVars, callVars>>

\* The end of a terminal recovery run, at startup or at a reconnect: the releases
\* requested before are taken up again, by the pass that is running if one is.
Reconnect(x) ==
    /\ contact' = contact \cup {x}
    /\ recovery' = IF recovery.on THEN [recovery EXCEPT !.rerun = TRUE]
                   ELSE [Quiet EXCEPT !.on = TRUE, !.left = Backlog]
    /\ UNCHANGED <<boardVars, pane, rowVars, release, stop, lost>>

\* worker_dispatches.runtime_epoch tells the start or the stop that died with it.
Restart ==
    /\ contact' = {}
    /\ pane' = [x \in Terminals |-> [pane[x] EXCEPT !.exiting = FALSE]]
    /\ release' = [d \in DispatchIds |-> Idle]
    /\ stop' = [d \in DispatchIds |-> "idle"]
    /\ recovery' = Quiet
    /\ lost' = lost \cup {d \in DispatchIds : worker[d] \in {"starting", "stopping"}}
    /\ UNCHANGED <<boardVars, rowVars>>

-----------------------------------------------------------------------------
(* Dispatches and their workers. *)

Create(t) == CreateTask(t) /\ UNCHANGED terminalVars

\* A context-only dispatch takes any terminal with a process and no active dispatch.
DispatchTo(d, t, x) ==
    /\ pane[x].up /\ x \in contact
    /\ CreateDispatchContext(d, t, x)
    /\ attached' = [attached EXCEPT ![d] = pane[x].inc]
    /\ UNCHANGED <<processVars, resource, archive, callVars>>

EndContextOnly(d) ==
    /\ dispatch[d].kind = "context"
    /\ ReleaseContextOnlyDispatch(d) \/ FailDispatch(d, FALSE, "other")
    /\ UNCHANGED terminalVars

StartWorker(d, t, retryOf) ==
    /\ CreateStartingWorkerDispatch(d, t, "local", retryOf)
    /\ UNCHANGED terminalVars

Attaches(d, x) ==
    /\ d \notin lost /\ attached[d] = 0
    /\ PrepareStartingWorkerAuthority(d, x)

NewResource(d, ownership) ==
    [resource EXCEPT ![d] = [NoResource EXCEPT !.owner = d, !.ownership = ownership]]

\* The start opened the terminal for its worker.
AttachCreated(d, x) ==
    /\ Attaches(d, x)
    /\ x \in contact
    /\ pane[x].inc = 0 /\ MaxProcesses > 0
    /\ pane' = [pane EXCEPT ![x] = [inc |-> 1, up |-> TRUE, exiting |-> FALSE]]
    /\ attached' = [attached EXCEPT ![d] = 1]
    /\ resource' = NewResource(d, "owned")
    /\ UNCHANGED <<contact, archive, callVars>>

TransferableOfAnyOwner(x, inc) ==
    {r \in DispatchIds :
        /\ SameProcess(r, x, inc)
        /\ resource[r].release \in {"not_requested", "retained"}
        /\ Settled(resource[r].owner)}

\* findTransferableWorkerTerminalResource
Transferable(x, inc) ==
    {r \in DispatchIds :
        /\ SameProcess(r, x, inc)
        /\ resource[r].ownership = "owned"
        /\ resource[r].release \in {"not_requested", "retained"}
        /\ Settled(resource[r].owner)}

MayReuseSettled(x, inc) == TRUE
MayReuse(x, inc) ==
    \A r \in DispatchIds : SameProcess(r, x, inc) => resource[r].release \notin Committed

\* worker-start --terminal: a settled worker's terminal changes hands, any other is
\* recorded as somebody else's; one whose release has begun is refused.
AttachExisting(d, x) ==
    LET inc == pane[x].inc
    IN  /\ Attaches(d, x)
        /\ pane[x].up /\ x \in contact
        /\ MayReuse(x, inc)
        /\ attached' = [attached EXCEPT ![d] = inc]
        /\ IF Transferable(x, inc) = {} THEN resource' = NewResource(d, "external")
           ELSE \E r \in Transferable(x, inc) :
                    resource' = [resource EXCEPT ![r] =
                        [NoResource EXCEPT !.owner = d, !.priors = resource[r].priors \cup {resource[r].owner},
                                           !.ownership = "owned"]]
        /\ UNCHANGED <<processVars, archive, callVars>>

FinishStart(d) ==
    /\ d \notin lost
    /\ \/ MarkWorkerDispatchReady(d)
       \/ \E stalled \in BOOLEAN : FailWorkerStart(d, stalled)
       \/ MarkWorkerStartUnknown(d)
    /\ UNCHANGED terminalVars

\* orchestration.workerShow closes what the runtime that died left open.
ShowAfterRestart(d) ==
    /\ d \in lost
    /\ MarkWorkerStartUnknown(d) \/ MarkWorkerStopUnknown(d)
    /\ lost' = lost \ {d}
    /\ UNCHANGED <<processVars, rowVars, release, stop, recovery>>

\* A report comes from the process the dispatch was given.
Report(d, outcome) ==
    /\ IsCurrent(d)
    /\ SettleWorkerReport(d, outcome)
    /\ UNCHANGED terminalVars

Abandon(d) == AbandonWorkerDispatch(d) /\ UNCHANGED terminalVars

\* The recovery run's inventory does not list the worker's process.
RecoverMissing(d) ==
    /\ attached[d] # 0 /\ PaneOf(d) \in contact
    /\ ~Runs(d)
    /\ ReconcileMissingWorkerTerminal(d)
    /\ UNCHANGED terminalVars

-----------------------------------------------------------------------------
(* What the database records of a release. *)

WithRelease(r, state) == [resource EXCEPT ![r].release = state]

\* settleWorkerTerminalRelease
Settle(r) ==
    IF resource[r].release \in Committed
    THEN [resource EXCEPT ![r].release = "released", ![r].ownership = "released"] ELSE resource

\* markWorkerTerminalReleaseUnknown
MarkUnknown(r) ==
    IF resource[r].release \in {"requested", "releasing"}
    THEN WithRelease(r, "unknown") ELSE resource

\* revertWorkerTerminalReleaseToRetained, for an identity that is not proven
Revert(r) ==
    IF resource[r].release \in {"requested", "releasing"}
    THEN [resource EXCEPT ![r].release = "retained", ![r].byUser = FALSE] ELSE resource

\* worker-retain: a release that has begun to close stays.
RetainableAny(r) == resource[r].release # "released"
Retainable(r) == resource[r].release \in {"not_requested", "retained", "requested"}

Retain(d) ==
    \E r \in OwnedBy(d) :
        /\ Retainable(r)
        /\ resource' = [resource EXCEPT ![r].release = "retained", ![r].byUser = TRUE]
        /\ archive' = archive \ {d}
        /\ UNCHANGED <<boardVars, processVars, attached, callVars>>

\* markWorkerTerminalUserOwned: what the user's typing in the pane takes over.
TakenOver(x) ==
    {r \in DispatchIds :
        /\ resource[r].ownership = "owned" /\ PaneOf(r) = x
        /\ Retainable(r)
        /\ worker[resource[r].owner] # "stopping"}

UserInput(x) ==
    /\ pane[x].up
    /\ TakenOver(x) # {}
    /\ resource' = [r \in DispatchIds |->
           IF r \in TakenOver(x)
           THEN [resource[r] EXCEPT !.ownership = "user_owned", !.release = "retained", !.byUser = FALSE]
           ELSE resource[r]]
    /\ archive' = archive \ {resource[r].owner : r \in TakenOver(x)}
    /\ UNCHANGED <<boardVars, processVars, attached, callVars>>

\* settleDeadWorkerTerminalRelease, after a request of d that was answered retained:
\* d does not own the terminal (any more), or nothing of d's may close it.
SettleDead(d, r) ==
    LET row == resource[r]
    IN  /\ row.ownership # "none" /\ row.release \in {"not_requested", "retained", "unknown"}
        /\ \/ d \in row.priors
           \/ /\ d = row.owner
              /\ worker[d] \in {"stopped", "abandoned"} \/ row.ownership \in {"external", "user_owned"}
        /\ Settled(d) /\ Settled(row.owner)
        /\ PaneOf(r) \in contact /\ ~Runs(r)
        /\ resource' = [resource EXCEPT ![r].release = "released", ![r].ownership = "released"]
        /\ UNCHANGED <<boardVars, processVars, attached, archive, callVars>>

-----------------------------------------------------------------------------
(* The release of a terminal: requested, proven, archived, closed, settled. *)

MayRequestAnyOwned(d, r) == resource[r].release # "released"
\* requestWorkerTerminalRelease, where it does not answer retained or released
MayRequest(d, r) ==
    /\ worker[d] \in {"succeeded", "failed"}
    /\ resource[r].ownership = "owned"
    /\ resource[r].release # "released"

\* completeWorkerTerminalRelease: whoever finds a release in flight shares it.
Joined(r, d, recovering) ==
    IF release[r].pc # "idle" THEN release
    ELSE [release EXCEPT ![r] = [pc |-> "inspecting", by |-> d, recovering |-> recovering]]

RequestRelease(d) ==
    \E r \in OwnedBy(d) :
        /\ MayRequest(d, r)
        /\ resource' = [resource EXCEPT
               ![r].release = IF @ = "releasing" THEN @ ELSE "requested", ![r].byUser = FALSE]
        /\ archive' = IF resource[r].release = "retained" /\ resource[r].byUser
                      THEN archive \ {d} ELSE archive
        /\ release' = Joined(r, d, FALSE)
        /\ UNCHANGED <<boardVars, processVars, attached, stop, recovery, lost>>

At(r, pc) == [release EXCEPT ![r].pc = pc]
Over(r) == [release EXCEPT ![r] = Idle]

\* commitWorkerTerminalArchiveForRelease, and what follows before the next await: the
\* lease is proven again and the terminal's process is told to close.
Commit(r, archived) ==
    LET d == release[r].by
        commits == /\ resource[r].owner = d /\ resource[r].ownership = "owned"
                   /\ resource[r].release = "requested"
        releasing == commits \/ (resource[r].ownership = "owned" /\ resource[r].release = "releasing")
    IN  /\ archive' = IF commits THEN archived ELSE archive
        /\ IF ~releasing
           THEN release' = Over(r) /\ UNCHANGED resource
           ELSE IF ~LeaseIsCurrent(r, d)
           THEN release' = Over(r) /\ resource' = Revert(r)
           ELSE /\ release' = At(r, "closing")
                /\ resource' = WithRelease(r, "releasing")

\* showTerminal has answered (shown) or not: a renderer that rebuilds its graph does not.
Inspected(r, shown) ==
    LET d == release[r].by
    IN  /\ release[r].pc = "inspecting"
        /\ IF ~LeaseIsCurrent(r, d)
           THEN resource' = Revert(r) /\ release' = Over(r) /\ UNCHANGED archive
           ELSE IF ~shown
           THEN /\ resource' = IF release[r].recovering THEN resource ELSE MarkUnknown(r)
                /\ release' = Over(r)
                /\ UNCHANGED archive
           ELSE IF d \in archive THEN Commit(r, archive)
           ELSE release' = At(r, "capturing") /\ UNCHANGED <<resource, archive>>
        /\ UNCHANGED <<boardVars, processVars, attached, stop, recovery, lost>>

\* captureWorkerOutputArchive has the output, or fails and leaves the request.
Captured(r, captured) ==
    /\ release[r].pc = "capturing"
    /\ IF captured THEN Commit(r, archive \cup {release[r].by})
       ELSE release' = Over(r) /\ UNCHANGED <<resource, archive>>
    /\ UNCHANGED <<boardVars, processVars, attached, stop, recovery, lost>>

\* closeTerminal reaches the process it was called for.
Kills(d) == Runs(d) /\ PaneOf(d) \in contact /\ pane' = Ended(PaneOf(d))

ReleaseKills(r) ==
    /\ release[r].pc = "closing"
    /\ Kills(release[r].by)
    /\ release' = At(r, "closed")
    /\ UNCHANGED <<boardVars, contact, rowVars, stop, recovery, lost>>

AfterAnyClose(r, answer) == IF answer = "unavailable" THEN resource ELSE Settle(r)
AfterReceiptState(r, answer) ==
    IF answer = "unavailable" THEN WithRelease(r, "release_pending") ELSE Settle(r)
AfterClose(r, answer) ==
    CASE answer = "killed" -> Settle(r)
      [] answer = "unconfirmed" -> MarkUnknown(r)
      [] answer = "unavailable" -> resource

\* killed: the provider has confirmed the exit.  unavailable: its connection is gone.
ReleaseCloses(r, answer) ==
    /\ release[r].pc \in {"closing", "closed"}
    /\ answer = "killed" => ~Runs(release[r].by)
    /\ resource' = AfterClose(r, answer)
    /\ release' = Over(r)
    /\ UNCHANGED <<boardVars, processVars, attached, archive, stop, recovery, lost>>

-----------------------------------------------------------------------------
(* Stopping a worker: the same close without the archive and without the lease. *)

BeginStop(d) ==
    /\ BeginWorkerStop(d)
    /\ stop' = [stop EXCEPT ![d] = "inspecting"]
    /\ lost' = lost \ {d}
    /\ UNCHANGED <<processVars, rowVars, release, recovery>>

StopAt(d, pc) == [stop EXCEPT ![d] = pc]

\* What the stop records when it cannot tell: nothing if the worker has settled
\* meanwhile, for then markWorkerStopUnknown throws and so does the RPC.
StopUnansweredWhenLive(d) ==
    IF Runs(d) /\ worker[d] = "stopping" THEN MarkWorkerStopUnknown(d) ELSE UNCHANGED boardVars
StopUnanswered(d) ==
    IF worker[d] = "stopping" THEN MarkWorkerStopUnknown(d) ELSE UNCHANGED boardVars

\* live, or unverifiable without a connection; anything else closes nothing, and a worker
\* without a terminal goes the way of one whose terminal does not answer.
StopInspected(d, shown) ==
    /\ stop[d] = "inspecting"
    /\ IF /\ shown /\ IsCurrent(d) /\ (PaneOf(d) \in contact => pane[PaneOf(d)].up)
          /\ \E r \in OwnedBy(d) : resource[r].ownership = "owned"
       THEN stop' = StopAt(d, "closing") /\ UNCHANGED boardVars
       ELSE stop' = StopAt(d, "idle") /\ StopUnanswered(d)
    /\ UNCHANGED <<processVars, rowVars, release, recovery, lost>>

StopKills(d) ==
    /\ stop[d] = "closing"
    /\ Kills(d)
    /\ stop' = StopAt(d, "closed")
    /\ UNCHANGED <<boardVars, contact, rowVars, release, recovery, lost>>

\* settleWorkerStop throws when the exit was reported first, and so does what catches it.
StopCloses(d, killed) ==
    /\ stop[d] \in {"closing", "closed"}
    /\ killed => ~Runs(d)
    /\ IF killed /\ worker[d] = "stopping" THEN SettleWorkerStop(d) ELSE StopUnanswered(d)
    /\ stop' = StopAt(d, "idle")
    /\ UNCHANGED <<processVars, rowVars, release, recovery, lost>>

-----------------------------------------------------------------------------
(* reconcileRequestedWorkerTerminalReleases: one resource of the snapshot after the other. *)

RecoverNext ==
    /\ recovery.on
    /\ recovery.at # 0 => release[recovery.at].pc = "idle"
    /\ IF recovery.left # {}
       THEN \E p \in recovery.left :
                /\ release' = Joined(p[1], p[2], TRUE)
                /\ recovery' = [recovery EXCEPT !.left = @ \ {p}, !.at = p[1]]
       ELSE /\ recovery' = IF recovery.rerun THEN [Quiet EXCEPT !.on = TRUE, !.left = Backlog] ELSE Quiet
            /\ UNCHANGED release
    /\ UNCHANGED <<boardVars, processVars, rowVars, stop, lost>>

-----------------------------------------------------------------------------
ProcessStep ==
    \/ \E x \in Terminals :
           Open(x) \/ Exit(x) \/ ExitReported(x) \/ Disconnect(x) \/ Reconnect(x) \/ UserInput(x)
    \/ Restart

WorkerStep ==
    \/ \E t \in Tasks : Create(t)
    \/ \E d \in DispatchIds :
           \/ \E t \in Tasks, x \in Terminals : DispatchTo(d, t, x)
           \/ EndContextOnly(d)
           \/ \E t \in Tasks, retryOf \in {0} \cup DispatchIds : StartWorker(d, t, retryOf)
           \/ \E x \in Terminals : AttachCreated(d, x) \/ AttachExisting(d, x)
           \/ FinishStart(d)
           \/ ShowAfterRestart(d)
           \/ \E outcome \in {"succeeded", "failed"} : Report(d, outcome)
           \/ Abandon(d)
           \/ RecoverMissing(d)

ReleaseStep ==
    \E d \in DispatchIds :
        \/ RequestRelease(d)
        \/ Retain(d)
        \/ \E r \in DispatchIds : SettleDead(d, r)
        \/ \E shown \in BOOLEAN : Inspected(d, shown)
        \/ \E captured \in BOOLEAN : Captured(d, captured)
        \/ ReleaseKills(d)
        \/ \E answer \in {"killed", "unconfirmed", "unavailable"} : ReleaseCloses(d, answer)

EndStep ==
    \E d \in DispatchIds :
        \/ BeginStop(d)
        \/ \E shown \in BOOLEAN : StopInspected(d, shown)
        \/ StopKills(d)
        \/ \E killed \in BOOLEAN : StopCloses(d, killed)

TerminalNext == ProcessStep \/ WorkerStep \/ ReleaseStep \/ EndStep \/ RecoverNext

TerminalSpec == TerminalInit /\ [][TerminalNext]_<<boardVars, terminalVars>>

-----------------------------------------------------------------------------
(* Safety. *)

Supervised(d) == Unsettled(d) /\ Runs(d)

\* "then closes only the exact agent terminal owned by that settled Dispatch.  Reused or
\* pre-existing terminals, ... active workers, user-taken-over terminals, and identities
\* Orca cannot prove are retained" (skill-guides/orchestration.md): when a release kills a
\* process, its owner's report is in, the process is the owner's own, nobody has taken it
\* over and no supervised worker runs in it; a stop kills its own worker only.
ClosesOnlyItsOwnWorker ==
    [][\A r \in DispatchIds :
        /\ release[r].pc = "closing" /\ release'[r].pc = "closed" =>
              /\ resource[r].ownership = "owned"
              /\ Settled(resource[r].owner)
              /\ Runs(resource[r].owner)
              /\ \A e \in DispatchIds : Supervised(e) => PaneOf(e) # PaneOf(r)
        /\ stop[r] = "closing" /\ stop'[r] = "closed" =>
              /\ worker[r] = "stopping"
              /\ \E q \in OwnedBy(r) : resource[q].ownership = "owned"
              /\ \A e \in DispatchIds \ {r} : Supervised(e) => PaneOf(e) # PaneOf(r)]_<<boardVars, terminalVars>>

\* The worker's output is kept before its terminal is told to close, and no retention,
\* takeover, repeated request or second owner throws it away while it closes.
OutputKeptBeforeClose ==
    \A r \in DispatchIds :
        resource[r].release = "releasing" \/ release[r].pc \in {"closing", "closed"} =>
            resource[r].owner \in archive

\* A terminal accounted as released runs no more: not by a close nobody confirmed, not by a
\* terminal that cannot be found.
ReleasedIsGone ==
    \A r \in DispatchIds : resource[r].release = "released" => ~Runs(r)

\* A worker is stopping only while its stop is under way, or was when the runtime
\* restarted, in which case worker-show records it: every other way out of a stop, its
\* exits and the worker's own end between its steps included, leaves an outcome.
StoppingIsPursued ==
    \A d \in DispatchIds : worker[d] = "stopping" => stop[d] # "idle" \/ d \in lost

\* "Real user keystrokes durably relinquish orchestration ownership ..., so restarts, SSH
\* drops ... cannot erase the takeover" (orchestration-worker-release.ts): a terminal the
\* user took over stays the user's while its process runs.
TakeoverIsDurable ==
    [][\A r \in DispatchIds : resource[r].ownership = "user_owned" /\ Runs(r) =>
          resource'[r].ownership = "user_owned"]_<<boardVars, terminalVars>>

-----------------------------------------------------------------------------
(* What the comments say, and the code does not do. *)

\* "unresolved identity defers (release_pending) rather than settling or broadening the
\* close" (worker-terminal-release-reconciliation.ts): a recovery pass whose terminal is
\* not found yet leaves the request for the next one.
UnfoundReleaseIsDeferred ==
    [][\A r \in DispatchIds :
        /\ release[r].pc = "inspecting" /\ release[r].recovering /\ release'[r].pc = "idle"
        /\ PaneOf(r) \notin contact /\ recovery'.on
        => resource'[r].release = resource[r].release]_<<boardVars, terminalVars>>

=============================================================================
