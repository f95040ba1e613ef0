------------------------- MODULE WorkerTerminalProofs -------------------------
(***************************************************************************)
(* Proofs about the terminals of supervised workers, for any number of      *)
(* dispatches, terminals and processes, and any interleaving of releases,   *)
(* stops, exits, takeovers, recoveries and restarts.                        *)
(***************************************************************************)
EXTENDS WorkerTerminal, TaskDispatchProofs

-----------------------------------------------------------------------------
(* The board beneath.                                                         *)

LEMMA ProcessStepOnBoard == ProcessStep => [Next]_vars
<1> SUFFICES ASSUME ProcessStep PROVE [Next]_vars OBVIOUS
<1>1. \/ UNCHANGED boardVars
      \/ \E d \in DispatchIds : FailDispatch(d, TRUE, "other")
  BY DEF ProcessStep, Open, Exit, ExitReported, Disconnect, Reconnect, UserInput, Restart,
         Occupied
<1>2. CASE UNCHANGED boardVars BY <1>2 DEF boardVars, vars
<1>3. CASE \E d \in DispatchIds : FailDispatch(d, TRUE, "other")
  BY <1>3 DEF Next, ContextStep
<1> QED BY <1>1, <1>2, <1>3

LEMMA WorkerStepOnBoard == WorkerStep => [Next]_vars
<1> SUFFICES ASSUME WorkerStep PROVE Next OBVIOUS
<1>1. CASE \E t \in Tasks : Create(t)
  BY <1>1 DEF Create, Next, TaskStep
<1>2. ASSUME NEW d \in DispatchIds, NEW t \in Tasks, NEW x \in Terminals, DispatchTo(d, t, x)
      PROVE  Next
  BY <1>2 DEF DispatchTo, Next, ContextStep
<1>3. ASSUME NEW d \in DispatchIds, EndContextOnly(d) PROVE Next
  <2>1. CASE ReleaseContextOnlyDispatch(d) BY <2>1 DEF Next, ContextStep
  <2>2. CASE FailDispatch(d, FALSE, "other") BY <2>2 DEF Next, ContextStep
  <2> QED BY <1>3, <2>1, <2>2 DEF EndContextOnly
<1>4. ASSUME NEW d \in DispatchIds, NEW t \in Tasks, NEW retryOf \in {0} \cup DispatchIds,
             StartWorker(d, t, retryOf)
      PROVE  Next
  <2>1. CreateStartingWorkerDispatch(d, t, "local", retryOf) BY <1>4 DEF StartWorker
  <2>2. "local" \in {"local", "federated"} OBVIOUS
  <2> QED BY <2>1, <2>2 DEF Next, StartStep
<1>5. ASSUME NEW d \in DispatchIds, NEW x \in Terminals,
             AttachCreated(d, x) \/ AttachExisting(d, x)
      PROVE  Next
  BY <1>5 DEF AttachCreated, AttachExisting, Attaches, Next, StartStep
<1>6. ASSUME NEW d \in DispatchIds, FinishStart(d) \/ ShowAfterRestart(d) PROVE Next
  BY <1>6 DEF FinishStart, ShowAfterRestart, Next, StartStep, StopStep
<1>7. ASSUME NEW d \in DispatchIds, NEW outcome \in {"succeeded", "failed"}, Report(d, outcome)
      PROVE  Next
  BY <1>7 DEF Report, Next, ReportStep
<1>8. ASSUME NEW d \in DispatchIds, Abandon(d) \/ RecoverMissing(d) PROVE Next
  BY <1>8 DEF Abandon, RecoverMissing, Next, StopStep
<1> QED BY <1>1, <1>2, <1>3, <1>4, <1>5, <1>6, <1>7, <1>8 DEF WorkerStep

LEMMA EndStepOnBoard == EndStep => [Next]_vars
<1> SUFFICES ASSUME EndStep PROVE [Next]_vars OBVIOUS
<1>1. PICK d \in DispatchIds :
          \/ UNCHANGED boardVars
          \/ BeginWorkerStop(d) \/ MarkWorkerStopUnknown(d) \/ SettleWorkerStop(d)
  BY DEF EndStep, BeginStop, StopInspected, StopKills, StopCloses, StopUnanswered
<1>2. CASE UNCHANGED boardVars BY <1>2 DEF boardVars, vars
<1>3. CASE BeginWorkerStop(d) \/ MarkWorkerStopUnknown(d) \/ SettleWorkerStop(d)
  BY <1>3 DEF Next, StopStep
<1> QED BY <1>1, <1>2, <1>3

LEMMA ReleaseStepOnBoard == ReleaseStep \/ RecoverNext => UNCHANGED vars
BY DEF ReleaseStep, RequestRelease, Retain, SettleDead, Inspected, Captured, ReleaseKills,
       ReleaseCloses, RecoverNext, boardVars, vars

\* A step of the terminals is a step of the task board, or none.
LEMMA TerminalStepOnBoard == [TerminalNext]_<<boardVars, terminalVars>> => [Next]_vars
<1>1. UNCHANGED <<boardVars, terminalVars>> => UNCHANGED vars BY DEF boardVars, vars
<1> QED BY <1>1, ProcessStepOnBoard, WorkerStepOnBoard, EndStepOnBoard, ReleaseStepOnBoard
        DEF TerminalNext

\* Terminals, releases, stops, recoveries and restarts add no behaviour to the task board:
\* whatever is proved of it holds beside them.
THEOREM TerminalsKeepTheBoard == TerminalSpec => Spec
<1>1. TerminalInit => Init BY DEF TerminalInit
<1> QED BY <1>1, TerminalStepOnBoard, PTL DEF TerminalSpec, Spec

-----------------------------------------------------------------------------
(* The rows of terminal resources and the releases in flight.                 *)

\* A dispatch has a resource row only if it was attached, and every row has an owner.
AttachedHasRow ==
    \A r \in DispatchIds : resource[r] = NoResource \/ (attached[r] # 0 /\ resource[r].owner # 0)

\* Who owns a terminal was attached to it, and owns no other: an archive removed for one
\* terminal is not the archive of another.
OwnersAttached == \A r \in DispatchIds : resource[r].owner # 0 => attached[resource[r].owner] # 0
OneTerminalPerOwner ==
    \A r, q \in DispatchIds : resource[r].owner # 0 /\ resource[r].owner = resource[q].owner => r = q

\* While a close is on its way the row says releasing, so nobody retains it or takes it.
ClosingIsReleasing ==
    \A r \in DispatchIds : release[r].pc \in {"closing", "closed"} => resource[r].release = "releasing"

ReleasingIsArchived ==
    \A r \in DispatchIds : resource[r].release = "releasing" => resource[r].owner \in archive

\* The user's terminals are retained: no release of them is requested.
UserKeepsTerminal ==
    \A r \in DispatchIds : resource[r].ownership = "user_owned" => resource[r].release = "retained"

RunningPaneHasProcess == \A x \in Terminals : pane[x].up => pane[x].inc # 0

RowsHold ==
    /\ AttachedHasRow
    /\ OwnersAttached
    /\ OneTerminalPerOwner
    /\ UserKeepsTerminal

ReleasesHold ==
    /\ ClosingIsReleasing
    /\ ReleasingIsArchived

RInv ==
    /\ ResourceTypeOK
    /\ RowsHold
    /\ ReleasesHold
    /\ RunningPaneHasProcess

-----------------------------------------------------------------------------
(* What changes of one row, and of one release.                               *)

ChangesRow(r) ==
    /\ resource' \in [DispatchIds -> ResourceRows]
    /\ \A q \in DispatchIds \ {r} : resource'[q] = resource[q]

ChangesRelease(r) ==
    /\ release' \in [DispatchIds -> ReleaseCalls]
    /\ \A q \in DispatchIds \ {r} : release'[q] = release[q]

LEMMA NoResourceType == NoResource \in ResourceRows
BY DEF NoResource, ResourceRows, ReleaseStates

LEMMA IdleType == Idle \in ReleaseCalls
BY DEF Idle, ReleaseCalls

\* A row with an owner was given one by an attachment.
LEMMA RowFacts ==
    ASSUME RInv, NEW r \in DispatchIds
    PROVE  /\ resource[r] \in ResourceRows
           /\ resource[r].owner \in {0} \cup DispatchIds
           /\ resource[r].owner # 0 => resource[r].owner \in DispatchIds /\ attached[r] # 0
           /\ resource[r].ownership # "none" \/ resource[r].release # "not_requested"
                  => resource[r].owner # 0
<1>1. resource[r] \in ResourceRows BY DEF RInv, ResourceTypeOK
<1>2. resource[r].owner \in {0} \cup DispatchIds BY <1>1 DEF ResourceRows
<1>3. resource[r] = NoResource \/ (attached[r] # 0 /\ resource[r].owner # 0)
  BY DEF RInv, RowsHold, AttachedHasRow
<1> QED BY <1>1, <1>2, <1>3 DEF NoResource

\* A row that keeps its owner keeps what the rows hold, if the user's stays retained.
LEMMA RowKept ==
    ASSUME RInv, NEW r \in DispatchIds, ChangesRow(r), UNCHANGED attached,
           \/ resource'[r] = resource[r]
           \/ /\ resource[r].owner # 0
              /\ resource'[r].owner = resource[r].owner
              /\ resource'[r].ownership = "user_owned" => resource'[r].release = "retained"
    PROVE  RowsHold'
<1>1. \A q \in DispatchIds : resource'[q].owner = resource[q].owner BY DEF ChangesRow
<1>2. AttachedHasRow'
  BY <1>1, RowFacts DEF RInv, RowsHold, AttachedHasRow, ChangesRow, NoResource
<1>3. OwnersAttached' BY <1>1 DEF RInv, RowsHold, OwnersAttached
<1>4. OneTerminalPerOwner' BY <1>1 DEF RInv, RowsHold, OneTerminalPerOwner
<1>5. UserKeepsTerminal' BY DEF RInv, RowsHold, UserKeepsTerminal, ChangesRow
<1> QED BY <1>2, <1>3, <1>4, <1>5 DEF RowsHold

\* What a release that ends records keeps the row's owner, and is not a takeover.
LEMMA OutcomeRow ==
    ASSUME RInv, NEW r \in DispatchIds,
           resource' \in {resource, Settle(r), MarkUnknown(r), Revert(r)}
    PROVE  /\ ChangesRow(r)
           /\ \/ resource'[r] = resource[r]
              \/ /\ resource[r].owner # 0
                 /\ resource'[r].owner = resource[r].owner
                 /\ resource'[r].release # "releasing"
                 /\ resource'[r].ownership = "user_owned" => resource'[r].release = "retained"
<1>1. resource \in [DispatchIds -> ResourceRows] BY DEF RInv, ResourceTypeOK
<1>2. resource[r].release # "not_requested" => resource[r].owner # 0 BY RowFacts
<1>3. resource[r].ownership = "user_owned" => resource[r].release = "retained"
  BY DEF RInv, RowsHold, UserKeepsTerminal
<1>4. CASE resource' = resource BY <1>1, <1>4 DEF ChangesRow
<1>5. CASE resource' = Settle(r)
  BY <1>1, <1>2, <1>5 DEF ChangesRow, Settle, Committed, ResourceRows, OwnershipStates, ReleaseStates
<1>6. CASE resource' = MarkUnknown(r)
  BY <1>1, <1>2, <1>3, <1>6 DEF ChangesRow, MarkUnknown, WithRelease, ResourceRows,
                                OwnershipStates, ReleaseStates
<1>7. CASE resource' = Revert(r)
  BY <1>1, <1>2, <1>7 DEF ChangesRow, Revert, ResourceRows, OwnershipStates, ReleaseStates
<1> QED BY <1>4, <1>5, <1>6, <1>7

\* A release that is over closes nothing.
LEMMA OverChange ==
    ASSUME RInv, NEW r \in DispatchIds, release' = Over(r)
    PROVE  ChangesRelease(r) /\ release'[r].pc = "idle"
<1>1. release \in [DispatchIds -> ReleaseCalls] BY DEF RInv, ResourceTypeOK
<1> QED BY <1>1, IdleType DEF Over, ChangesRelease, Idle

LEMMA AtChange ==
    ASSUME RInv, NEW r \in DispatchIds, NEW pc \in {"capturing", "closing", "closed"},
           release' = At(r, pc)
    PROVE  ChangesRelease(r) /\ release'[r].pc = pc
<1>1. release \in [DispatchIds -> ReleaseCalls] BY DEF RInv, ResourceTypeOK
<1> QED BY <1>1 DEF At, ChangesRelease, ReleaseCalls

LEMMA JoinedChange ==
    ASSUME RInv, NEW r \in DispatchIds, NEW d \in DispatchIds, NEW b \in BOOLEAN,
           release' = Joined(r, d, b)
    PROVE  /\ ChangesRelease(r)
           /\ release'[r].pc \in {"closing", "closed"} => release'[r] = release[r]
<1>1. release \in [DispatchIds -> ReleaseCalls] BY DEF RInv, ResourceTypeOK
<1> QED BY <1>1 DEF Joined, ChangesRelease, ReleaseCalls

\* The release of one row and the archives of its owner change: the others still hold.
LEMMA ReleaseKept ==
    ASSUME RInv, NEW r \in DispatchIds, ChangesRow(r), ChangesRelease(r),
           release'[r].pc \in {"closing", "closed"} => resource'[r].release = "releasing",
           resource'[r].release = "releasing" => resource'[r].owner \in archive',
           \/ archive \subseteq archive'
           \/ resource[r].owner # 0 /\ archive' = archive \ {resource[r].owner}
    PROVE  ReleasesHold'
<1>1. ClosingIsReleasing'
  BY DEF RInv, ReleasesHold, ClosingIsReleasing, ChangesRow, ChangesRelease
<1>2. ASSUME NEW q \in DispatchIds \ {r}, resource'[q].release = "releasing"
      PROVE  resource'[q].owner \in archive'
  <2>1. resource'[q] = resource[q] BY DEF ChangesRow
  <2>2. resource[q].owner \in archive
    BY <1>2, <2>1 DEF RInv, ReleasesHold, ReleasingIsArchived
  <2>3. resource[r].owner # 0 => resource[q].owner # resource[r].owner
    BY DEF RInv, RowsHold, OneTerminalPerOwner
  <2> QED BY <2>1, <2>2, <2>3
<1>3. ReleasingIsArchived' BY <1>2 DEF ReleasingIsArchived
<1> QED BY <1>1, <1>3 DEF ReleasesHold

-----------------------------------------------------------------------------
(* The steps that leave the rows and the releases alone.                      *)

LEMMA RowsFrame == ASSUME RInv, UNCHANGED <<attached, resource>> PROVE RowsHold'
BY DEF RInv, RowsHold, AttachedHasRow, OwnersAttached, OneTerminalPerOwner, UserKeepsTerminal

LEMMA ReleasesFrame == ASSUME RInv, UNCHANGED <<resource, archive, release>> PROVE ReleasesHold'
BY DEF RInv, ReleasesHold, ClosingIsReleasing, ReleasingIsArchived

LEMMA Frame ==
    ASSUME RInv, UNCHANGED <<rowVars, release>>, ResourceTypeOK', RunningPaneHasProcess'
    PROVE  RInv'
BY RowsFrame, ReleasesFrame DEF rowVars, RInv

LEMMA EndedPane ==
    ASSUME RInv, NEW x \in Terminals, pane' = Ended(x)
    PROVE  pane' \in [Terminals -> PaneRows] /\ RunningPaneHasProcess'
<1>1. pane \in [Terminals -> PaneRows] BY DEF RInv, ResourceTypeOK
<1>2. (x \in contact) \in BOOLEAN OBVIOUS
<1> QED BY <1>1, <1>2 DEF Ended, PaneRows, RInv, RunningPaneHasProcess

LEMMA BacklogType == RInv => Backlog \subseteq DispatchIds \X DispatchIds
<1> SUFFICES ASSUME RInv, NEW r \in DispatchIds, resource[r].release \in {"requested", "releasing"}
             PROVE  resource[r].owner \in DispatchIds
  BY DEF Backlog
<1> QED BY RowFacts

LEMMA ProcessStepKeeps ==
    ASSUME RInv, NEW x \in Terminals,
           Open(x) \/ Exit(x) \/ ExitReported(x) \/ Disconnect(x) \/ Reconnect(x)
    PROVE  RInv'
<1>1. ResourceTypeOK /\ RunningPaneHasProcess /\ pane \in [Terminals -> PaneRows]
  BY DEF RInv, ResourceTypeOK
<1>2. CASE Open(x)
  <2>1. pane[x].inc + 1 \in Incarnations /\ pane[x].inc + 1 # 0
    BY <1>1, <1>2, ProcessesAssumption DEF Open, PaneRows, Incarnations
  <2>2. pane' \in [Terminals -> PaneRows] /\ RunningPaneHasProcess'
    BY <1>1, <1>2, <2>1 DEF Open, PaneRows, RunningPaneHasProcess
  <2> QED BY <1>1, <1>2, <2>2, Frame DEF Open, rowVars, callVars, ResourceTypeOK
<1>3. CASE Exit(x)
  BY <1>1, <1>3, EndedPane, Frame DEF Exit, rowVars, callVars, ResourceTypeOK
<1>4. CASE ExitReported(x)
  <2>1. pane' \in [Terminals -> PaneRows] /\ RunningPaneHasProcess'
    BY <1>1, <1>4 DEF ExitReported, PaneRows, RunningPaneHasProcess
  <2> QED BY <1>1, <1>4, <2>1, Frame DEF ExitReported, rowVars, callVars, ResourceTypeOK
<1>5. CASE Disconnect(x)
  <2>1. pane' \in [Terminals -> PaneRows] /\ RunningPaneHasProcess'
    BY <1>1, <1>5 DEF Disconnect, PaneRows, RunningPaneHasProcess
  <2> QED BY <1>1, <1>5, <2>1, Frame DEF Disconnect, rowVars, callVars, ResourceTypeOK
<1>6. CASE Reconnect(x)
  <2>1. recovery' \in [on : BOOLEAN, rerun : BOOLEAN, left : SUBSET (DispatchIds \X DispatchIds),
                       at : {0} \cup DispatchIds]
    BY <1>1, <1>6, BacklogType DEF Reconnect, Quiet, ResourceTypeOK
  <2> QED BY <1>1, <1>6, <2>1, Frame DEF Reconnect, rowVars, ResourceTypeOK, RunningPaneHasProcess
<1> QED BY <1>2, <1>3, <1>4, <1>5, <1>6

LEMMA RestartKeeps == ASSUME RInv, Restart PROVE RInv'
<1>1. ResourceTypeOK /\ RunningPaneHasProcess /\ pane \in [Terminals -> PaneRows]
  BY DEF RInv, ResourceTypeOK
<1>2. pane' \in [Terminals -> PaneRows] /\ RunningPaneHasProcess'
  BY <1>1 DEF Restart, PaneRows, RunningPaneHasProcess
<1>3. release' \in [DispatchIds -> ReleaseCalls] /\ \A r \in DispatchIds : release'[r].pc = "idle"
  BY IdleType DEF Restart, Idle
<1>4. ResourceTypeOK'
  BY <1>1, <1>2, <1>3 DEF Restart, rowVars, ResourceTypeOK, StopCalls, Quiet
<1>5. ReleasesHold'
  BY <1>3 DEF Restart, rowVars, RInv, ReleasesHold, ClosingIsReleasing, ReleasingIsArchived
<1> QED BY <1>2, <1>4, <1>5, RowsFrame DEF Restart, rowVars, RInv

\* The board's own steps, and those that end a start.
LEMMA BoardStepKeeps ==
    ASSUME RInv, UNCHANGED terminalVars
    PROVE  RInv'
<1>1. UNCHANGED <<rowVars, release>> /\ ResourceTypeOK' /\ RunningPaneHasProcess'
  BY DEF RInv, terminalVars, rowVars, ResourceTypeOK, RunningPaneHasProcess
<1> QED BY <1>1, Frame

LEMMA StopChange ==
    ASSUME RInv, NEW d \in DispatchIds, NEW pc \in StopCalls, stop' = StopAt(d, pc)
    PROVE  stop' \in [DispatchIds -> StopCalls]
BY DEF RInv, ResourceTypeOK, StopAt

LEMMA ShowAfterRestartKeeps ==
    ASSUME RInv, NEW d \in DispatchIds, ShowAfterRestart(d) PROVE RInv'
BY Frame DEF RInv, ShowAfterRestart, processVars, rowVars, ResourceTypeOK, RunningPaneHasProcess

LEMMA EndStepKeeps ==
    ASSUME RInv, NEW d \in DispatchIds,
           \/ BeginStop(d) \/ StopKills(d)
           \/ \E shown \in BOOLEAN : StopInspected(d, shown)
           \/ \E killed \in BOOLEAN : StopCloses(d, killed)
    PROVE  RInv'
<1>1. ResourceTypeOK /\ RunningPaneHasProcess BY DEF RInv
<1>2. CASE StopKills(d)
  <2>1. PaneOf(d) \in Terminals BY <1>1, <1>2 DEF StopKills, Kills, ResourceTypeOK
  <2>2. pane' \in [Terminals -> PaneRows] /\ RunningPaneHasProcess'
    BY <1>2, <2>1, EndedPane DEF StopKills, Kills
  <2>3. stop' \in [DispatchIds -> StopCalls] BY <1>2, StopChange DEF StopKills, StopCalls
  <2> QED BY <1>1, <1>2, <2>2, <2>3, Frame DEF StopKills, rowVars, ResourceTypeOK
<1>3. CASE BeginStop(d) \/ (\E shown \in BOOLEAN : StopInspected(d, shown))
                        \/ (\E killed \in BOOLEAN : StopCloses(d, killed))
  <2>1. stop' = StopAt(d, "inspecting") \/ stop' = StopAt(d, "closing") \/ stop' = StopAt(d, "idle")
    BY <1>3 DEF BeginStop, StopInspected, StopCloses, StopAt
  <2>2. stop' \in [DispatchIds -> StopCalls] BY <2>1, StopChange DEF StopCalls
  <2>3. UNCHANGED <<processVars, rowVars, release, recovery>> /\ lost' \in {lost, lost \ {d}}
    BY <1>3 DEF BeginStop, StopInspected, StopCloses
  <2> QED BY <1>1, <2>2, <2>3, Frame DEF processVars, rowVars, ResourceTypeOK, RunningPaneHasProcess
<1> QED BY <1>2, <1>3

-----------------------------------------------------------------------------
(* Attachments: a row is made, or changes hands.                              *)

LEMMA Undisturbed ==
    ASSUME RInv, UNCHANGED callVars, UNCHANGED archive,
           \A r \in DispatchIds : resource[r].release = "releasing" =>
               resource'[r].release = "releasing",
           \A r \in DispatchIds : resource'[r].release = "releasing" => resource'[r] = resource[r]
    PROVE  ReleasesHold'
BY DEF RInv, callVars, ReleasesHold, ClosingIsReleasing, ReleasingIsArchived

LEMMA DispatchToKeeps ==
    ASSUME RInv, NEW d \in DispatchIds, NEW t \in Tasks, NEW x \in Terminals, DispatchTo(d, t, x)
    PROVE  RInv'
<1>1. ResourceTypeOK /\ RunningPaneHasProcess BY DEF RInv
<1>2. pane[x].inc \in Incarnations /\ pane[x].inc # 0
  BY <1>1 DEF DispatchTo, ResourceTypeOK, PaneRows, RunningPaneHasProcess
<1>3. attached' \in [DispatchIds -> Incarnations]
      /\ \A r \in DispatchIds : attached[r] # 0 => attached'[r] # 0
  BY <1>1, <1>2 DEF DispatchTo, ResourceTypeOK
<1>4. UNCHANGED <<processVars, resource, archive, callVars>> BY DEF DispatchTo
<1>5. ResourceTypeOK' /\ RunningPaneHasProcess'
  BY <1>1, <1>3, <1>4 DEF processVars, callVars, ResourceTypeOK, RunningPaneHasProcess
<1>6. \A r \in DispatchIds : resource[r].owner \in {0} \cup DispatchIds BY RowFacts
<1>7. RowsHold'
  BY <1>3, <1>4, <1>6 DEF RInv, RowsHold, AttachedHasRow, OwnersAttached, OneTerminalPerOwner,
                          UserKeepsTerminal
<1>8. ReleasesHold' BY <1>4, ReleasesFrame DEF callVars
<1> QED BY <1>5, <1>7, <1>8 DEF RInv

\* What both attachments do: d, which was attached to nothing, gets the process inc, and
\* its row, or the one it takes over, names it as owner.
LEMMA AttachmentKeeps ==
    ASSUME RInv, NEW d \in DispatchIds, NEW inc \in Incarnations \ {0}, attached[d] = 0,
           attached' = [attached EXCEPT ![d] = inc],
           NEW r \in DispatchIds, r = d \/ attached[r] # 0,
           NEW row \in ResourceRows, row.owner = d, row.ownership # "user_owned",
           row.release = "not_requested", resource[r].release # "releasing",
           resource' = [resource EXCEPT ![r] = row],
           UNCHANGED <<archive, callVars>>, contact' = contact,
           pane' \in [Terminals -> PaneRows], RunningPaneHasProcess'
    PROVE  RInv'
<1>1. ResourceTypeOK BY DEF RInv
<1>2. /\ resource' \in [DispatchIds -> ResourceRows]
      /\ resource'[r] = row
      /\ \A q \in DispatchIds \ {r} : resource'[q] = resource[q]
  BY <1>1 DEF ResourceTypeOK
<1>3. /\ attached' \in [DispatchIds -> Incarnations]
      /\ attached'[d] # 0
      /\ \A q \in DispatchIds : attached[q] # 0 => attached'[q] # 0
  BY <1>1 DEF ResourceTypeOK
<1>4. ResourceTypeOK' BY <1>1, <1>2, <1>3 DEF callVars, ResourceTypeOK
<1>5. d # 0 BY DEF DispatchIds
<1>6. AttachedHasRow' BY <1>2, <1>3, <1>5 DEF RInv, RowsHold, AttachedHasRow
<1>7. OwnersAttached'
  BY <1>2, <1>3, RowFacts DEF RInv, RowsHold, OwnersAttached
<1>8. \A q \in DispatchIds : resource[q].owner # d BY <1>5 DEF RInv, RowsHold, OwnersAttached
<1>9. OneTerminalPerOwner' BY <1>2, <1>8 DEF RInv, RowsHold, OneTerminalPerOwner
<1>10. UserKeepsTerminal' BY <1>2 DEF RInv, RowsHold, UserKeepsTerminal
<1>11. ReleasesHold' BY <1>2, Undisturbed
<1> QED BY <1>4, <1>6, <1>7, <1>9, <1>10, <1>11 DEF RInv, RowsHold

LEMMA NewResourceType ==
    ASSUME NEW d \in DispatchIds, NEW ownership \in {"owned", "external"}
    PROVE  [NoResource EXCEPT !.owner = d, !.ownership = ownership] \in ResourceRows
BY DEF NoResource, ResourceRows, OwnershipStates, ReleaseStates

LEMMA AttachCreatedKeeps ==
    ASSUME RInv, NEW d \in DispatchIds, NEW x \in Terminals, AttachCreated(d, x)
    PROVE  RInv'
<1>1. ResourceTypeOK /\ RunningPaneHasProcess BY DEF RInv
<1>2. 1 \in Incarnations \ {0}
  BY ProcessesAssumption DEF AttachCreated, Incarnations
<1>3. pane' \in [Terminals -> PaneRows] /\ RunningPaneHasProcess'
  BY <1>1, <1>2 DEF AttachCreated, ResourceTypeOK, PaneRows, RunningPaneHasProcess
<1>4. attached[d] = 0 BY DEF AttachCreated, Attaches
<1>5. resource[d] = NoResource BY <1>4 DEF RInv, RowsHold, AttachedHasRow
<1>6. [NoResource EXCEPT !.owner = d, !.ownership = "owned"] \in ResourceRows BY NewResourceType
<1>7. /\ attached' = [attached EXCEPT ![d] = 1]
      /\ resource' = [resource EXCEPT ![d] = [NoResource EXCEPT !.owner = d, !.ownership = "owned"]]
      /\ contact' = contact
      /\ UNCHANGED <<archive, callVars>>
  BY DEF AttachCreated, NewResource
<1>8. resource[d].release # "releasing" BY <1>5 DEF NoResource
<1> QED BY <1>2, <1>3, <1>4, <1>6, <1>7, <1>8, AttachmentKeeps DEF NoResource

LEMMA AttachExistingKeeps ==
    ASSUME RInv, NEW d \in DispatchIds, NEW x \in Terminals, AttachExisting(d, x)
    PROVE  RInv'
<1> DEFINE inc == pane[x].inc
<1>1. ResourceTypeOK /\ RunningPaneHasProcess BY DEF RInv
<1>2. inc \in Incarnations \ {0}
  BY <1>1 DEF AttachExisting, ResourceTypeOK, PaneRows, RunningPaneHasProcess
<1>3. /\ attached[d] = 0
      /\ attached' = [attached EXCEPT ![d] = inc]
      /\ UNCHANGED <<archive, callVars>>
      /\ contact' = contact /\ pane' = pane
  BY DEF AttachExisting, Attaches, processVars
<1>4. pane' \in [Terminals -> PaneRows] /\ RunningPaneHasProcess'
  BY <1>1, <1>3 DEF ResourceTypeOK, RunningPaneHasProcess
<1>5. CASE resource' = NewResource(d, "external")
  <2>1. resource[d] = NoResource BY <1>3 DEF RInv, RowsHold, AttachedHasRow
  <2>2. [NoResource EXCEPT !.owner = d, !.ownership = "external"] \in ResourceRows
    BY NewResourceType
  <2>3. resource' = [resource EXCEPT ![d] = [NoResource EXCEPT !.owner = d, !.ownership = "external"]]
    BY <1>5 DEF NewResource
  <2>4. resource[d].release # "releasing" BY <2>1 DEF NoResource
  <2> HIDE DEF inc
  <2> QED BY <1>2, <1>3, <1>4, <2>2, <2>3, <2>4, AttachmentKeeps DEF NoResource
<1>6. ASSUME NEW r \in Transferable(x, inc),
             resource' = [resource EXCEPT ![r] =
                 [NoResource EXCEPT !.owner = d, !.priors = resource[r].priors \cup {resource[r].owner},
                                    !.ownership = "owned"]]
      PROVE  RInv'
  <2>1. /\ r \in DispatchIds
        /\ resource[r].ownership = "owned"
        /\ resource[r].release \in {"not_requested", "retained"}
    BY DEF Transferable
  <2>2. resource[r] \in ResourceRows /\ resource[r].owner \in DispatchIds /\ attached[r] # 0
    BY <2>1, RowFacts
  <2>3. [NoResource EXCEPT !.owner = d, !.priors = resource[r].priors \cup {resource[r].owner},
                           !.ownership = "owned"] \in ResourceRows
    BY <2>2 DEF NoResource, ResourceRows, OwnershipStates, ReleaseStates
  <2> HIDE DEF inc
  <2> QED BY <1>2, <1>3, <1>4, <1>6, <2>1, <2>2, <2>3, AttachmentKeeps DEF NoResource
<1> QED BY <1>5, <1>6 DEF AttachExisting

-----------------------------------------------------------------------------
(* Releases.                                                                  *)

\* What every step of a release leaves: one row and one release may change.
LEMMA ReleaseFrame ==
    ASSUME RInv, NEW r \in DispatchIds, ChangesRow(r), ChangesRelease(r),
           RowsHold', ReleasesHold', archive' \subseteq DispatchIds,
           pane' \in [Terminals -> PaneRows], RunningPaneHasProcess',
           UNCHANGED <<contact, attached, stop, recovery, lost>>
    PROVE  RInv'
BY DEF RInv, ResourceTypeOK, ChangesRow, ChangesRelease

LEMMA SameRelease ==
    ASSUME RInv, NEW r \in DispatchIds, release' = release
    PROVE  ChangesRelease(r)
BY DEF RInv, ResourceTypeOK, ChangesRelease

LEMMA SameRow ==
    ASSUME RInv, NEW r \in DispatchIds, resource' = resource
    PROVE  ChangesRow(r) /\ resource'[r] = resource[r]
BY DEF RInv, ResourceTypeOK, ChangesRow

LEMMA SamePanes ==
    ASSUME RInv, UNCHANGED processVars
    PROVE  pane' \in [Terminals -> PaneRows] /\ RunningPaneHasProcess' /\ contact' = contact
BY DEF RInv, ResourceTypeOK, processVars, RunningPaneHasProcess

LEMMA RetainKeeps ==
    ASSUME RInv, NEW d \in DispatchIds, Retain(d) PROVE RInv'
<1>1. PICK r \in OwnedBy(d) :
          /\ Retainable(r)
          /\ resource' = [resource EXCEPT ![r].release = "retained", ![r].byUser = TRUE]
          /\ archive' = archive \ {d}
          /\ UNCHANGED <<boardVars, processVars, attached, callVars>>
  BY DEF Retain
<1>2. r \in DispatchIds /\ resource[r].owner = d /\ d # 0 BY DEF OwnedBy, DispatchIds
<1>3. /\ resource \in [DispatchIds -> ResourceRows]
      /\ archive \subseteq DispatchIds
  BY DEF RInv, ResourceTypeOK
<1>4. /\ ChangesRow(r)
      /\ resource'[r].owner = d
      /\ resource'[r].release = "retained"
  <2> DEFINE row == [resource[r] EXCEPT !.release = "retained", !.byUser = TRUE]
  <2>1. /\ row \in ResourceRows /\ row.owner = d /\ row.release = "retained"
    BY <1>2, RowFacts DEF ResourceRows, ReleaseStates
  <2>2. resource' = [resource EXCEPT ![r] = row] BY <1>1
  <2> HIDE DEF row
  <2> QED BY <1>2, <1>3, <2>1, <2>2 DEF ChangesRow
<1>5. ChangesRelease(r) /\ release' = release BY <1>1, <1>2, SameRelease DEF callVars
<1>6. release[r].pc \notin {"closing", "closed"}
  BY <1>1, <1>2 DEF RInv, ReleasesHold, ClosingIsReleasing, Retainable
<1>7. RowsHold' BY <1>1, <1>2, <1>4, RowKept
<1>8. ReleasesHold' BY <1>1, <1>2, <1>4, <1>5, <1>6, ReleaseKept
<1> QED BY <1>1, <1>2, <1>3, <1>4, <1>5, <1>7, <1>8, SamePanes, ReleaseFrame DEF callVars

LEMMA UserInputKeeps ==
    ASSUME RInv, NEW x \in Terminals, UserInput(x) PROVE RInv'
<1> DEFINE Taken(r) == [resource[r] EXCEPT !.ownership = "user_owned", !.release = "retained",
                                           !.byUser = FALSE]
<1>1. /\ resource' = [r \in DispatchIds |-> IF r \in TakenOver(x) THEN Taken(r) ELSE resource[r]]
      /\ archive' = archive \ {resource[r].owner : r \in TakenOver(x)}
      /\ UNCHANGED <<processVars, attached, callVars>>
  BY DEF UserInput
<1>2. \A r \in TakenOver(x) :
          /\ r \in DispatchIds
          /\ resource[r].ownership = "owned"
          /\ resource[r].release # "releasing"
          /\ Taken(r) \in ResourceRows
          /\ Taken(r).owner = resource[r].owner
          /\ Taken(r).release = "retained"
  <2> SUFFICES ASSUME NEW r \in TakenOver(x)
               PROVE  /\ r \in DispatchIds
                      /\ resource[r].ownership = "owned"
                      /\ resource[r].release # "releasing"
                      /\ Taken(r) \in ResourceRows
                      /\ Taken(r).owner = resource[r].owner
                      /\ Taken(r).release = "retained"
    OBVIOUS
  <2>1. r \in DispatchIds /\ resource[r].ownership = "owned" /\ Retainable(r) BY DEF TakenOver
  <2>2. resource[r] \in ResourceRows BY <2>1, RowFacts
  <2> QED BY <2>1, <2>2 DEF Retainable, ResourceRows, OwnershipStates, ReleaseStates
<1> HIDE DEF Taken
<1>3. \A r \in DispatchIds : resource[r] \in ResourceRows BY RowFacts
<1>4. resource' \in [DispatchIds -> ResourceRows] BY <1>1, <1>2, <1>3
<1>5. \A r \in DispatchIds : resource'[r].owner = resource[r].owner BY <1>1, <1>2
<1>6. \A r \in DispatchIds : \/ resource'[r] = resource[r]
                             \/ r \in TakenOver(x) /\ resource'[r].release = "retained"
  BY <1>1, <1>2
<1>7. \A r \in TakenOver(x) : resource[r].owner # 0 BY <1>2, RowFacts
<1>8. RowsHold'
  <2>1. AttachedHasRow' BY <1>1, <1>5, <1>6, <1>7, RowFacts DEF RInv, RowsHold, AttachedHasRow
  <2>2. OwnersAttached' BY <1>1, <1>5 DEF RInv, RowsHold, OwnersAttached
  <2>3. OneTerminalPerOwner' BY <1>5 DEF RInv, RowsHold, OneTerminalPerOwner
  <2>4. UserKeepsTerminal' BY <1>6 DEF RInv, RowsHold, UserKeepsTerminal
  <2> QED BY <2>1, <2>2, <2>3, <2>4 DEF RowsHold
<1>9. ReleasesHold'
  <2>1. ClosingIsReleasing'
    BY <1>1, <1>2, <1>6 DEF callVars, RInv, ReleasesHold, ClosingIsReleasing
  <2>2. ASSUME NEW q \in DispatchIds, resource'[q].release = "releasing"
        PROVE  resource'[q].owner \in archive'
    <3>1. resource'[q] = resource[q] BY <2>2, <1>6
    <3>2. q \notin TakenOver(x) BY <2>2, <3>1, <1>2
    <3>3. resource[q].owner \in archive BY <2>2, <3>1 DEF RInv, ReleasesHold, ReleasingIsArchived
    <3>4. \A r \in TakenOver(x) : resource[r].owner # resource[q].owner
      BY <3>2, <1>2, <1>7 DEF RInv, RowsHold, OneTerminalPerOwner
    <3> QED BY <1>1, <3>1, <3>3, <3>4
  <2> QED BY <2>1, <2>2 DEF ReleasesHold, ReleasingIsArchived
<1>10. ResourceTypeOK' BY <1>1, <1>4 DEF RInv, processVars, callVars, ResourceTypeOK
<1> QED BY <1>1, <1>8, <1>9, <1>10, SamePanes DEF RInv

LEMMA SettleDeadKeeps ==
    ASSUME RInv, NEW d \in DispatchIds, NEW r \in DispatchIds, SettleDead(d, r) PROVE RInv'
<1>1. /\ resource[r].ownership # "none"
      /\ resource[r].release \in {"not_requested", "retained", "unknown"}
      /\ resource' = [resource EXCEPT ![r].release = "released", ![r].ownership = "released"]
      /\ UNCHANGED <<processVars, attached, archive, callVars>>
  BY DEF SettleDead
<1>2. /\ resource \in [DispatchIds -> ResourceRows]
      /\ archive \subseteq DispatchIds
  BY DEF RInv, ResourceTypeOK
<1>3. resource[r].owner # 0 BY <1>1, RowFacts
<1>4. /\ ChangesRow(r)
      /\ resource'[r].owner = resource[r].owner
      /\ resource'[r].release = "released" /\ resource'[r].ownership = "released"
  BY <1>1, <1>2 DEF ChangesRow, ResourceRows, ReleaseStates, OwnershipStates
<1>5. ChangesRelease(r) /\ release' = release BY <1>1, SameRelease DEF callVars
<1>6. release[r].pc \notin {"closing", "closed"}
  BY <1>1 DEF RInv, ReleasesHold, ClosingIsReleasing
<1>7. RowsHold' BY <1>1, <1>3, <1>4, RowKept
<1>8. ReleasesHold' BY <1>1, <1>4, <1>5, <1>6, ReleaseKept
<1> QED BY <1>1, <1>2, <1>4, <1>5, <1>7, <1>8, SamePanes, ReleaseFrame DEF callVars

LEMMA RequestReleaseKeeps ==
    ASSUME RInv, NEW d \in DispatchIds, RequestRelease(d) PROVE RInv'
<1>1. PICK r \in OwnedBy(d) :
          /\ MayRequest(d, r)
          /\ resource' = [resource EXCEPT
                 ![r].release = IF @ = "releasing" THEN @ ELSE "requested", ![r].byUser = FALSE]
          /\ archive' = IF resource[r].release = "retained" /\ resource[r].byUser
                        THEN archive \ {d} ELSE archive
          /\ release' = Joined(r, d, FALSE)
          /\ UNCHANGED <<boardVars, processVars, attached, stop, recovery, lost>>
  BY DEF RequestRelease
<1>2. r \in DispatchIds /\ resource[r].owner = d /\ d # 0 BY DEF OwnedBy, DispatchIds
<1>3. /\ resource \in [DispatchIds -> ResourceRows]
      /\ archive \subseteq DispatchIds
  BY DEF RInv, ResourceTypeOK
<1>4. /\ ChangesRow(r)
      /\ resource'[r].owner = d
      /\ resource'[r].ownership = "owned"
      /\ resource'[r].release =
             IF resource[r].release = "releasing" THEN "releasing" ELSE "requested"
  <2> DEFINE state == IF resource[r].release = "releasing" THEN "releasing" ELSE "requested"
             row == [resource[r] EXCEPT !.release = state, !.byUser = FALSE]
  <2>1. row \in ResourceRows /\ row.owner = d /\ row.ownership = "owned" /\ row.release = state
    BY <1>1, <1>2, RowFacts DEF ResourceRows, ReleaseStates, MayRequest
  <2>2. resource' = [resource EXCEPT ![r] = row] BY <1>1
  <2> HIDE DEF row
  <2> QED BY <1>2, <1>3, <2>1, <2>2 DEF ChangesRow
<1>5. /\ ChangesRelease(r)
      /\ release'[r].pc \in {"closing", "closed"} => release'[r] = release[r]
  BY <1>1, <1>2, JoinedChange
<1>6. release'[r].pc \in {"closing", "closed"} => resource'[r].release = "releasing"
  BY <1>2, <1>4, <1>5 DEF RInv, ReleasesHold, ClosingIsReleasing
<1>7. resource'[r].release = "releasing" => resource'[r].owner \in archive'
  <2> SUFFICES ASSUME resource'[r].release = "releasing" PROVE d \in archive' BY <1>4
  <2>1. resource[r].release = "releasing" BY <1>4
  <2>2. d \in archive BY <2>1, <1>2 DEF RInv, ReleasesHold, ReleasingIsArchived
  <2> QED BY <1>1, <2>1, <2>2
<1>8. RowsHold' BY <1>1, <1>2, <1>4, RowKept
<1>9. ReleasesHold' BY <1>1, <1>2, <1>4, <1>5, <1>6, <1>7, ReleaseKept
<1> QED BY <1>1, <1>2, <1>3, <1>4, <1>5, <1>8, <1>9, SamePanes, ReleaseFrame

\* A release ends with one of its outcomes.
LEMMA ReleaseEnds ==
    ASSUME RInv, NEW r \in DispatchIds, release' = Over(r),
           resource' \in {resource, Settle(r), MarkUnknown(r), Revert(r)},
           archive \subseteq archive', archive' \subseteq DispatchIds,
           UNCHANGED <<processVars, attached, stop, recovery, lost>>
    PROVE  RInv'
<1>1. /\ ChangesRow(r)
      /\ \/ resource'[r] = resource[r]
         \/ /\ resource[r].owner # 0
            /\ resource'[r].owner = resource[r].owner
            /\ resource'[r].release # "releasing"
            /\ resource'[r].ownership = "user_owned" => resource'[r].release = "retained"
  BY OutcomeRow
<1>2. ChangesRelease(r) /\ release'[r].pc = "idle" BY OverChange
<1>3. RowsHold' BY <1>1, RowKept
<1>4. resource'[r].release = "releasing" => resource'[r].owner \in archive'
  BY <1>1 DEF RInv, ReleasesHold, ReleasingIsArchived
<1>5. ReleasesHold' BY <1>1, <1>2, <1>4, ReleaseKept
<1> QED BY <1>1, <1>2, <1>3, <1>5, SamePanes, ReleaseFrame

LEMMA CommitKeeps ==
    ASSUME RInv, NEW r \in DispatchIds, release[r].pc # "idle",
           NEW archived, archive \subseteq archived, archived \subseteq archive \cup {release[r].by},
           release[r].by \in archived, Commit(r, archived),
           UNCHANGED <<processVars, attached, stop, recovery, lost>>
    PROVE  RInv'
<1> DEFINE commits == /\ resource[r].owner = release[r].by
                      /\ resource[r].ownership = "owned"
                      /\ resource[r].release = "requested"
<1>1. archive' = IF commits THEN archived ELSE archive BY DEF Commit
<1>2. archive \subseteq archive' /\ archive' \subseteq DispatchIds
  BY <1>1, RowFacts DEF RInv, ResourceTypeOK
<1>3. CASE release' = Over(r) /\ (UNCHANGED resource \/ resource' = Revert(r))
  BY <1>2, <1>3, ReleaseEnds
<1>4. CASE /\ commits \/ (resource[r].ownership = "owned" /\ resource[r].release = "releasing")
           /\ release' = At(r, "closing")
           /\ resource' = WithRelease(r, "releasing")
  <2>1. resource \in [DispatchIds -> ResourceRows] BY DEF RInv, ResourceTypeOK
  <2>2. /\ ChangesRow(r)
        /\ resource'[r].owner = resource[r].owner
        /\ resource'[r].ownership = "owned"
        /\ resource'[r].release = "releasing"
    BY <1>4, <2>1 DEF ChangesRow, WithRelease, ResourceRows, ReleaseStates
  <2>3. ChangesRelease(r) BY <1>4, AtChange
  <2>4. resource[r].owner # 0 BY <1>4, RowFacts
  <2>5. resource'[r].owner \in archive'
    BY <1>1, <1>4, <2>2 DEF RInv, ReleasesHold, ReleasingIsArchived
  <2>6. RowsHold' BY <2>2, <2>4, RowKept
  <2>7. ReleasesHold' BY <1>2, <2>2, <2>3, <2>5, ReleaseKept
  <2> QED BY <1>2, <2>2, <2>3, <2>6, <2>7, SamePanes, ReleaseFrame
<1> QED BY <1>3, <1>4 DEF Commit

LEMMA InspectedKeeps ==
    ASSUME RInv, NEW r \in DispatchIds, NEW shown \in BOOLEAN, Inspected(r, shown) PROVE RInv'
<1>1. /\ release[r].pc = "inspecting"
      /\ UNCHANGED <<processVars, attached, stop, recovery, lost>>
  BY DEF Inspected
<1>2. archive \in SUBSET DispatchIds BY DEF RInv, ResourceTypeOK
<1>3. CASE /\ release' = Over(r) /\ UNCHANGED archive
           /\ resource' \in {resource, MarkUnknown(r), Revert(r)}
  BY <1>1, <1>2, <1>3, ReleaseEnds
<1>4. CASE release[r].by \in archive /\ Commit(r, archive)
  BY <1>1, <1>2, <1>4, CommitKeeps
<1>5. CASE release' = At(r, "capturing") /\ UNCHANGED <<resource, archive>>
  <2>1. ChangesRelease(r) /\ release'[r].pc = "capturing" BY <1>5, AtChange
  <2>2. ChangesRow(r) /\ resource'[r] = resource[r] BY <1>5, SameRow
  <2>3. RowsHold' BY <1>1, <1>5, RowsFrame
  <2>4. ReleasesHold'
    BY <1>5, <2>1, <2>2, ReleaseKept DEF RInv, ReleasesHold, ReleasingIsArchived
  <2> QED BY <1>1, <1>2, <1>5, <2>1, <2>2, <2>3, <2>4, SamePanes, ReleaseFrame
<1> QED BY <1>3, <1>4, <1>5 DEF Inspected

LEMMA CapturedKeeps ==
    ASSUME RInv, NEW r \in DispatchIds, NEW captured \in BOOLEAN, Captured(r, captured) PROVE RInv'
<1>1. /\ release[r].pc = "capturing"
      /\ UNCHANGED <<processVars, attached, stop, recovery, lost>>
  BY DEF Captured
<1>2. archive \in SUBSET DispatchIds /\ release[r].by \in {0} \cup DispatchIds
  BY DEF RInv, ResourceTypeOK, ReleaseCalls
<1>3. CASE release' = Over(r) /\ UNCHANGED <<resource, archive>>
  BY <1>1, <1>2, <1>3, ReleaseEnds
<1>4. CASE Commit(r, archive \cup {release[r].by})
  BY <1>1, <1>2, <1>4, CommitKeeps
<1> QED BY <1>3, <1>4 DEF Captured

LEMMA ReleaseKillsKeeps ==
    ASSUME RInv, NEW r \in DispatchIds, ReleaseKills(r) PROVE RInv'
<1>1. PaneOf(release[r].by) \in Terminals BY DEF ReleaseKills, Kills, RInv, ResourceTypeOK
<1>2. pane' \in [Terminals -> PaneRows] /\ RunningPaneHasProcess'
  BY <1>1, EndedPane DEF ReleaseKills, Kills
<1>3. ChangesRelease(r) /\ release'[r].pc = "closed" BY AtChange DEF ReleaseKills
<1>4. ChangesRow(r) /\ resource'[r] = resource[r] BY SameRow DEF ReleaseKills, rowVars
<1>5. UNCHANGED <<contact, attached, resource, archive, stop, recovery, lost>>
  BY DEF ReleaseKills, rowVars
<1>6. RowsHold' BY <1>5, RowsFrame
<1>7. resource'[r].release = "releasing"
  BY <1>4 DEF ReleaseKills, RInv, ReleasesHold, ClosingIsReleasing
<1>8. resource'[r].owner \in archive'
  BY <1>4, <1>5, <1>7 DEF RInv, ReleasesHold, ReleasingIsArchived
<1>9. ReleasesHold' BY <1>3, <1>4, <1>5, <1>7, <1>8, ReleaseKept
<1>10. archive' \subseteq DispatchIds BY <1>5 DEF RInv, ResourceTypeOK
<1> QED BY <1>2, <1>3, <1>4, <1>5, <1>6, <1>9, <1>10, ReleaseFrame

LEMMA ReleaseClosesKeeps ==
    ASSUME RInv, NEW r \in DispatchIds,
           NEW answer \in {"killed", "unconfirmed", "unavailable"}, ReleaseCloses(r, answer)
    PROVE  RInv'
<1>1. /\ release' = Over(r)
      /\ resource' \in {resource, Settle(r), MarkUnknown(r)}
      /\ UNCHANGED <<processVars, attached, archive, stop, recovery, lost>>
  BY DEF ReleaseCloses, AfterClose
<1>2. archive' \subseteq DispatchIds BY <1>1 DEF RInv, ResourceTypeOK
<1> QED BY <1>1, <1>2, ReleaseEnds

LEMMA RecoverNextKeeps == ASSUME RInv, RecoverNext PROVE RInv'
<1>1. ResourceTypeOK BY DEF RInv
<1>2. UNCHANGED <<processVars, rowVars, stop, lost>> BY DEF RecoverNext
<1>3. CASE /\ release' = release
           /\ \/ recovery' = [Quiet EXCEPT !.on = TRUE, !.left = Backlog]
              \/ recovery' = Quiet
  <2>1. \/ recovery' = [on |-> TRUE, rerun |-> FALSE, left |-> Backlog, at |-> 0]
        \/ recovery' = [on |-> FALSE, rerun |-> FALSE, left |-> {}, at |-> 0]
    BY <1>3 DEF Quiet
  <2> DEFINE Pairs == SUBSET (DispatchIds \X DispatchIds)
  <2>4. Backlog \in Pairs /\ {} \in Pairs /\ 0 \in {0} \cup DispatchIds BY BacklogType
  <2> HIDE DEF Pairs
  <2>5. recovery' \in [on : BOOLEAN, rerun : BOOLEAN, left : Pairs, at : {0} \cup DispatchIds]
    <3>1. [on |-> TRUE, rerun |-> FALSE, left |-> Backlog, at |-> 0]
              \in [on : BOOLEAN, rerun : BOOLEAN, left : Pairs, at : {0} \cup DispatchIds]
      BY <2>4
    <3>2. [on |-> FALSE, rerun |-> FALSE, left |-> {}, at |-> 0]
              \in [on : BOOLEAN, rerun : BOOLEAN, left : Pairs, at : {0} \cup DispatchIds]
      BY <2>4
    <3> QED BY <2>1, <3>1, <3>2
  <2>2. recovery' \in [on : BOOLEAN, rerun : BOOLEAN, left : SUBSET (DispatchIds \X DispatchIds),
                       at : {0} \cup DispatchIds]
    BY <2>5 DEF Pairs
  <2>3. ResourceTypeOK' BY <1>1, <1>2, <1>3, <2>2 DEF processVars, rowVars, ResourceTypeOK
  <2> QED BY <1>2, <1>3, <2>3, SamePanes, Frame
<1>4. ASSUME NEW p \in recovery.left, release' = Joined(p[1], p[2], TRUE),
             recovery' = [recovery EXCEPT !.left = @ \ {p}, !.at = p[1]]
      PROVE  RInv'
  <2>1. p[1] \in DispatchIds /\ p[2] \in DispatchIds BY <1>1 DEF ResourceTypeOK
  <2>2. /\ ChangesRelease(p[1])
        /\ release'[p[1]].pc \in {"closing", "closed"} => release'[p[1]] = release[p[1]]
    BY <1>4, <2>1, JoinedChange
  <2>3. recovery' \in [on : BOOLEAN, rerun : BOOLEAN, left : SUBSET (DispatchIds \X DispatchIds),
                       at : {0} \cup DispatchIds]
    BY <1>1, <1>4, <2>1 DEF ResourceTypeOK
  <2>4. ResourceTypeOK'
    BY <1>1, <1>2, <2>2, <2>3 DEF processVars, rowVars, ResourceTypeOK, ChangesRelease
  <2>5. ReleasesHold'
    BY <1>2, <2>1, <2>2
       DEF rowVars, RInv, ReleasesHold, ClosingIsReleasing, ReleasingIsArchived, ChangesRelease
  <2> QED BY <1>2, <2>4, <2>5, SamePanes, RowsFrame DEF rowVars, RInv
<1> QED BY <1>3, <1>4 DEF RecoverNext

-----------------------------------------------------------------------------
(* The invariant, and what follows from it.                                   *)

LEMMA InitRInv == TerminalInit => RInv
<1> SUFFICES ASSUME TerminalInit PROVE RInv OBVIOUS
<1>1. /\ pane = [x \in Terminals |-> NoPane]
      /\ contact = Terminals
      /\ attached = [d \in DispatchIds |-> 0]
      /\ resource = [d \in DispatchIds |-> NoResource]
      /\ archive = {}
      /\ release = [d \in DispatchIds |-> Idle]
      /\ stop = [d \in DispatchIds |-> "idle"]
      /\ recovery = Quiet
      /\ lost = {}
  BY DEF TerminalInit
<1>2. NoPane \in PaneRows /\ ~NoPane.up
  BY ProcessesAssumption DEF NoPane, PaneRows, Incarnations
<1>3. 0 \in Incarnations BY ProcessesAssumption DEF Incarnations
<1>4. ResourceTypeOK
  BY <1>1, <1>2, <1>3, NoResourceType, IdleType DEF ResourceTypeOK, StopCalls, Quiet
<1>5. RowsHold
  BY <1>1 DEF RowsHold, AttachedHasRow, OwnersAttached, OneTerminalPerOwner, UserKeepsTerminal,
              NoResource
<1>6. ReleasesHold
  BY <1>1 DEF ReleasesHold, ClosingIsReleasing, ReleasingIsArchived, Idle, NoResource
<1>7. RunningPaneHasProcess BY <1>1, <1>2 DEF RunningPaneHasProcess
<1> QED BY <1>4, <1>5, <1>6, <1>7 DEF RInv

LEMMA NextRInv == RInv /\ [TerminalNext]_<<boardVars, terminalVars>> => RInv'
<1> SUFFICES ASSUME RInv, [TerminalNext]_<<boardVars, terminalVars>> PROVE RInv' OBVIOUS
<1>1. CASE ProcessStep
  BY <1>1, ProcessStepKeeps, UserInputKeeps, RestartKeeps DEF ProcessStep
<1>2. CASE WorkerStep
  <2>1. ASSUME NEW d \in DispatchIds,
               \/ \E t \in Tasks, x \in Terminals : DispatchTo(d, t, x)
               \/ \E x \in Terminals : AttachCreated(d, x) \/ AttachExisting(d, x)
               \/ ShowAfterRestart(d)
        PROVE  RInv'
    BY <2>1, DispatchToKeeps, AttachCreatedKeeps, AttachExistingKeeps, ShowAfterRestartKeeps
  <2>2. CASE UNCHANGED terminalVars BY <2>2, BoardStepKeeps
  <2> QED BY <1>2, <2>1, <2>2
          DEF WorkerStep, Create, EndContextOnly, StartWorker, FinishStart, Report, Abandon,
              RecoverMissing
<1>3. CASE ReleaseStep
  BY <1>3, RequestReleaseKeeps, RetainKeeps, SettleDeadKeeps, InspectedKeeps, CapturedKeeps,
     ReleaseKillsKeeps, ReleaseClosesKeeps DEF ReleaseStep
<1>4. CASE EndStep BY <1>4, EndStepKeeps DEF EndStep
<1>5. CASE RecoverNext BY <1>5, RecoverNextKeeps
<1>6. CASE UNCHANGED <<boardVars, terminalVars>> BY <1>6, BoardStepKeeps
<1> QED BY <1>1, <1>2, <1>3, <1>4, <1>5, <1>6 DEF TerminalNext

\* The invariant of the rows and the releases holds of every behaviour of the terminals.
THEOREM ResourcesInductive == TerminalSpec => []RInv
BY InitRInv, NextRInv, PTL DEF TerminalSpec

\* Every reachable row of worker_terminal_resources has the states its CHECK allows, and
\* every release and stop in flight is at one of its awaits.
THEOREM ResourcesTypeCorrect == TerminalSpec => []ResourceTypeOK
<1>1. RInv => ResourceTypeOK BY DEF RInv
<1> QED BY <1>1, ResourcesInductive, PTL

\* However retentions, takeovers, transfers, repeated requests and recoveries interleave
\* with a release, the worker's output is archived when its terminal is told to close, and
\* stays archived while it closes.
THEOREM OutputKept == TerminalSpec => []OutputKeptBeforeClose
<1>1. RInv => OutputKeptBeforeClose
  BY DEF RInv, ReleasesHold, ClosingIsReleasing, ReleasingIsArchived, OutputKeptBeforeClose
<1> QED BY <1>1, ResourcesInductive, PTL

=============================================================================
