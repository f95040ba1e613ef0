------------------------------ MODULE RunMailbox ------------------------------
(***************************************************************************)
(* The mail of orchestration runs: which mailbox a message is in, who may   *)
(* read it, and the deliveries a run's coordinator is handed and            *)
(* acknowledges (src/main/runtime/orchestration/db/runs and db/messages).   *)
(*                                                                          *)
(* A handler that awaits is a call with a program counter; everything       *)
(* between two awaits is one step.  Every database transaction lies inside  *)
(* one step.  A terminal stands for a handle and the pane it belongs to.    *)
(* Of a dispatch only what mail depends on is kept, as the claim it is      *)
(* (TaskClaim): whether it is active, the run of its task, its assignee.    *)
(***************************************************************************)
EXTENDS Naturals, FiniteSets

CONSTANTS
    Runs, Terminals, Claims, Tasks,
    RunOf,              \* the run of each task
    Mailed,             \* the runs mail is sent in: a bound
    Waking,             \* the messages of a type that filtered checks ask for
    Calls,              \* `check` requests that may be open at one time
    Modes,              \* the flags they may carry
    Batch,              \* ORCHESTRATION_DELIVERY_BATCH_LIMIT: a delivery, and a page of routing
    MaxMessages, MaxDeliveries, MaxGeneration,
    NoRun, NoTask, NoTerminal

ASSUME RunMailboxAssumption ==
    /\ RunOf \in [Tasks -> Runs]
    /\ Mailed \subseteq Runs
    /\ Waking \subseteq Nat
    /\ NoRun \notin Runs
    /\ NoTask \notin Tasks
    /\ NoTerminal \notin Terminals
    /\ Modes \subseteq [wait : BOOLEAN, filtered : BOOLEAN, peek : BOOLEAN]
    /\ {Batch, MaxMessages, MaxDeliveries, MaxGeneration} \subseteq Nat

VARIABLES
    run,        \* its coordinator's terminal and consumer generation; generation 0: not created
    known,      \* run_coordinator_handles
    message,    \* rows by sequence; `quiet` is history: moved by a check, which notifies nobody
    delivery,   \* rows by number
    call,       \* the open checks
    told,       \* history: which terminal received which delivery
    life, owner, place      \* claims, as in TaskClaim

vars == <<run, known, message, delivery, call, told, life, owner, place>>
claimVars == <<life, owner, place>>

Claim == INSTANCE TaskClaim WITH result <- [c \in Claims |-> "none"]

MessageIds == 1..MaxMessages
DeliveryIds == 1..MaxDeliveries

RunBox(r) == <<"run", r>>
ClaimBox(c) == <<"dispatch", c>>
Direct(t) == <<"terminal", t>>
NoBox == <<"none", NoRun>>
Boxes == {RunBox(r) : r \in Runs} \cup {ClaimBox(c) : c \in Claims} \cup {Direct(t) : t \in Terminals}

MessageRows == [run : Runs \cup {NoRun}, box : Boxes \cup {NoBox}, read : BOOLEAN, quiet : BOOLEAN]
NoMessage == [run |-> NoRun, box |-> NoBox, read |-> FALSE, quiet |-> FALSE]
DeliveryRows == [run : Runs \cup {NoRun}, generation : 0..MaxGeneration, batch : SUBSET MessageIds,
                 status : {"none", "outstanding", "acknowledged", "fenced"}]
NoDelivery == [run |-> NoRun, generation |-> 0, batch |-> {}, status |-> "none"]
CallRows ==
    [pc : {"idle", "routing", "routed", "waiting", "woken", "expired", "cancelled"},
     by : Terminals \cup {NoTerminal}, box : Boxes \cup {NoBox}, run : Runs \cup {NoRun},
     generation : 0..MaxGeneration, ack : {0} \cup DeliveryIds, through : {0} \cup MessageIds,
     wait : BOOLEAN, filtered : BOOLEAN, peek : BOOLEAN]
Idle == [pc |-> "idle", by |-> NoTerminal, box |-> NoBox, run |-> NoRun, generation |-> 0,
         ack |-> 0, through |-> 0, wait |-> FALSE, filtered |-> FALSE, peek |-> FALSE]

Init ==
    /\ run = [r \in Runs |-> [terminal |-> NoTerminal, generation |-> 0]]
    /\ known = {}
    /\ message = [m \in MessageIds |-> NoMessage]
    /\ delivery = [d \in DeliveryIds |-> NoDelivery]
    /\ call = [c \in Calls |-> Idle]
    /\ told = {}
    /\ life = [c \in Claims |-> "unused"]
    /\ owner = [c \in Claims |-> NoTask]
    /\ place = [c \in Claims |-> NoTerminal]

(***************************************************************************)
(* Who owns what                                                            *)
(***************************************************************************)
Bound(t) == {r \in Runs : run[r].terminal = t}
ClaimRun(c) == IF owner[c] = NoTask THEN NoRun ELSE RunOf[owner[c]]
HeldAt(t) == {c \in Claims : life[c] = "held" /\ place[c] = t}
Assigned(r, t) == \E c \in HeldAt(t) : ClaimRun(c) = r
Owned(t) == Bound(t) \cup HeldAt(t) # {}
OwnBox(t) ==
    CASE Bound(t) # {} -> RunBox(CHOOSE r \in Bound(t) : TRUE)
      [] Bound(t) = {} /\ HeldAt(t) # {} -> ClaimBox(CHOOSE c \in HeldAt(t) : TRUE)
      [] OTHER -> Direct(t)

Unread(msgs, b) == {m \in MessageIds : msgs[m].box = b /\ ~msgs[m].read}
OfRun(msgs, S, r) == {m \in S : msgs[m].run = r}
Oldest(S) == {m \in S : Cardinality({k \in S : k < m}) < Batch}
Outstanding(dels, r) == {d \in DeliveryIds : dels[d].run = r /\ dels[d].status = "outstanding"}

\* Rows are numbered in the order they are inserted.
NextMessage(m) == message[m].run = NoRun /\ \A k \in MessageIds : k < m => message[k].run # NoRun
NextDelivery(dels, d) == dels[d].run = NoRun /\ \A e \in DeliveryIds : e < d => dels[e].run # NoRun

Read(msgs, S) == [m \in MessageIds |-> IF m \in S THEN [msgs[m] EXCEPT !.read = TRUE] ELSE msgs[m]]
InOwnRunBox(S) ==
    [m \in MessageIds |->
        IF m \in S THEN [message[m] EXCEPT !.box = RunBox(message[m].run), !.quiet = FALSE]
        ELSE message[m]]
\* Mutant: a consumer that is replaced keeps its delivery.
FencesNothing(R) == delivery
Fence(R) ==
    [d \in DeliveryIds |->
        IF delivery[d].run \in R /\ delivery[d].status = "outstanding"
        THEN [delivery[d] EXCEPT !.status = "fenced"] ELSE delivery[d]]

\* A notice is a mailbox and a message whose type arrived there.
Wake(notices) ==
    [c \in Calls |->
        IF call[c].pc = "waiting" /\ \E n \in notices : n[1] = call[c].box /\ (call[c].filtered => n[2] \in Waking)
        THEN [call[c] EXCEPT !.pc = "woken"] ELSE call[c]]
\* Mutant: taking a run over leaves the old consumer waiting.
CancelsNobody(boxes) == call
Cancel(boxes) ==
    [c \in Calls |->
        IF call[c].pc = "waiting" /\ call[c].box \in boxes
        THEN [call[c] EXCEPT !.pc = "cancelled"] ELSE call[c]]

(***************************************************************************)
(* Sending                                                                  *)
(***************************************************************************)
\* Mutant: only the name in the address is replaced.
LandsUnderItsKind(b, r) ==
    IF \E t \in Terminals : b = Direct(t) /\ <<r, t>> \in known /\ ~Assigned(r, t) THEN <<b[1], r>> ELSE b
\* Direct mail of a run for one of its coordinators lands in the run's mailbox,
\* unless the run has work assigned to that terminal.
Landing(b, r) ==
    IF \E t \in Terminals : b = Direct(t) /\ <<r, t>> \in known /\ ~Assigned(r, t) THEN RunBox(r) ELSE b

\* Where a notice for t moves the direct mail of r it finds there.
Home(t, r) ==
    CASE run[r].terminal = t -> IF Assigned(r, t) THEN Direct(t) ELSE RunBox(r)
      [] run[r].terminal # t /\ Assigned(r, t) -> ClaimBox(CHOOSE c \in HeldAt(t) : ClaimRun(c) = r)
      [] run[r].terminal # t /\ ~Assigned(r, t) /\ Owned(t) /\ <<r, t>> \in known -> RunBox(r)
      [] OTHER -> Direct(t)

\* The mail in question when t's own mailbox is asked for: without any, nobody there is woken.
OwnMail(msgs, t) ==
    {m \in Unread(msgs, Direct(t)) :
        \/ ~Owned(t)
        \/ run[msgs[m].run].terminal = t
        \/ Bound(t) = {} /\ Assigned(msgs[m].run, t)}

Sorted(msgs, t) ==
    [m \in MessageIds |->
        IF m \in Unread(msgs, Direct(t)) THEN [msgs[m] EXCEPT !.box = Home(t, msgs[m].run)] ELSE msgs[m]]
\* Mutant: whoever waits where the mail was moved is not told.
NoticesAtHomeOnly(msgs, t, new) == {<<OwnBox(t), new>> : m \in OwnMail(msgs, t)}
Notices(msgs, t, new) ==
    {<<Home(t, msgs[m].run), m>> :
        m \in {k \in Unread(msgs, Direct(t)) : Home(t, msgs[k].run) # Direct(t)}}
    \cup {<<OwnBox(t), new>> : m \in OwnMail(msgs, t)}

Insert(msgs, m, r, b) ==
    [msgs EXCEPT ![m] = [run |-> r, box |-> Landing(b, r), read |-> FALSE, quiet |-> FALSE]]

\* Insert a message and notify the mailbox it landed in.
Post(msgs, m, r, b) ==
    LET all == Insert(msgs, m, r, b)
        at == {t \in Terminals : all[m].box = Direct(t)}
    IN  IF at = {}
        THEN /\ message' = all
             /\ call' = Wake({<<all[m].box, m>>})
        ELSE \E t \in at :
             /\ message' = Sorted(all, t)
             /\ call' = Wake(Notices(all, t, m))

\* What `send` may address for a message of run r, after bare handles are resolved.
Recipients(r) ==
    {RunBox(r)}
    \cup {ClaimBox(c) : c \in {k \in Claims : life[k] = "held" /\ ClaimRun(k) = r}}
    \cup {Direct(t) : t \in {u \in Terminals : ~Owned(u) /\ \A q \in Runs : <<q, u>> \notin known}}

Send(m, r, b) ==
    /\ NextMessage(m)
    /\ r \in Mailed
    /\ run[r].generation > 0
    /\ b \in Recipients(r)
    /\ Post(message, m, r, b)
    /\ UNCHANGED <<run, known, delivery, told, claimVars>>

\* A reply marks the message it answers as read and goes to the terminal that sent it.
Reply(m, original, t) ==
    /\ NextMessage(m)
    /\ message[original].run # NoRun
    /\ Post(Read(message, {original}), m, message[original].run, Direct(t))
    /\ UNCHANGED <<run, known, delivery, told, claimVars>>

(***************************************************************************)
(* Binding a terminal to a run                                              *)
(***************************************************************************)
\* Mutant: the terminal keeps them.
LeavesNone(r, t) == {}
OtherRuns(r, t) == Bound(t) \ {r}

\* The terminal leaves the runs it coordinated and becomes this one's coordinator.
\* Every run that changes hands gets a new generation and loses its outstanding
\* delivery; direct mail of the runs involved moves to their mailboxes; whoever
\* waits at a mailbox involved is cancelled.
Hand(r, t) ==
    LET left == OtherRuns(r, t)
        lost == left \cup (IF run[r].terminal = t THEN {} ELSE {r})
        coordinators == {t, run[r].terminal} \ {NoTerminal}
        directMail ==
            (UNION {Unread(message, Direct(t)) \cap OfRun(message, MessageIds, q) : q \in left})
            \cup (UNION {Unread(message, Direct(u)) \cap OfRun(message, MessageIds, r) : u \in coordinators})
    IN  /\ \A q \in lost : run[q].generation < MaxGeneration
        /\ run' = [q \in Runs |->
                    IF q \in lost THEN [terminal |-> IF q = r THEN t ELSE NoTerminal,
                                        generation |-> run[q].generation + 1]
                    ELSE run[q]]
        /\ known' = known \cup {<<r, u>> : u \in coordinators}
        /\ message' = InOwnRunBox({m \in directMail : ~ \E u \in Terminals :
                                    message[m].box = Direct(u) /\ Assigned(message[m].run, u)})
        /\ delivery' = Fence(lost)
        /\ call' = Cancel({Direct(t), RunBox(r)} \cup {RunBox(q) : q \in left})
        /\ UNCHANGED <<told, claimVars>>

CreateRun(r, t) == run[r].generation = 0 /\ Hand(r, t)
BindRun(r, t) == run[r].generation > 0 /\ Hand(r, t)

(***************************************************************************)
(* Dispatches, as far as mail depends on them                               *)
(***************************************************************************)
TakeClaim(c, task, t) ==
    /\ run[RunOf[task]].generation > 0
    /\ Claim!Take(c, task, t)
    /\ UNCHANGED <<run, known, message, delivery, call, told>>

\* A start prepares its terminal once.
AttachClaim(c, t) ==
    /\ place[c] = NoTerminal
    /\ Claim!Attach(c, t)
    /\ UNCHANGED <<run, known, message, delivery, call, told>>

\* Some ways of ending a dispatch notify its mailbox, others do not.  The notice has
\* no row; 0 stands for its type.
EndClaim(c, notified) ==
    /\ Claim!Release(c)
    /\ call' = IF notified THEN Wake({<<ClaimBox(c), 0>>}) ELSE call
    /\ UNCHANGED <<run, known, message, delivery, told>>

(***************************************************************************)
(* Checks                                                                   *)
(***************************************************************************)
Visible(c, msgs, b) == {m \in Unread(msgs, b) : call[c].filtered => m \in Waking}

\* A page of the direct mail that was there when the check began.
RoutablePart(msgs, row) ==
    {m \in OfRun(msgs, Unread(msgs, Direct(row.by)), row.run) :
        /\ m <= row.through
        /\ row.box = RunBox(row.run) => ~Assigned(row.run, row.by)}
Route(c, row) ==
    LET mail == RoutablePart(message, row)
        page == Oldest(mail)
    IN  /\ message' = [m \in MessageIds |->
                        IF m \in page THEN [message[m] EXCEPT !.box = row.box, !.quiet = TRUE]
                        ELSE message[m]]
        /\ call' = [call EXCEPT ![c] = IF page = mail THEN [row EXCEPT !.pc = "routed", !.through = 0]
                                         ELSE [row EXCEPT !.pc = "routing"]]

\* No check begins unless a delivery is left for each open one (MaxDeliveries).
DeliveriesSuffice ==
    Cardinality({c \in Calls : call[c].pc # "idle"}) < Cardinality({d \in DeliveryIds : delivery[d].run = NoRun})

Begin(c, t, mode, ack, b, r) ==
    LET mail == OfRun(message, Unread(message, Direct(t)), r)
    IN  /\ call[c].pc = "idle"
        /\ DeliveriesSuffice
        /\ \E last \in {0} \cup MessageIds :
            /\ last \in mail \cup {0} /\ \A m \in mail : m <= last
            /\ Route(c, [Idle EXCEPT
                    !.by = t, !.box = b, !.run = r,
                    !.generation = IF b = RunBox(r) THEN run[r].generation ELSE 0, !.ack = ack,
                    !.through = last,
                    !.wait = mode.wait, !.filtered = mode.filtered, !.peek = mode.peek])
        /\ UNCHANGED <<run, known, delivery, told, claimVars>>

\* A terminal checks the mailbox of the run it is bound to, and may acknowledge a delivery it got.
CheckRun(c, t, r, mode, ack) ==
    /\ r \in Bound(t)
    /\ ack # 0 => <<t, ack>> \in told
    /\ Begin(c, t, mode, ack, RunBox(r), r)

\* An unbound terminal with an active dispatch checks the mailbox of that dispatch.
CheckDispatch(c, t, k, mode) ==
    /\ Bound(t) = {}
    /\ k \in HeldAt(t)
    /\ Begin(c, t, mode, 0, ClaimBox(k), ClaimRun(k))

RoutePage(c) ==
    /\ call[c].pc = "routing"
    /\ Route(c, call[c])
    /\ UNCHANGED <<run, known, delivery, told, claimVars>>

\* An answer that is lost is as good as a delivery the terminal never acknowledges.
Answer(c, d) ==
    /\ call' = [call EXCEPT ![c] = Idle]
    /\ told' = told \cup {<<call[c].by, d>>}
End(c) == call' = [call EXCEPT ![c] = Idle] /\ UNCHANGED told

Current(c) == run[call[c].run].generation = call[c].generation
\* The terminal is still bound to the run, in the same generation.
StillBound(c) == run[call[c].run].terminal = call[c].by /\ Current(c)

AckAllowed(c) ==
    LET d == delivery[call[c].ack]
    IN  d.run = call[c].run /\ d.generation = call[c].generation /\ d.status # "fenced"
Acks(c) == call[c].ack # 0 /\ delivery[call[c].ack].status = "outstanding"
\* Mutant: only the delivery is acknowledged.
AcksDeliveryOnly(c) == message
AckedMessages(c) == IF Acks(c) THEN Read(message, delivery[call[c].ack].batch) ELSE message
AckedDeliveries(c) ==
    IF Acks(c) THEN [delivery EXCEPT ![call[c].ack].status = "acknowledged"] ELSE delivery

\* A filter decides whether there is a delivery, never what is in it.
\* Mutant: a delivery of what the filter lets through.
FilteredBatch(c, msgs) == Oldest(Visible(c, msgs, call[c].box))
NextBatch(c, msgs) == Oldest(Unread(msgs, call[c].box))

NothingToDeliver(c, msgs, dels, filters) ==
    /\ Outstanding(dels, call[c].run) = {}
    /\ (IF filters THEN Visible(c, msgs, call[c].box) ELSE Unread(msgs, call[c].box)) = {}
\* The outstanding delivery again, or the next batch.
GetOrCreateRunDelivery(c, msgs, dels) ==
    /\ message' = msgs
    /\ \/ \E d \in Outstanding(dels, call[c].run) :
            delivery' = dels /\ Answer(c, d)
       \/ /\ Outstanding(dels, call[c].run) = {}
          /\ \E d \in DeliveryIds :
                /\ NextDelivery(dels, d)
                /\ delivery' = [dels EXCEPT ![d] =
                        [run |-> call[c].run, generation |-> call[c].generation,
                         batch |-> NextBatch(c, msgs), status |-> "outstanding"]]
                /\ Answer(c, d)

\* One waiter at a time in a run's mailbox.
WaitInRunBox(c) ==
    IF \E e \in Calls : call[e].pc = "waiting" /\ call[e].box = call[c].box
    THEN End(c)
    ELSE call' = [call EXCEPT ![c].pc = "waiting", ![c].ack = 0] /\ UNCHANGED told

\* What a coordinator's check does once its direct mail is routed.
RefuseRunCheck(c) ==
    /\ ~StillBound(c) \/ (call[c].ack # 0 /\ ~AckAllowed(c))
    /\ End(c)
    /\ UNCHANGED <<message, delivery>>

AckAndRead(c) ==
    LET msgs == AckedMessages(c)
        dels == AckedDeliveries(c)
        delivers == ~call[c].peek /\ ~NothingToDeliver(c, msgs, dels, call[c].wait)
        shows == call[c].peek /\ Visible(c, msgs, call[c].box) # {}
    IN  /\ StillBound(c)
        /\ call[c].ack # 0 => AckAllowed(c)
        /\ \/ delivers /\ GetOrCreateRunDelivery(c, msgs, dels)
           \/ /\ ~delivers
              /\ message' = msgs
              /\ delivery' = dels
              /\ IF call[c].wait /\ ~shows THEN WaitInRunBox(c) ELSE End(c)

ResumeRunCheck(c) ==
    /\ call[c].pc = "routed"
    /\ call[c].box = RunBox(call[c].run)
    /\ RefuseRunCheck(c) \/ AckAndRead(c)
    /\ UNCHANGED <<run, known, claimVars>>

\* After the wait only the generation is compared.
FinishRunCheck(c) ==
    /\ call[c].pc \in {"woken", "expired", "cancelled"}
    /\ call[c].box = RunBox(call[c].run)
    /\ LET delivers == /\ call[c].pc = "woken" /\ ~call[c].peek /\ Current(c)
                       /\ ~NothingToDeliver(c, message, delivery, TRUE)
       IN  IF delivers THEN GetOrCreateRunDelivery(c, message, delivery)
           ELSE End(c) /\ UNCHANGED <<message, delivery>>
    /\ UNCHANGED <<run, known, claimVars>>

\* A worker's check goes on only while its terminal still has the dispatch.  The
\* mail of a dispatch that ended goes to the run, and the check fails.
MailboxOf(c, k) == call[c].box = ClaimBox(k)
\* Mutant: what the check found before it awaited stands.
HeldWhenItBegan(c) == \E k \in Claims : MailboxOf(c, k)
StillHeld(c) == \E k \in HeldAt(call[c].by) : MailboxOf(c, k)
RefuseDispatchCheck(c) ==
    /\ ~StillHeld(c)
    /\ LET stranded == IF \E k \in Claims : MailboxOf(c, k) /\ life[k] = "over"
                       THEN Unread(message, call[c].box) ELSE {}
       IN  /\ message' = InOwnRunBox(stranded)
           /\ call' = [Wake({<<RunBox(call[c].run), m>> : m \in stranded})
                            EXCEPT ![c] = Idle]

ResumeDispatchCheck(c) ==
    /\ call[c].pc = "routed"
    /\ \E k \in Claims : MailboxOf(c, k)
    /\ LET mail == Visible(c, message, call[c].box)
       IN  \/ RefuseDispatchCheck(c)
           \/ /\ StillHeld(c)
              /\ message' = IF call[c].peek THEN message ELSE Read(message, mail)
              /\ call' = [call EXCEPT ![c] =
                            IF mail = {} /\ @.wait THEN [@ EXCEPT !.pc = "waiting"] ELSE Idle]
    /\ UNCHANGED <<run, known, delivery, told, claimVars>>

\* Mail that arrived during the wait is marked read, with --peek too.
FinishDispatchCheck(c) ==
    /\ call[c].pc \in {"woken", "expired", "cancelled"}
    /\ \E k \in Claims : MailboxOf(c, k)
    /\ \/ RefuseDispatchCheck(c)
       \/ /\ StillHeld(c)
          /\ message' = IF call[c].pc = "woken" THEN Read(message, Visible(c, message, call[c].box))
                        ELSE message
          /\ call' = [call EXCEPT ![c] = Idle]
    /\ UNCHANGED <<run, known, delivery, told, claimVars>>

\* A terminal that owns neither reads its own mailbox.
ReadDirect(row) ==
    LET mail == {m \in Unread(message, row.box) : row.filtered => m \in Waking}
    IN  IF row.peek THEN message ELSE Read(message, mail)
CheckDirect(c, t, mode) ==
    /\ call[c].pc = "idle"
    /\ ~Owned(t)
    /\ LET row == [Idle EXCEPT !.pc = "waiting", !.by = t, !.box = Direct(t), !.wait = mode.wait,
                               !.filtered = mode.filtered, !.peek = mode.peek]
           found == \E m \in Unread(message, Direct(t)) : mode.filtered => m \in Waking
       IN  /\ message' = ReadDirect(row)
           /\ call' = [call EXCEPT ![c] = IF found \/ ~mode.wait THEN Idle ELSE row]
    /\ UNCHANGED <<run, known, delivery, told, claimVars>>

FinishDirectCheck(c) ==
    /\ call[c].pc \in {"woken", "expired", "cancelled"}
    /\ call[c].box = Direct(call[c].by)
    /\ message' = IF call[c].pc = "cancelled" THEN message ELSE ReadDirect(call[c])
    /\ call' = [call EXCEPT ![c] = Idle]
    /\ UNCHANGED <<run, known, delivery, told, claimVars>>

Expire(c) ==
    /\ call[c].pc = "waiting"
    /\ call' = [call EXCEPT ![c].pc = "expired"]
    /\ UNCHANGED <<run, known, message, delivery, told, claimVars>>

\* The client goes away: routing stops between two pages, a wait is cancelled.
Abort(c) ==
    /\ \/ call[c].pc = "routing" /\ call' = [call EXCEPT ![c] = Idle]
       \/ call[c].pc = "waiting" /\ call' = [call EXCEPT ![c].pc = "cancelled"]
    /\ UNCHANGED <<run, known, message, delivery, told, claimVars>>

\* The process restarts, perhaps between an acknowledgment and the delivery after it.
Restart ==
    /\ call' = [c \in Calls |-> Idle]
    /\ \/ UNCHANGED <<message, delivery>>
       \/ \E c \in Calls :
            /\ call[c].pc = "routed" /\ call[c].box = RunBox(call[c].run)
            /\ StillBound(c) /\ call[c].ack # 0 /\ AckAllowed(c)
            /\ message' = AckedMessages(c)
            /\ delivery' = AckedDeliveries(c)
    /\ UNCHANGED <<run, known, told, claimVars>>

(***************************************************************************)
(* Specification                                                            *)
(***************************************************************************)
Mail ==
    \/ \E m \in MessageIds, r \in Runs, b \in Boxes : Send(m, r, b)
    \/ \E m, original \in MessageIds, t \in Terminals : Reply(m, original, t)
Bindings == \E r \in Runs, t \in Terminals : CreateRun(r, t) \/ BindRun(r, t)
Dispatches ==
    \E k \in Claims :
        \/ \E task \in Tasks, t \in Terminals \cup {NoTerminal} : TakeClaim(k, task, t)
        \/ \E t \in Terminals : AttachClaim(k, t)
        \/ \E notified \in BOOLEAN : EndClaim(k, notified)
\* What the event loop does for an open check.
Proceed(c) ==
    \/ RoutePage(c)
    \/ ResumeRunCheck(c) \/ FinishRunCheck(c)
    \/ ResumeDispatchCheck(c) \/ FinishDispatchCheck(c)
    \/ FinishDirectCheck(c)
Checks ==
    \E c \in Calls :
        \/ \E t \in Terminals, mode \in Modes :
            \/ \E r \in Runs, ack \in {0} \cup DeliveryIds : CheckRun(c, t, r, mode, ack)
            \/ \E k \in Claims : CheckDispatch(c, t, k, mode)
            \/ CheckDirect(c, t, mode)
        \/ Proceed(c)
        \/ Expire(c)
        \/ Abort(c)

Next == Mail \/ Bindings \/ Dispatches \/ Checks \/ Restart

Spec == Init /\ [][Next]_vars

(***************************************************************************)
(* Properties                                                               *)
(***************************************************************************)
\* Every row and every open check is well formed.
TypeOK ==
    /\ run \in [Runs -> [terminal : Terminals \cup {NoTerminal}, generation : 0..MaxGeneration]]
    /\ known \subseteq Runs \X Terminals
    /\ message \in [MessageIds -> MessageRows]
    /\ delivery \in [DeliveryIds -> DeliveryRows]
    /\ call \in [Calls -> CallRows]
    /\ told \subseteq Terminals \X DeliveryIds
    /\ life \in [Claims -> {"unused", "held", "over"}]
    /\ owner \in [Claims -> Tasks \cup {NoTask}]
    /\ place \in [Claims -> Terminals \cup {NoTerminal}]

\* However terminals are moved among runs, none coordinates two (db/runs/run-binding.ts).
OneRunPerTerminal ==
    \A q, r \in Runs : run[q].terminal = run[r].terminal /\ run[q].terminal # NoTerminal => q = r

\* A run has at most one delivery to acknowledge, and the consumer that may
\* acknowledge it is the present one (db/runs/run-delivery.ts).
OutstandingIsCurrent ==
    \A r \in Runs, d, e \in DeliveryIds :
        d \in Outstanding(delivery, r) =>
            /\ delivery[d].generation = run[r].generation
            /\ e \in Outstanding(delivery, r) => d = e

\* No message is handed out in two deliveries to one consumer: a delivery asked
\* for again is the same one, and what follows it holds other messages.
DeliveriesDoNotOverlap ==
    \A d, e \in DeliveryIds :
        /\ d # e /\ delivery[d].run # NoRun
        /\ delivery[d].run = delivery[e].run /\ delivery[d].generation = delivery[e].generation
        => delivery[d].batch \cap delivery[e].batch = {}

\* A fenced consumer never keeps the one place there is for waiting: whoever
\* waits in a run's mailbox is its present consumer.
WaiterIsCurrent ==
    \A c, e \in Calls :
        call[c].pc = "waiting" /\ call[c].box = RunBox(call[c].run) =>
            /\ StillBound(c)
            /\ call[e].pc = "waiting" /\ call[e].box = call[c].box => c = e

\* Nobody waits for mail that is there, but for mail another check of the same
\* mailbox put there (routing by a check notifies nobody).
NoMissedMail ==
    \A c \in Calls : \A m \in MessageIds :
        /\ call[c].pc = "waiting" /\ call[c].box # Direct(call[c].by)
        /\ m \in Visible(c, message, call[c].box)
        => message[m].quiet

\* Mail in a run's mailbox is marked read by nobody but the present consumer,
\* for a delivery it was handed, and mail in a dispatch's mailbox by nobody but
\* the terminal that has the dispatch: no stale check, takeover or end of a
\* dispatch in between loses mail.  A reply marks what it answers.
MailIsReadByItsOwner ==
    [][\A m \in MessageIds :
        \/ message[m].read \/ ~message'[m].read
        \/ \E k \in MessageIds : message[k].run = NoRun /\ message'[k].run # NoRun
        \/ \E d \in DeliveryIds, r \in Runs :
            /\ m \in delivery[d].batch /\ d \in Outstanding(delivery, r)
            /\ <<run[r].terminal, d>> \in told
        \/ \E k \in Claims : message[m].box = ClaimBox(k) /\ life[k] = "held"
            /\ \E c \in Calls : MailboxOf(c, k) /\ call[c].by = place[k] /\ call'[c] = Idle
        \/ \E t \in Terminals : message[m].box = Direct(t)]_vars

\* The mailbox of each run is an at-least-once mailbox with batches.
InBox(r) == {m \in MessageIds : message[m].box = RunBox(r)}
Mailbox(r) == INSTANCE AtLeastOnceBox WITH
    Messages <- MessageIds,
    box <- InBox(r),
    consumed <- {m \in InBox(r) : message[m].read},
    epoch <- run[r].generation,
    batch <- UNION {delivery[d].batch : d \in Outstanding(delivery, r)}
ImplementsAtLeastOnceBox ==
    /\ \A r \in Runs : Mailbox(r)!Init
    /\ [][\A r \in Runs : [Mailbox(r)!Next]_(Mailbox(r)!vars)]_vars
=============================================================================
