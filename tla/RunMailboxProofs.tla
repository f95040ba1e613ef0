---------------------------- MODULE RunMailboxProofs ----------------------------
(***************************************************************************)
(* The mail of runs for any number of runs, terminals, checks and messages: *)
(* what MInv says of deliveries and waiting consumers, then who marks mail  *)
(* read, then that nobody misses mail (NInv), then that each run's mailbox  *)
(* implements AtLeastOnceBox (HInv).                                        *)
(***************************************************************************)
EXTENDS RunMailbox, FiniteSetTheorems, TLAPS

-----------------------------------------------------------------------------
(* The inductive invariant.                                                   *)

\* A row that is not inserted holds nothing.
MessagesOK(msgs) ==
    /\ msgs \in [MessageIds -> MessageRows]
    /\ \A m \in MessageIds : msgs[m].run = NoRun => msgs[m] = NoMessage

\* What has been handed to the present consumer of a run is outstanding, or was
\* acknowledged and is read; a delivery never is ahead of its run's generation.
DeliveryKept(rs, msgs, row) ==
    /\ row.run = NoRun => row = NoDelivery
    /\ row.run # NoRun =>
        /\ row.generation <= rs[row.run].generation
        /\ \A m \in row.batch : msgs[m].run # NoRun
        /\ row.status = "outstanding" => row.generation = rs[row.run].generation
        /\ row.generation = rs[row.run].generation =>
            \/ row.status = "outstanding"
            \/ row.status = "acknowledged" /\ \A m \in row.batch : msgs[m].read

\* Two deliveries to one consumer are not both outstanding and share no message.
Apart(one, other) ==
    one.run # NoRun /\ one.run = other.run /\ one.generation = other.generation =>
        /\ ~(one.status = "outstanding" /\ other.status = "outstanding")
        /\ one.batch \cap other.batch = {}

DeliveriesOK(rs, msgs, dels) ==
    /\ dels \in [DeliveryIds -> DeliveryRows]
    /\ \A d \in DeliveryIds : DeliveryKept(rs, msgs, dels[d])
    /\ \A d, e \in DeliveryIds : d # e => Apart(dels[d], dels[e])

\* An open check is some terminal's, and acknowledges what that terminal was told.
Rightful(row, heard) ==
    /\ row.pc # "idle" => row.by \in Terminals
    /\ row.ack # 0 => <<row.by, row.ack>> \in heard

\* Who waits in a run's mailbox is the run's consumer, and alone.
WaitersOK(rs, calls) ==
    \A c, e \in Calls :
        calls[c].pc = "waiting" /\ calls[c].box = RunBox(calls[c].run) =>
            /\ rs[calls[c].run].terminal = calls[c].by
            /\ rs[calls[c].run].generation = calls[c].generation
            /\ calls[e].pc = "waiting" /\ calls[e].box = calls[c].box => c = e

CallsOK(rs, calls, heard) ==
    /\ calls \in [Calls -> CallRows]
    /\ \A c \in Calls : Rightful(calls[c], heard)
    /\ WaitersOK(rs, calls)

MInv ==
    /\ TypeOK
    /\ MessagesOK(message)
    /\ OneRunPerTerminal
    /\ DeliveriesOK(run, message, delivery)
    /\ CallsOK(run, call, told)

-----------------------------------------------------------------------------
(* Mailboxes.                                                                 *)

LEMMA BoxKinds ==
    /\ \A r, t : RunBox(r) # Direct(t)
    /\ \A r, k : RunBox(r) # ClaimBox(k)
    /\ \A k, t : ClaimBox(k) # Direct(t)
    /\ \A r : RunBox(r) # NoBox
    /\ \A t : Direct(t) # NoBox
    /\ \A k : ClaimBox(k) # NoBox
    /\ \A q, r : RunBox(q) = RunBox(r) => q = r
    /\ \A q, r : ClaimBox(q) = ClaimBox(r) => q = r
    /\ \A q, r : Direct(q) = Direct(r) => q = r
BY DEF RunBox, ClaimBox, Direct, NoBox

LEMMA BoxTypes ==
    /\ \A r \in Runs : RunBox(r) \in Boxes
    /\ \A k \in Claims : ClaimBox(k) \in Boxes
    /\ \A t \in Terminals : Direct(t) \in Boxes
    /\ \A r : RunBox(r) \in Boxes \cup {NoBox} => r \in Runs
    /\ \A t : Direct(t) \in Boxes \cup {NoBox} => t \in Terminals
    /\ \A k : ClaimBox(k) \in Boxes \cup {NoBox} => k \in Claims
BY BoxKinds DEF Boxes

LEMMA NoMessageType == NoMessage \in MessageRows /\ ~NoMessage.read /\ NoMessage.run = NoRun
BY DEF NoMessage, MessageRows

\* What is in a mailbox was inserted.
LEMMA UnreadWritten ==
    ASSUME NEW msgs, MessagesOK(msgs), NEW b, b # NoBox, NEW m \in Unread(msgs, b)
    PROVE  m \in MessageIds /\ msgs[m].run \in Runs
<1>1. m \in MessageIds /\ msgs[m].box = b BY DEF Unread
<1>2. msgs[m].run \in Runs \cup {NoRun} BY <1>1 DEF MessagesOK, MessageRows
<1> QED BY <1>1, <1>2 DEF MessagesOK, NoMessage

-----------------------------------------------------------------------------
(* What a step does to messages.                                              *)

\* A message stays in its run and stays read.
Follows(old, new) ==
    \A m \in MessageIds : old[m].run # NoRun =>
        new[m].run = old[m].run /\ (old[m].read => new[m].read)

\* An inserted row changes, and stays one of its run.
Rewritten(old, new) ==
    /\ new = [m \in MessageIds |-> new[m]]
    /\ \A m \in MessageIds :
        \/ new[m] = old[m]
        \/ /\ old[m].run # NoRun
           /\ new[m] \in MessageRows
           /\ new[m].run = old[m].run
           /\ old[m].read => new[m].read

LEMMA RewrittenKeeps ==
    ASSUME NEW msgs, MessagesOK(msgs), NEW new, Rewritten(msgs, new)
    PROVE  MessagesOK(new) /\ Follows(msgs, new)
<1>1. msgs \in [MessageIds -> MessageRows] BY DEF MessagesOK
<1>2. \A m \in MessageIds : new[m] \in MessageRows BY <1>1 DEF Rewritten
<1>3. new = [m \in MessageIds |-> new[m]] BY DEF Rewritten
<1>4. new \in [MessageIds -> MessageRows] BY <1>2, <1>3
<1>5. \A m \in MessageIds : new[m].run = NoRun => new[m] = NoMessage BY DEF Rewritten, MessagesOK
<1>6. Follows(msgs, new) BY DEF Rewritten, Follows
<1> QED BY <1>4, <1>5, <1>6 DEF MessagesOK

LEMMA ReadKeeps ==
    ASSUME NEW msgs, MessagesOK(msgs), NEW S, \A m \in S : m \in MessageIds => msgs[m].run # NoRun
    PROVE  MessagesOK(Read(msgs, S)) /\ Follows(msgs, Read(msgs, S))
<1> DEFINE new == Read(msgs, S)
<1>1. ASSUME NEW m \in MessageIds, m \in S
      PROVE  msgs[m].run # NoRun /\ new[m] \in MessageRows /\ new[m].run = msgs[m].run /\ new[m].read
  <2>1. new[m] = [msgs[m] EXCEPT !.read = TRUE] BY <1>1 DEF Read
  <2>2. msgs[m] \in MessageRows BY DEF MessagesOK
  <2> QED BY <1>1, <2>1, <2>2 DEF MessageRows
<1>2. \A m \in MessageIds : m \notin S => new[m] = msgs[m] BY DEF Read
<1>3. new = [m \in MessageIds |-> new[m]] BY DEF Read
<1> HIDE DEF new
<1>4. Rewritten(msgs, new) BY <1>1, <1>2, <1>3 DEF Rewritten
<1> QED BY <1>4, RewrittenKeeps DEF new

LEMMA InOwnRunBoxKeeps ==
    ASSUME MessagesOK(message), NEW S, \A m \in S : message[m].run \in Runs
    PROVE  MessagesOK(InOwnRunBox(S)) /\ Follows(message, InOwnRunBox(S))
<1> DEFINE new == InOwnRunBox(S)
<1>1. ASSUME NEW m \in MessageIds, m \in S
      PROVE  /\ message[m].run # NoRun /\ new[m] \in MessageRows
             /\ new[m].run = message[m].run /\ new[m].read = message[m].read
  <2>1. new[m] = [message[m] EXCEPT !.box = RunBox(message[m].run), !.quiet = FALSE]
    BY <1>1 DEF InOwnRunBox
  <2>2. message[m] \in MessageRows BY DEF MessagesOK
  <2>3. RunBox(message[m].run) \in Boxes /\ message[m].run # NoRun
    BY <1>1, BoxTypes, RunMailboxAssumption
  <2> QED BY <2>1, <2>2, <2>3 DEF MessageRows
<1>2. \A m \in MessageIds : m \notin S => new[m] = message[m] BY DEF InOwnRunBox
<1>3. new = [m \in MessageIds |-> new[m]] BY DEF InOwnRunBox
<1> HIDE DEF new
<1>4. Rewritten(message, new) BY <1>1, <1>2, <1>3 DEF Rewritten
<1> QED BY <1>4, RewrittenKeeps DEF new

LEMMA HomeType ==
    ASSUME NEW t \in Terminals, NEW r \in Runs
    PROVE  Home(t, r) \in Boxes
<1>1. ASSUME Assigned(r, t) PROVE ClaimBox(CHOOSE c \in HeldAt(t) : ClaimRun(c) = r) \in Boxes
  <2>1. (CHOOSE c \in HeldAt(t) : ClaimRun(c) = r) \in HeldAt(t) BY <1>1 DEF Assigned
  <2> QED BY <2>1, BoxTypes DEF HeldAt
<1> QED BY <1>1, BoxTypes DEF Home

LEMMA SortedKeeps ==
    ASSUME NEW msgs, MessagesOK(msgs), NEW t \in Terminals
    PROVE  MessagesOK(Sorted(msgs, t)) /\ Follows(msgs, Sorted(msgs, t))
<1> DEFINE new == Sorted(msgs, t)
<1>1. ASSUME NEW m \in MessageIds, m \in Unread(msgs, Direct(t))
      PROVE  /\ msgs[m].run # NoRun /\ new[m] \in MessageRows
             /\ new[m].run = msgs[m].run /\ new[m].read = msgs[m].read
  <2>1. new[m] = [msgs[m] EXCEPT !.box = Home(t, msgs[m].run)] BY <1>1 DEF Sorted
  <2>2. msgs[m] \in MessageRows BY DEF MessagesOK
  <2>3. msgs[m].run \in Runs BY <1>1, BoxKinds, UnreadWritten
  <2>4. Home(t, msgs[m].run) \in Boxes BY <2>3, HomeType
  <2> QED BY <2>1, <2>2, <2>3, <2>4, RunMailboxAssumption DEF MessageRows
<1>2. \A m \in MessageIds : m \notin Unread(msgs, Direct(t)) => new[m] = msgs[m] BY DEF Sorted
<1>3. new = [m \in MessageIds |-> new[m]] BY DEF Sorted
<1> HIDE DEF new
<1>4. Rewritten(msgs, new) BY <1>1, <1>2, <1>3 DEF Rewritten
<1> QED BY <1>4, RewrittenKeeps DEF new

LEMMA InsertKeeps ==
    ASSUME TypeOK, NEW msgs, MessagesOK(msgs), NEW m \in MessageIds, msgs[m].run = NoRun,
           NEW r \in Runs, NEW b \in Boxes
    PROVE  MessagesOK(Insert(msgs, m, r, b)) /\ Follows(msgs, Insert(msgs, m, r, b))
<1>1. Landing(b, r) \in Boxes BY BoxTypes DEF Landing
<1> DEFINE row == [run |-> r, box |-> Landing(b, r), read |-> FALSE, quiet |-> FALSE]
<1>2. row \in MessageRows /\ row.run = r BY <1>1 DEF MessageRows
<1>3. Insert(msgs, m, r, b) = [msgs EXCEPT ![m] = row] BY DEF Insert
<1>4. r # NoRun BY RunMailboxAssumption
<1> HIDE DEF row
<1> QED BY <1>2, <1>3, <1>4 DEF MessagesOK, Follows

LEMMA FollowsOn == ASSUME NEW a, NEW b, NEW c, Follows(a, b), Follows(b, c) PROVE Follows(a, c)
BY DEF Follows

-----------------------------------------------------------------------------
(* What a step does to deliveries.                                            *)

LEMMA RunsAre ==
    ASSUME TypeOK, NEW r \in Runs
    PROVE  r # NoRun /\ run[r].generation \in 0..MaxGeneration /\ run[r].generation \in Nat
BY RunMailboxAssumption DEF TypeOK

LEMMA FollowKeepsDeliveries ==
    ASSUME NEW rs, NEW msgs, NEW new, NEW dels, DeliveriesOK(rs, msgs, dels), Follows(msgs, new)
    PROVE  DeliveriesOK(rs, new, dels)
<1>1. ASSUME NEW d \in DeliveryIds PROVE DeliveryKept(rs, new, dels[d])
  <2>1. dels[d] \in DeliveryRows /\ DeliveryKept(rs, msgs, dels[d]) BY DEF DeliveriesOK
  <2>2. dels[d].batch \subseteq MessageIds BY <2>1 DEF DeliveryRows
  <2> QED BY <2>1, <2>2 DEF DeliveryKept, Follows
<1> QED BY <1>1 DEF DeliveriesOK

\* The acknowledgment of a check.
LEMMA AckKeeps ==
    ASSUME TypeOK, MessagesOK(message), DeliveriesOK(run, message, delivery), NEW c \in Calls
    PROVE  /\ MessagesOK(AckedMessages(c)) /\ Follows(message, AckedMessages(c))
           /\ DeliveriesOK(run, AckedMessages(c), AckedDeliveries(c))
<1> DEFINE a == call[c].ack
<1>1. CASE ~Acks(c)
  BY <1>1 DEF AckedMessages, AckedDeliveries, Follows
<1>2. CASE Acks(c)
  <2> DEFINE dels == AckedDeliveries(c)
             msgs == AckedMessages(c)
             row == [delivery[a] EXCEPT !.status = "acknowledged"]
  <2>1. a \in DeliveryIds /\ delivery[a].status = "outstanding"
    BY <1>2 DEF Acks, TypeOK, CallRows
  <2>2. delivery[a] \in DeliveryRows /\ DeliveryKept(run, message, delivery[a])
    BY <2>1 DEF DeliveriesOK
  <2>3. delivery[a].run # NoRun BY <2>1, <2>2 DEF DeliveryKept, NoDelivery
  <2>4. msgs = Read(message, delivery[a].batch) /\ dels = [delivery EXCEPT ![a] = row]
    BY <1>2 DEF AckedMessages, AckedDeliveries
  <2>5. MessagesOK(msgs) /\ Follows(message, msgs)
    <3>1. \A m \in delivery[a].batch : m \in MessageIds => message[m].run # NoRun
      BY <2>2, <2>3 DEF DeliveryKept
    <3> QED BY <2>4, <3>1, ReadKeeps
  <2>6. \A m \in delivery[a].batch : msgs[m].read /\ msgs[m].run # NoRun
    <3>1. delivery[a].batch \subseteq MessageIds BY <2>2 DEF DeliveryRows
    <3>2. ASSUME NEW m \in delivery[a].batch PROVE msgs[m].read
      <4>1. msgs[m] = [message[m] EXCEPT !.read = TRUE] BY <2>4, <3>1 DEF Read
      <4>2. message[m] \in MessageRows BY <3>1 DEF MessagesOK
      <4> QED BY <4>1, <4>2 DEF MessageRows
    <3>3. \A m \in delivery[a].batch : msgs[m].run # NoRun
      BY <2>2, <2>3, <2>5, <3>1 DEF DeliveryKept, Follows
    <3> QED BY <3>2, <3>3
  <2>7. /\ row \in DeliveryRows /\ row.run = delivery[a].run /\ row.generation = delivery[a].generation
        /\ row.batch = delivery[a].batch /\ row.status = "acknowledged"
    BY <2>2 DEF DeliveryRows
  <2>8. dels \in [DeliveryIds -> DeliveryRows] /\ dels[a] = row
        /\ \A d \in DeliveryIds : d # a => dels[d] = delivery[d]
    BY <2>1, <2>4, <2>7 DEF TypeOK
  <2>9. DeliveriesOK(run, msgs, delivery) BY <2>5, FollowKeepsDeliveries
  <2> HIDE DEF row, dels, msgs, a
  <2>10. DeliveryKept(run, msgs, row)
    BY <2>2, <2>3, <2>6, <2>7 DEF DeliveryKept
  <2>11. \A d \in DeliveryIds : d # a => Apart(delivery[d], row) /\ Apart(row, delivery[d])
    <3>1. \A d \in DeliveryIds : d # a => Apart(delivery[d], delivery[a]) /\ Apart(delivery[a], delivery[d])
      BY <2>1 DEF DeliveriesOK
    <3> QED BY <2>7, <3>1 DEF Apart
  <2>12. DeliveriesOK(run, msgs, dels)
    BY <2>8, <2>9, <2>10, <2>11 DEF DeliveriesOK
  <2> QED BY <2>5, <2>12 DEF dels, msgs
<1> QED BY <1>1, <1>2

\* A new delivery of unread messages to the present consumer.
LEMMA NewDeliveryKeeps ==
    ASSUME TypeOK, NEW msgs, MessagesOK(msgs), NEW dels, DeliveriesOK(run, msgs, dels),
           NEW r \in Runs, Outstanding(dels, r) = {}, NEW d \in DeliveryIds, dels[d].run = NoRun,
           NEW b, b # NoBox, NEW B, B \subseteq Unread(msgs, b)
    PROVE  DeliveriesOK(run, msgs, [dels EXCEPT ![d] =
               [run |-> r, generation |-> run[r].generation, batch |-> B, status |-> "outstanding"]])
<1> DEFINE row == [run |-> r, generation |-> run[r].generation, batch |-> B, status |-> "outstanding"]
           new == [dels EXCEPT ![d] = row]
<1>1. \A m \in B : m \in MessageIds /\ msgs[m].run \in Runs /\ ~msgs[m].read
  BY UnreadWritten DEF Unread
<1>2. row \in DeliveryRows BY <1>1, RunsAre DEF DeliveryRows
<1>3. /\ row.run = r /\ row.generation = run[r].generation /\ row.batch = B
      /\ row.status = "outstanding"
  OBVIOUS
<1>4. /\ new \in [DeliveryIds -> DeliveryRows] /\ new[d] = row
      /\ \A e \in DeliveryIds : e # d => new[e] = dels[e]
  BY <1>2 DEF DeliveriesOK
<1>5. r # NoRun /\ run[r].generation \in Nat BY RunsAre
<1> HIDE DEF row, new
<1>6. DeliveryKept(run, msgs, row)
  BY <1>1, <1>3, <1>5, RunMailboxAssumption DEF DeliveryKept
<1>7. ASSUME NEW e \in DeliveryIds, e # d PROVE Apart(dels[e], row) /\ Apart(row, dels[e])
  <2>1. DeliveryKept(run, msgs, dels[e]) BY DEF DeliveriesOK
  <2>2. ~(dels[e].run = r /\ dels[e].status = "outstanding") BY DEF Outstanding
  <2>3. ASSUME dels[e].run = r, dels[e].generation = run[r].generation
        PROVE  dels[e].batch \cap B = {}
    <3>1. \A m \in dels[e].batch : msgs[m].read BY <1>5, <2>1, <2>2, <2>3 DEF DeliveryKept
    <3> QED BY <1>1, <3>1
  <2> QED BY <1>3, <2>2, <2>3 DEF Apart
<1>8. DeliveriesOK(run, msgs, new) BY <1>4, <1>6, <1>7 DEF DeliveriesOK
<1> QED BY <1>8 DEF new, row

\* Runs that change hands lose their deliveries to the generation before.
LEMMA FenceKeeps ==
    ASSUME TypeOK, NEW msgs, DeliveriesOK(run, msgs, delivery), NEW R \in SUBSET Runs,
           NEW rs, \A r \in Runs : rs[r].generation = IF r \in R THEN run[r].generation + 1
                                                      ELSE run[r].generation
    PROVE  DeliveriesOK(rs, msgs, Fence(R))
<1> DEFINE new == Fence(R)
<1>1. ASSUME NEW d \in DeliveryIds
      PROVE  /\ new[d] \in DeliveryRows /\ new[d].run = delivery[d].run
             /\ new[d].generation = delivery[d].generation /\ new[d].batch = delivery[d].batch
             /\ new[d].status = IF delivery[d].run \in R /\ delivery[d].status = "outstanding"
                                THEN "fenced" ELSE delivery[d].status
             /\ delivery[d].run = NoRun => new[d] = delivery[d]
  <2>1. new[d] = IF delivery[d].run \in R /\ delivery[d].status = "outstanding"
                 THEN [delivery[d] EXCEPT !.status = "fenced"] ELSE delivery[d]
    BY DEF Fence
  <2>2. delivery[d] \in DeliveryRows BY DEF TypeOK
  <2>3. delivery[d].run = NoRun => delivery[d].run \notin R BY RunMailboxAssumption
  <2>4. CASE delivery[d].run \in R /\ delivery[d].status = "outstanding"
    <3>1. new[d] = [delivery[d] EXCEPT !.status = "fenced"] BY <2>1, <2>4
    <3> QED BY <2>2, <2>3, <2>4, <3>1 DEF DeliveryRows
  <2>5. CASE ~(delivery[d].run \in R /\ delivery[d].status = "outstanding")
    BY <2>1, <2>2, <2>5
  <2> QED BY <2>4, <2>5
<1>2. new = [d \in DeliveryIds |-> new[d]] BY DEF Fence
<1> HIDE DEF new
<1>3. new \in [DeliveryIds -> DeliveryRows] BY <1>1, <1>2
<1>4. ASSUME NEW d \in DeliveryIds PROVE DeliveryKept(rs, msgs, new[d])
  <2>1. DeliveryKept(run, msgs, delivery[d]) /\ delivery[d] \in DeliveryRows BY DEF DeliveriesOK
  <2>2. CASE delivery[d].run = NoRun BY <1>1, <2>1, <2>2 DEF DeliveryKept
  <2>3. CASE delivery[d].run # NoRun
    <3> DEFINE r == delivery[d].run
    <3>1. r \in Runs /\ delivery[d].generation \in Nat BY <2>1, <2>3 DEF DeliveryRows
    <3>2. run[r].generation \in Nat BY <3>1, RunsAre
    <3>3. rs[r].generation = IF r \in R THEN run[r].generation + 1 ELSE run[r].generation BY <3>1
    <3>4. delivery[d].generation <= run[r].generation BY <2>1, <2>3 DEF DeliveryKept
    <3>5. CASE r \in R
      <4>1. delivery[d].generation <= rs[r].generation /\ delivery[d].generation # rs[r].generation
        BY <3>1, <3>2, <3>3, <3>4, <3>5
      <4>2. new[d].status # "outstanding" BY <1>1, <3>5
      <4> QED BY <1>1, <2>1, <2>3, <4>1, <4>2 DEF DeliveryKept
    <3>6. CASE r \notin R
      <4>1. rs[r].generation = run[r].generation BY <3>3, <3>6
      <4>2. new[d].status = delivery[d].status BY <1>1, <3>6
      <4> QED BY <1>1, <2>1, <2>3, <4>1, <4>2 DEF DeliveryKept
    <3> QED BY <3>5, <3>6
  <2> QED BY <2>2, <2>3
<1>5. ASSUME NEW d \in DeliveryIds, NEW e \in DeliveryIds, d # e PROVE Apart(new[d], new[e])
  <2>1. Apart(delivery[d], delivery[e]) BY <1>5 DEF DeliveriesOK
  <2> QED BY <1>1, <2>1 DEF Apart
<1>6. DeliveriesOK(rs, msgs, new) BY <1>3, <1>4, <1>5 DEF DeliveriesOK
<1> QED BY <1>6 DEF new

-----------------------------------------------------------------------------
(* What a step does to checks.                                                *)

\* Every check stays as it is, or does not wait in a run's mailbox afterwards.
Calmed(new, heard) ==
    /\ new = [c \in Calls |-> new[c]]
    /\ \A c \in Calls :
        \/ new[c] = call[c]
        \/ /\ new[c] \in CallRows
           /\ Rightful(new[c], heard)
           /\ new[c].pc = "waiting" => \A r : new[c].box # RunBox(r)

LEMMA CalmedKeeps ==
    ASSUME CallsOK(run, call, told), NEW new, NEW heard, told \subseteq heard,
           Calmed(new, heard), NEW rs,
           \A c \in Calls : new[c] = call[c] /\ call[c].pc = "waiting" /\ call[c].box = RunBox(call[c].run)
               => rs[call[c].run] = run[call[c].run]
    PROVE  CallsOK(rs, new, heard)
<1>1. new \in [Calls -> CallRows]
  <2>1. \A c \in Calls : new[c] \in CallRows BY DEF Calmed, CallsOK
  <2>2. new = [c \in Calls |-> new[c]] BY DEF Calmed
  <2> QED BY <2>1, <2>2
<1>2. \A c \in Calls : Rightful(new[c], heard) BY DEF Calmed, CallsOK, Rightful
<1>3. ASSUME NEW c \in Calls, NEW e \in Calls, new[c].pc = "waiting", new[c].box = RunBox(new[c].run)
      PROVE  /\ rs[new[c].run].terminal = new[c].by
             /\ rs[new[c].run].generation = new[c].generation
             /\ new[e].pc = "waiting" /\ new[e].box = new[c].box => c = e
  <2>1. new[c] = call[c] BY <1>3 DEF Calmed
  <2>2. WaitersOK(run, call) BY DEF CallsOK
  <2>3. new[e].pc = "waiting" /\ new[e].box = new[c].box => new[e] = call[e] BY <1>3 DEF Calmed
  <2> QED BY <1>3, <2>1, <2>2, <2>3 DEF WaitersOK
<1> QED BY <1>1, <1>2, <1>3 DEF WaitersOK, CallsOK

LEMMA IdleType == Idle \in CallRows /\ Idle.ack = 0 /\ Idle.pc = "idle"
BY RunMailboxAssumption DEF Idle, CallRows

LEMMA SameCalms == ASSUME CallsOK(run, call, told), NEW heard PROVE Calmed(call, heard)
BY DEF Calmed, CallsOK

LEMMA WakeCalms ==
    ASSUME CallsOK(run, call, told), NEW notices
    PROVE  Calmed(Wake(notices), told)
<1> DEFINE new == Wake(notices)
<1>1. \A c \in Calls : \/ new[c] = call[c]
                       \/ call[c].pc = "waiting" /\ new[c] = [call[c] EXCEPT !.pc = "woken"]
  BY DEF Wake
<1>2. new = [c \in Calls |-> new[c]] BY DEF Wake
<1> HIDE DEF new
<1>3. ASSUME NEW c \in Calls, new[c] # call[c]
      PROVE  new[c] \in CallRows /\ Rightful(new[c], told) /\ new[c].pc # "waiting"
  <2>1. call[c].pc = "waiting" /\ new[c] = [call[c] EXCEPT !.pc = "woken"] BY <1>1, <1>3
  <2>2. call[c] \in CallRows BY DEF CallsOK
  <2>3. /\ new[c] \in CallRows /\ new[c].pc # "waiting"
        /\ new[c].ack = call[c].ack /\ new[c].by = call[c].by
    BY <2>1, <2>2 DEF CallRows
  <2> QED BY <2>1, <2>3 DEF Rightful, CallsOK
<1>4. Calmed(new, told) BY <1>2, <1>3 DEF Calmed
<1> QED BY <1>4 DEF new

LEMMA CancelCalms ==
    ASSUME CallsOK(run, call, told), NEW boxes
    PROVE  Calmed(Cancel(boxes), told)
<1> DEFINE new == Cancel(boxes)
<1>1. \A c \in Calls : \/ new[c] = call[c]
                       \/ call[c].pc = "waiting" /\ new[c] = [call[c] EXCEPT !.pc = "cancelled"]
  BY DEF Cancel
<1>2. new = [c \in Calls |-> new[c]] BY DEF Cancel
<1> HIDE DEF new
<1>3. ASSUME NEW c \in Calls, new[c] # call[c]
      PROVE  new[c] \in CallRows /\ Rightful(new[c], told) /\ new[c].pc # "waiting"
  <2>1. call[c].pc = "waiting" /\ new[c] = [call[c] EXCEPT !.pc = "cancelled"] BY <1>1, <1>3
  <2>2. call[c] \in CallRows BY DEF CallsOK
  <2>3. /\ new[c] \in CallRows /\ new[c].pc # "waiting"
        /\ new[c].ack = call[c].ack /\ new[c].by = call[c].by
    BY <2>1, <2>2 DEF CallRows
  <2> QED BY <2>1, <2>3 DEF Rightful, CallsOK
<1>4. Calmed(new, told) BY <1>2, <1>3 DEF Calmed
<1> QED BY <1>4 DEF new

\* One check goes on, to a row that does not wait in a run's mailbox.
LEMMA OneCalms ==
    ASSUME NEW heard, NEW calls, Calmed(calls, heard), NEW c \in Calls, NEW row \in CallRows,
           Rightful(row, heard), row.pc = "waiting" => \A r : row.box # RunBox(r)
    PROVE  Calmed([calls EXCEPT ![c] = row], heard)
<1> DEFINE new == [calls EXCEPT ![c] = row]
<1>1. calls = [e \in Calls |-> calls[e]] BY DEF Calmed
<1>2. new[c] = row /\ \A e \in Calls : e # c => new[e] = calls[e] BY <1>1
<1>3. new = [e \in Calls |-> new[e]] BY <1>1
<1> HIDE DEF new
<1>4. Calmed(new, heard) BY <1>2, <1>3 DEF Calmed
<1> QED BY <1>4 DEF new

LEMMA EndCalms ==
    ASSUME NEW heard, NEW calls, Calmed(calls, heard), NEW c \in Calls
    PROVE  Calmed([calls EXCEPT ![c] = Idle], heard)
BY OneCalms, IdleType DEF Rightful

\* The one who waits in a run's mailbox.
LEMMA WaitKeeps ==
    ASSUME CallsOK(run, call, told), NEW c \in Calls, StillBound(c), call[c].pc # "idle",
           call[c].box = RunBox(call[c].run),
           ~ \E e \in Calls : call[e].pc = "waiting" /\ call[e].box = call[c].box
    PROVE  CallsOK(run, [call EXCEPT ![c].pc = "waiting", ![c].ack = 0], told)
<1> DEFINE new == [call EXCEPT ![c].pc = "waiting", ![c].ack = 0]
           row == [call[c] EXCEPT !.pc = "waiting", !.ack = 0]
<1>1. call[c] \in CallRows /\ call \in [Calls -> CallRows] BY DEF CallsOK
<1>2. /\ row \in CallRows /\ row.pc = "waiting" /\ row.ack = 0 /\ row.by = call[c].by
      /\ row.box = call[c].box /\ row.run = call[c].run /\ row.generation = call[c].generation
  BY <1>1 DEF CallRows
<1>3. new = [call EXCEPT ![c] = row] BY <1>1
<1> HIDE DEF new, row
<1>4. new \in [Calls -> CallRows] /\ new[c] = row /\ \A e \in Calls : e # c => new[e] = call[e]
  BY <1>1, <1>2, <1>3
<1>5. \A e \in Calls : Rightful(new[e], told) BY <1>2, <1>4 DEF Rightful, CallsOK
<1>6. ASSUME NEW e \in Calls, NEW f \in Calls, new[e].pc = "waiting", new[e].box = RunBox(new[e].run)
      PROVE  /\ run[new[e].run].terminal = new[e].by
             /\ run[new[e].run].generation = new[e].generation
             /\ new[f].pc = "waiting" /\ new[f].box = new[e].box => e = f
  <2>1. WaitersOK(run, call) BY DEF CallsOK
  <2>2. CASE e = c
    <3>1. f # c => ~(new[f].pc = "waiting" /\ new[f].box = call[c].box) BY <1>4
    <3> QED BY <1>2, <1>4, <2>2, <3>1 DEF StillBound, Current
  <2>3. CASE e # c
    <3>1. new[e] = call[e] BY <1>4, <2>3
    <3>2. f = c => new[f].box # new[e].box BY <1>2, <1>4, <1>6, <3>1
    <3> QED BY <1>4, <1>6, <2>1, <3>1, <3>2 DEF WaitersOK
  <2> QED BY <2>2, <2>3
<1>7. CallsOK(run, new, told) BY <1>4, <1>5, <1>6 DEF CallsOK, WaitersOK
<1> QED BY <1>7 DEF new

-----------------------------------------------------------------------------
(* What the invariant says.                                                   *)

LEMMA DeliveriesAre ==
    ASSUME DeliveriesOK(run, message, delivery), TypeOK
    PROVE  OutstandingIsCurrent /\ DeliveriesDoNotOverlap
<1>1. ASSUME NEW r \in Runs, NEW d \in DeliveryIds, NEW e \in DeliveryIds, d \in Outstanding(delivery, r)
      PROVE  /\ delivery[d].generation = run[r].generation
             /\ e \in Outstanding(delivery, r) => d = e
  <2>1. r # NoRun /\ delivery[d].run = r /\ delivery[d].status = "outstanding"
    BY <1>1, RunsAre DEF Outstanding
  <2>2. \A f \in DeliveryIds : f \in Outstanding(delivery, r) =>
            /\ delivery[f].run = r /\ delivery[f].status = "outstanding"
            /\ delivery[f].generation = run[r].generation
    BY <2>1 DEF Outstanding, DeliveriesOK, DeliveryKept
  <2>3. d # e => Apart(delivery[d], delivery[e]) BY DEF DeliveriesOK
  <2> QED BY <1>1, <2>1, <2>2, <2>3 DEF Apart
<1>2. DeliveriesDoNotOverlap BY DEF DeliveriesOK, Apart, DeliveriesDoNotOverlap
<1> QED BY <1>1, <1>2 DEF OutstandingIsCurrent

LEMMA WaitersAre == CallsOK(run, call, told) => WaiterIsCurrent
BY DEF CallsOK, WaitersOK, WaiterIsCurrent, StillBound, Current

\* The invariant after a step, from its parts.
LEMMA InvariantAfter ==
    ASSUME run' \in [Runs -> [terminal : Terminals \cup {NoTerminal}, generation : 0..MaxGeneration]],
           known' \subseteq Runs \X Terminals,
           MessagesOK(message'),
           DeliveriesOK(run', message', delivery'),
           CallsOK(run', call', told'),
           told' \subseteq Terminals \X DeliveryIds,
           life' \in [Claims -> {"unused", "held", "over"}],
           owner' \in [Claims -> Tasks \cup {NoTask}],
           place' \in [Claims -> Terminals \cup {NoTerminal}],
           OneRunPerTerminal'
    PROVE  MInv'
<1>1. TypeOK' BY DEF TypeOK, MessagesOK, DeliveriesOK, CallsOK
<1>2. MessagesOK(message)' /\ DeliveriesOK(run, message, delivery)' /\ CallsOK(run, call, told)'
  BY DEF MessagesOK, DeliveriesOK, DeliveryKept, Apart, CallsOK, Rightful, WaitersOK
<1> QED BY <1>1, <1>2 DEF MInv

\* A step that leaves runs and claims alone.
LEMMA StepKeeps ==
    ASSUME MInv, run' = run, known' = known, UNCHANGED claimVars,
           MessagesOK(message'), DeliveriesOK(run, message', delivery'),
           told' \subseteq Terminals \X DeliveryIds, CallsOK(run, call', told')
    PROVE  MInv'
<1>1. OneRunPerTerminal' BY DEF MInv, OneRunPerTerminal
<1> QED BY <1>1, InvariantAfter DEF MInv, TypeOK, claimVars

\* A step that only moves, reads or adds mail and calms checks.
LEMMA MailStepKeeps ==
    ASSUME MInv, UNCHANGED <<run, known, delivery, told, claimVars>>,
           MessagesOK(message'), Follows(message, message'), Calmed(call', told)
    PROVE  MInv'
<1>1. DeliveriesOK(run, message', delivery) BY FollowKeepsDeliveries DEF MInv
<1>2. CallsOK(run, call', told) BY CalmedKeeps DEF MInv
<1> QED BY <1>1, <1>2, StepKeeps DEF MInv, TypeOK, claimVars

-----------------------------------------------------------------------------
(* Mail.                                                                      *)

LEMMA PostKeeps ==
    ASSUME MInv, NEW msgs, MessagesOK(msgs), Follows(message, msgs), NEW m \in MessageIds,
           msgs[m].run = NoRun, NEW r \in Runs, NEW b \in Boxes, Post(msgs, m, r, b)
    PROVE  MessagesOK(message') /\ Follows(message, message') /\ Calmed(call', told)
<1> DEFINE all == Insert(msgs, m, r, b)
           at == {t \in Terminals : all[m].box = Direct(t)}
<1>1. MessagesOK(all) /\ Follows(msgs, all) BY InsertKeeps DEF MInv
<1>2. Follows(message, all) BY <1>1, FollowsOn
<1>3. \A notices : Calmed(Wake(notices), told) BY WakeCalms DEF MInv
<1>4. \/ message' = all /\ call' = Wake({<<all[m].box, m>>})
      \/ \E t \in Terminals : message' = Sorted(all, t) /\ call' = Wake(Notices(all, t, m))
  BY DEF Post
<1> HIDE DEF all, at
<1>5. CASE message' = all /\ call' = Wake({<<all[m].box, m>>})
  BY <1>1, <1>2, <1>3, <1>5
<1>6. ASSUME NEW t \in Terminals, message' = Sorted(all, t), call' = Wake(Notices(all, t, m))
      PROVE  MessagesOK(message') /\ Follows(message, message') /\ Calmed(call', told)
  <2>1. MessagesOK(message') /\ Follows(all, message') BY <1>1, <1>6, SortedKeeps
  <2>2. Follows(message, message') BY <1>2, <2>1, FollowsOn
  <2> QED BY <1>3, <1>6, <2>1, <2>2
<1> QED BY <1>4, <1>5, <1>6

LEMMA SendKeeps ==
    ASSUME MInv, NEW m \in MessageIds, NEW r \in Runs, NEW b \in Boxes, Send(m, r, b)
    PROVE  MInv'
<1>1. MessagesOK(message) /\ Follows(message, message) /\ message[m].run = NoRun
  BY DEF MInv, Send, NextMessage, Follows
<1>2. MessagesOK(message') /\ Follows(message, message') /\ Calmed(call', told)
  BY <1>1, PostKeeps DEF Send
<1> QED BY <1>2, MailStepKeeps DEF Send

LEMMA ReplyKeeps ==
    ASSUME MInv, NEW m \in MessageIds, NEW original \in MessageIds, NEW t \in Terminals,
           Reply(m, original, t)
    PROVE  MInv'
<1> DEFINE msgs == Read(message, {original})
<1>1. MessagesOK(msgs) /\ Follows(message, msgs) BY ReadKeeps DEF MInv, Reply
<1>2. msgs[m].run = NoRun
  <2>1. message[m].run = NoRun /\ m # original BY DEF Reply, NextMessage
  <2> QED BY <2>1 DEF Read
<1>3. message[original].run \in Runs BY DEF MInv, MessagesOK, MessageRows, Reply
<1>4. Direct(t) \in Boxes BY BoxTypes
<1>5. Post(msgs, m, message[original].run, Direct(t)) BY DEF Reply
<1> HIDE DEF msgs
<1>6. MessagesOK(message') /\ Follows(message, message') /\ Calmed(call', told)
  BY <1>1, <1>2, <1>3, <1>4, <1>5, PostKeeps
<1> QED BY <1>6, MailStepKeeps DEF Reply

-----------------------------------------------------------------------------
(* Binding a terminal to a run.                                               *)

LEMMA HandKeeps ==
    ASSUME MInv, NEW r \in Runs, NEW t \in Terminals, Hand(r, t)
    PROVE  MInv'
<1> DEFINE left == OtherRuns(r, t)
           lost == left \cup (IF run[r].terminal = t THEN {} ELSE {r})
           coordinators == {t, run[r].terminal} \ {NoTerminal}
           directMail ==
               (UNION {Unread(message, Direct(t)) \cap OfRun(message, MessageIds, q) : q \in left})
               \cup (UNION {Unread(message, Direct(u)) \cap OfRun(message, MessageIds, r) : u \in coordinators})
           moved == {m \in directMail : ~ \E u \in Terminals :
                                message[m].box = Direct(u) /\ Assigned(message[m].run, u)}
           cancelled == {Direct(t), RunBox(r)} \cup {RunBox(q) : q \in left}
<1>1. /\ \A q \in lost : run[q].generation < MaxGeneration
      /\ run' = [q \in Runs |->
                    IF q \in lost THEN [terminal |-> IF q = r THEN t ELSE NoTerminal,
                                        generation |-> run[q].generation + 1]
                    ELSE run[q]]
      /\ known' = known \cup {<<r, u>> : u \in coordinators}
      /\ message' = InOwnRunBox(moved)
      /\ delivery' = Fence(lost)
      /\ call' = Cancel(cancelled)
      /\ UNCHANGED <<told, claimVars>>
  BY DEF Hand
<1>2. left \subseteq Runs /\ lost \subseteq Runs BY DEF OtherRuns, Bound
<1>3. \A q \in Runs : q \in left <=> run[q].terminal = t /\ q # r BY DEF OtherRuns, Bound
<1>4. coordinators \subseteq Terminals BY DEF MInv, TypeOK
<1>5. \A m \in moved : message[m].run \in Runs
  <2> HIDE DEF left
  <2>1. \A m \in directMail : \E q \in Runs : m \in OfRun(message, MessageIds, q) BY <1>2
  <2>2. \A m \in directMail : message[m].run \in Runs BY <2>1 DEF OfRun
  <2> QED BY <2>2
<1>6. \A q \in Runs : q \in lost <=> (run[q].terminal = t /\ q # r) \/ (q = r /\ run[r].terminal # t)
  BY <1>3
<1>7. lost \cap left = left /\ (\A q \in lost : RunBox(q) \in cancelled) OBVIOUS
<1> HIDE DEF left, lost, coordinators, directMail, moved, cancelled
<1>8. run' \in [Runs -> [terminal : Terminals \cup {NoTerminal}, generation : 0..MaxGeneration]]
  <2>1. ASSUME NEW q \in Runs, q \in lost
        PROVE  run[q].generation + 1 \in 0..MaxGeneration
    <3>1. run[q].generation \in Nat BY RunsAre DEF MInv
    <3> QED BY <1>1, <2>1, <3>1, RunMailboxAssumption
  <2> QED BY <1>1, <2>1 DEF MInv, TypeOK
<1>9. known' \subseteq Runs \X Terminals BY <1>1, <1>4 DEF MInv, TypeOK
<1>10. MessagesOK(message') /\ Follows(message, message') BY <1>1, <1>5, InOwnRunBoxKeeps DEF MInv
<1>11. DeliveriesOK(run', message', delivery')
  <2>1. \A q \in Runs : run'[q].generation = IF q \in lost THEN run[q].generation + 1
                                             ELSE run[q].generation
    BY <1>1
  <2>2. DeliveriesOK(run, message', delivery) BY <1>10, FollowKeepsDeliveries DEF MInv
  <2> QED BY <1>1, <1>2, <2>1, <2>2, FenceKeeps DEF MInv
<1>12. CallsOK(run', call', told')
  <2>1. Calmed(call', told) BY <1>1, CancelCalms DEF MInv
  <2>2. ASSUME NEW c \in Calls, call'[c] = call[c], call[c].pc = "waiting",
               call[c].box = RunBox(call[c].run)
        PROVE  run'[call[c].run] = run[call[c].run]
    <3>1. call[c].run \in Runs BY <2>2, BoxTypes DEF MInv, TypeOK, CallRows
    <3>2. RunBox(call[c].run) \notin cancelled
      <4>1. call'[c] = IF call[c].pc = "waiting" /\ call[c].box \in cancelled
                       THEN [call[c] EXCEPT !.pc = "cancelled"] ELSE call[c]
        BY <1>1 DEF Cancel
      <4>2. call[c] \in CallRows BY DEF MInv, TypeOK
      <4>3. [call[c] EXCEPT !.pc = "cancelled"].pc = "cancelled" BY <4>2 DEF CallRows
      <4> QED BY <2>2, <4>1, <4>3
    <3>3. call[c].run \notin lost BY <1>7, <3>2
    <3> QED BY <1>1, <3>1, <3>3
  <2> QED BY <1>1, <2>1, <2>2, CalmedKeeps DEF MInv
<1>13. OneRunPerTerminal'
  <2>1. ASSUME NEW q \in Runs PROVE run'[q].terminal = IF q = r THEN t
                                    ELSE IF run[q].terminal = t THEN NoTerminal ELSE run[q].terminal
    BY <1>1, <1>6
  <2> QED BY <2>1 DEF MInv, OneRunPerTerminal
<1>14. /\ told' \subseteq Terminals \X DeliveryIds
       /\ life' \in [Claims -> {"unused", "held", "over"}]
       /\ owner' \in [Claims -> Tasks \cup {NoTask}]
       /\ place' \in [Claims -> Terminals \cup {NoTerminal}]
  BY <1>1 DEF MInv, TypeOK, claimVars
<1> QED BY <1>8, <1>9, <1>10, <1>11, <1>12, <1>13, <1>14, InvariantAfter

-----------------------------------------------------------------------------
(* Dispatches.                                                                *)

LEMMA TakeClaimKeeps ==
    ASSUME MInv, NEW c \in Claims, NEW task \in Tasks, NEW t \in Terminals \cup {NoTerminal},
           TakeClaim(c, task, t)
    PROVE  MInv'
<1>1. /\ life' = [life EXCEPT ![c] = "held"] /\ owner' = [owner EXCEPT ![c] = task]
      /\ place' = [place EXCEPT ![c] = t]
      /\ UNCHANGED <<run, known, message, delivery, call, told>>
  BY DEF TakeClaim, Claim!Take
<1>2. OneRunPerTerminal' BY <1>1 DEF MInv, OneRunPerTerminal
<1> QED BY <1>1, <1>2, InvariantAfter DEF MInv, TypeOK

LEMMA AttachClaimKeeps ==
    ASSUME MInv, NEW c \in Claims, NEW t \in Terminals, AttachClaim(c, t)
    PROVE  MInv'
<1>1. /\ place' = [place EXCEPT ![c] = t] /\ UNCHANGED <<life, owner>>
      /\ UNCHANGED <<run, known, message, delivery, call, told>>
  BY DEF AttachClaim, Claim!Attach
<1>2. OneRunPerTerminal' BY <1>1 DEF MInv, OneRunPerTerminal
<1> QED BY <1>1, <1>2, InvariantAfter DEF MInv, TypeOK

LEMMA EndClaimKeeps ==
    ASSUME MInv, NEW c \in Claims, NEW notified \in BOOLEAN, EndClaim(c, notified)
    PROVE  MInv'
<1>1. /\ life' = [life EXCEPT ![c] = "over"] /\ place' = [place EXCEPT ![c] = NoTerminal]
      /\ UNCHANGED owner /\ UNCHANGED <<run, known, message, delivery, told>>
  BY DEF EndClaim, Claim!Release
<1>2. Calmed(call', told) BY WakeCalms, SameCalms DEF EndClaim, MInv
<1>3. CallsOK(run, call', told) BY <1>2, CalmedKeeps DEF MInv
<1>4. OneRunPerTerminal' BY <1>1 DEF MInv, OneRunPerTerminal
<1> QED BY <1>1, <1>3, <1>4, InvariantAfter DEF MInv, TypeOK

-----------------------------------------------------------------------------
(* A check before its answer.                                                 *)

LEMMA RouteKeeps ==
    ASSUME MInv, NEW c \in Calls, NEW row \in CallRows, row.by \in Terminals, Rightful(row, told),
           Route(c, row)
    PROVE  MessagesOK(message') /\ Follows(message, message') /\ Calmed(call', told)
<1> DEFINE mail == RoutablePart(message, row)
           page == Oldest(mail)
           moved == [m \in MessageIds |->
                        IF m \in page THEN [message[m] EXCEPT !.box = row.box, !.quiet = TRUE]
                        ELSE message[m]]
           next == IF page = mail THEN [row EXCEPT !.pc = "routed", !.through = 0]
                   ELSE [row EXCEPT !.pc = "routing"]
<1>1. message' = moved /\ call' = [call EXCEPT ![c] = next] BY DEF Route
<1>2. \A m \in page : m \in Unread(message, Direct(row.by)) BY DEF Oldest, RoutablePart, OfRun
<1> HIDE DEF page, mail
<1>3. ASSUME NEW m \in MessageIds, m \in page
      PROVE  /\ message[m].run # NoRun /\ moved[m] \in MessageRows
             /\ moved[m].run = message[m].run /\ moved[m].read = message[m].read
  <2>1. moved[m] = [message[m] EXCEPT !.box = row.box, !.quiet = TRUE] BY <1>3
  <2>2. message[m] \in MessageRows BY DEF MInv, MessagesOK
  <2>3. message[m].run \in Runs BY <1>2, <1>3, BoxKinds, UnreadWritten DEF MInv
  <2>4. row.box \in Boxes \cup {NoBox} BY DEF CallRows
  <2> HIDE DEF moved
  <2> QED BY <2>1, <2>2, <2>3, <2>4, RunMailboxAssumption DEF MessageRows
<1>4. \A m \in MessageIds : m \notin page => moved[m] = message[m] OBVIOUS
<1>5. moved = [m \in MessageIds |-> moved[m]] OBVIOUS
<1>6. /\ next \in CallRows /\ next.pc # "waiting" /\ next.by = row.by /\ next.ack = row.ack
  BY DEF CallRows
<1> HIDE DEF moved, next
<1>7. Rewritten(message, moved) BY <1>3, <1>4, <1>5 DEF Rewritten
<1>8. MessagesOK(moved) /\ Follows(message, moved) BY <1>7, RewrittenKeeps DEF MInv
<1>9. Rightful(next, told) BY <1>6 DEF Rightful
<1>10. Calmed([call EXCEPT ![c] = next], told) BY <1>6, <1>9, SameCalms, OneCalms DEF MInv
<1> QED BY <1>1, <1>8, <1>10

LEMMA BeginKeeps ==
    ASSUME MInv, NEW c \in Calls, NEW t \in Terminals, NEW mode \in Modes, NEW ack \in {0} \cup DeliveryIds,
           NEW b \in Boxes, NEW r \in Runs \cup {NoRun}, b = RunBox(r) => r \in Runs,
           ack # 0 => <<t, ack>> \in told, Begin(c, t, mode, ack, b, r)
    PROVE  MInv'
<1> DEFINE g == IF b = RunBox(r) THEN run[r].generation ELSE 0
           row(last) == [Idle EXCEPT !.by = t, !.box = b, !.run = r, !.generation = g, !.ack = ack,
                            !.through = last,
                            !.wait = mode.wait, !.filtered = mode.filtered, !.peek = mode.peek]
<1>1. PICK last \in {0} \cup MessageIds : Route(c, row(last)) BY DEF Begin
<1>2. g \in 0..MaxGeneration BY RunsAre, RunMailboxAssumption DEF MInv
<1>3. mode.wait \in BOOLEAN /\ mode.filtered \in BOOLEAN /\ mode.peek \in BOOLEAN
  BY RunMailboxAssumption
<1> HIDE DEF g
<1>4. row(last) \in CallRows /\ row(last).by = t /\ row(last).ack = ack
  BY <1>2, <1>3 DEF CallRows, Idle
<1> HIDE DEF row
<1>5. Rightful(row(last), told) BY <1>4 DEF Rightful
<1>6. MessagesOK(message') /\ Follows(message, message') /\ Calmed(call', told)
  BY <1>1, <1>4, <1>5, RouteKeeps
<1> QED BY <1>6, MailStepKeeps DEF Begin

LEMMA CheckRunKeeps ==
    ASSUME MInv, NEW c \in Calls, NEW t \in Terminals, NEW r \in Runs, NEW mode \in Modes,
           NEW ack \in {0} \cup DeliveryIds, CheckRun(c, t, r, mode, ack)
    PROVE  MInv'
BY BoxTypes, BeginKeeps DEF CheckRun

LEMMA CheckDispatchKeeps ==
    ASSUME MInv, NEW c \in Calls, NEW t \in Terminals, NEW k \in Claims, NEW mode \in Modes,
           CheckDispatch(c, t, k, mode)
    PROVE  MInv'
<1>1. ClaimRun(k) \in Runs \cup {NoRun} BY RunMailboxAssumption DEF ClaimRun, MInv, TypeOK
<1>2. ClaimBox(k) \in Boxes /\ ClaimBox(k) # RunBox(ClaimRun(k)) BY BoxTypes, BoxKinds
<1>3. Begin(c, t, mode, 0, ClaimBox(k), ClaimRun(k)) BY DEF CheckDispatch
<1> QED BY <1>1, <1>2, <1>3, BeginKeeps

LEMMA RoutePageKeeps ==
    ASSUME MInv, NEW c \in Calls, RoutePage(c)
    PROVE  MInv'
<1>1. call[c] \in CallRows /\ Rightful(call[c], told) BY DEF MInv, CallsOK
<1>2. call[c].by \in Terminals BY <1>1 DEF Rightful, RoutePage
<1>3. MessagesOK(message') /\ Follows(message, message') /\ Calmed(call', told)
  BY <1>1, <1>2, RouteKeeps DEF RoutePage
<1> QED BY <1>3, MailStepKeeps DEF RoutePage

-----------------------------------------------------------------------------
(* The coordinator's check.                                                   *)

\* The check is over, and its terminal has received a delivery.
LEMMA AnswerKeeps ==
    ASSUME MInv, NEW c \in Calls, call[c].pc # "idle", NEW d \in DeliveryIds, Answer(c, d)
    PROVE  CallsOK(run, call', told') /\ told' \subseteq Terminals \X DeliveryIds
<1>1. call[c].by \in Terminals BY DEF MInv, CallsOK, Rightful
<1>2. Calmed(call', told') BY SameCalms, EndCalms DEF Answer, MInv
<1>3. told \subseteq told' BY DEF Answer
<1>4. CallsOK(run, call', told') BY <1>2, <1>3, CalmedKeeps DEF MInv
<1>5. told' \subseteq Terminals \X DeliveryIds BY <1>1 DEF Answer, MInv, TypeOK
<1> QED BY <1>4, <1>5

LEMMA EndKeeps ==
    ASSUME MInv, NEW c \in Calls, End(c)
    PROVE  CallsOK(run, call', told') /\ told' \subseteq Terminals \X DeliveryIds
<1>1. Calmed(call', told) BY SameCalms, EndCalms DEF End, MInv
<1>2. CallsOK(run, call', told) BY <1>1, CalmedKeeps DEF MInv
<1> QED BY <1>2 DEF End, MInv, TypeOK

LEMMA GetOrCreateKeeps ==
    ASSUME MInv, NEW c \in Calls, call[c].pc # "idle", call[c].box = RunBox(call[c].run), Current(c),
           NEW msgs, MessagesOK(msgs), NEW dels, DeliveriesOK(run, msgs, dels),
           GetOrCreateRunDelivery(c, msgs, dels)
    PROVE  /\ MessagesOK(message') /\ DeliveriesOK(run, message', delivery')
           /\ CallsOK(run, call', told') /\ told' \subseteq Terminals \X DeliveryIds
<1>1. message' = msgs BY DEF GetOrCreateRunDelivery
<1>2. ASSUME NEW d \in Outstanding(dels, call[c].run), delivery' = dels, Answer(c, d)
      PROVE  /\ DeliveriesOK(run, msgs, delivery')
             /\ CallsOK(run, call', told') /\ told' \subseteq Terminals \X DeliveryIds
  BY <1>2, AnswerKeeps DEF Outstanding
<1>3. ASSUME Outstanding(dels, call[c].run) = {}, NEW d \in DeliveryIds, NextDelivery(dels, d),
             delivery' = [dels EXCEPT ![d] =
                        [run |-> call[c].run, generation |-> call[c].generation,
                         batch |-> NextBatch(c, msgs), status |-> "outstanding"]],
             Answer(c, d)
      PROVE  /\ DeliveriesOK(run, msgs, delivery')
             /\ CallsOK(run, call', told') /\ told' \subseteq Terminals \X DeliveryIds
  <2>1. call[c].run \in Runs BY BoxTypes DEF MInv, TypeOK, CallRows
  <2>2. call[c].generation = run[call[c].run].generation BY DEF Current
  <2>3. NextBatch(c, msgs) \subseteq Unread(msgs, call[c].box) BY DEF NextBatch, Oldest
  <2>4. call[c].box # NoBox BY BoxKinds
  <2>5. dels[d].run = NoRun BY <1>3 DEF NextDelivery
  <2>6. DeliveriesOK(run, msgs, delivery')
    BY <1>3, <2>1, <2>2, <2>3, <2>4, <2>5, NewDeliveryKeeps DEF MInv
  <2> QED BY <1>3, <2>6, AnswerKeeps
<1> QED BY <1>1, <1>2, <1>3 DEF GetOrCreateRunDelivery

LEMMA ResumeRunCheckKeeps ==
    ASSUME MInv, NEW c \in Calls, ResumeRunCheck(c)
    PROVE  MInv'
<1>1. /\ call[c].pc = "routed" /\ call[c].box = RunBox(call[c].run)
      /\ UNCHANGED <<run, known, claimVars>>
  BY DEF ResumeRunCheck
<1>2. CASE RefuseRunCheck(c)
  <2>1. CallsOK(run, call', told') /\ told' \subseteq Terminals \X DeliveryIds
    BY <1>2, EndKeeps DEF RefuseRunCheck
  <2>2. MessagesOK(message') /\ DeliveriesOK(run, message', delivery') BY <1>2 DEF RefuseRunCheck, MInv
  <2> QED BY <1>1, <2>1, <2>2, StepKeeps
<1>3. CASE AckAndRead(c)
  <2> DEFINE msgs == AckedMessages(c)
             dels == AckedDeliveries(c)
             delivers == ~call[c].peek /\ ~NothingToDeliver(c, msgs, dels, call[c].wait)
             shows == call[c].peek /\ Visible(c, msgs, call[c].box) # {}
  <2>1. MessagesOK(msgs) /\ DeliveriesOK(run, msgs, dels) BY AckKeeps DEF MInv
  <2>2. StillBound(c) /\ Current(c) BY <1>3 DEF AckAndRead, StillBound
  <2>3. \/ GetOrCreateRunDelivery(c, msgs, dels)
        \/ /\ message' = msgs /\ delivery' = dels
           /\ WaitInRunBox(c) \/ End(c)
    BY <1>3 DEF AckAndRead
  <2> HIDE DEF msgs, dels, delivers, shows
  <2>4. CASE GetOrCreateRunDelivery(c, msgs, dels)
    <3>1. /\ MessagesOK(message') /\ DeliveriesOK(run, message', delivery')
          /\ CallsOK(run, call', told') /\ told' \subseteq Terminals \X DeliveryIds
      BY <1>1, <2>1, <2>2, <2>4, GetOrCreateKeeps
    <3> QED BY <1>1, <3>1, StepKeeps
  <2>5. CASE message' = msgs /\ delivery' = dels /\ (WaitInRunBox(c) \/ End(c))
    <3>1. End(c) => CallsOK(run, call', told') /\ told' \subseteq Terminals \X DeliveryIds
      BY EndKeeps
    <3>2. ASSUME ~End(c) PROVE CallsOK(run, call', told') /\ told' \subseteq Terminals \X DeliveryIds
      <4>1. /\ ~ \E e \in Calls : call[e].pc = "waiting" /\ call[e].box = call[c].box
            /\ call' = [call EXCEPT ![c].pc = "waiting", ![c].ack = 0] /\ UNCHANGED told
        BY <2>5, <3>2 DEF WaitInRunBox
      <4>2. CallsOK(run, call', told) BY <1>1, <2>2, <4>1, WaitKeeps DEF MInv
      <4> QED BY <4>1, <4>2 DEF MInv, TypeOK
    <3> QED BY <1>1, <2>1, <2>5, <3>1, <3>2, StepKeeps
  <2> QED BY <2>3, <2>4, <2>5
<1> QED BY <1>2, <1>3 DEF ResumeRunCheck

LEMMA FinishRunCheckKeeps ==
    ASSUME MInv, NEW c \in Calls, FinishRunCheck(c)
    PROVE  MInv'
<1>1. /\ call[c].pc # "idle" /\ call[c].box = RunBox(call[c].run)
      /\ UNCHANGED <<run, known, claimVars>>
  BY DEF FinishRunCheck
<1>2. \/ Current(c) /\ GetOrCreateRunDelivery(c, message, delivery)
      \/ End(c) /\ UNCHANGED <<message, delivery>>
  BY DEF FinishRunCheck
<1>3. MessagesOK(message) /\ DeliveriesOK(run, message, delivery) BY DEF MInv
<1>4. CASE Current(c) /\ GetOrCreateRunDelivery(c, message, delivery)
  <2>1. /\ MessagesOK(message') /\ DeliveriesOK(run, message', delivery')
        /\ CallsOK(run, call', told') /\ told' \subseteq Terminals \X DeliveryIds
    BY <1>1, <1>3, <1>4, GetOrCreateKeeps
  <2> QED BY <1>1, <2>1, StepKeeps
<1>5. CASE End(c) /\ UNCHANGED <<message, delivery>>
  BY <1>1, <1>3, <1>5, EndKeeps, StepKeeps
<1> QED BY <1>2, <1>4, <1>5

-----------------------------------------------------------------------------
(* A worker's check, and the check of a terminal that owns nothing.           *)

\* Reading what is in a mailbox.
LEMMA ReadBoxKeeps ==
    ASSUME MInv, NEW b, b # NoBox, NEW S, S \subseteq Unread(message, b)
    PROVE  MessagesOK(Read(message, S)) /\ Follows(message, Read(message, S))
<1>1. \A m \in S : message[m].run # NoRun BY UnreadWritten, RunMailboxAssumption DEF MInv
<1> QED BY <1>1, ReadKeeps DEF MInv

LEMMA SameMail == ASSUME MInv PROVE MessagesOK(message) /\ Follows(message, message)
BY DEF MInv, Follows

LEMMA RefuseKeeps ==
    ASSUME MInv, NEW c \in Calls, \E k \in Claims : MailboxOf(c, k), RefuseDispatchCheck(c)
    PROVE  MessagesOK(message') /\ Follows(message, message') /\ Calmed(call', told)
<1> DEFINE stranded == IF \E k \in Claims : MailboxOf(c, k) /\ life[k] = "over"
                       THEN Unread(message, call[c].box) ELSE {}
           notices == {<<RunBox(call[c].run), m>> : m \in stranded}
<1>1. message' = InOwnRunBox(stranded) /\ call' = [Wake(notices) EXCEPT ![c] = Idle]
  BY DEF RefuseDispatchCheck
<1>2. call[c].box # NoBox BY BoxKinds DEF MailboxOf
<1>3. \A m \in stranded : message[m].run \in Runs BY <1>2, UnreadWritten DEF MInv
<1> HIDE DEF stranded, notices
<1>4. MessagesOK(message') /\ Follows(message, message') BY <1>1, <1>3, InOwnRunBoxKeeps DEF MInv
<1>5. Calmed(call', told) BY <1>1, WakeCalms, EndCalms DEF MInv
<1> QED BY <1>4, <1>5

LEMMA ResumeDispatchCheckKeeps ==
    ASSUME MInv, NEW c \in Calls, ResumeDispatchCheck(c)
    PROVE  MInv'
<1>1. /\ call[c].pc = "routed" /\ \E k \in Claims : MailboxOf(c, k)
      /\ UNCHANGED <<run, known, delivery, told, claimVars>>
  BY DEF ResumeDispatchCheck
<1>2. CASE RefuseDispatchCheck(c) BY <1>1, <1>2, RefuseKeeps, MailStepKeeps
<1>3. CASE ~RefuseDispatchCheck(c)
  <2> DEFINE mail == Visible(c, message, call[c].box)
             next == IF mail = {} /\ call[c].wait THEN [call[c] EXCEPT !.pc = "waiting"] ELSE Idle
  <2>1. call[c].box # NoBox /\ \A r : call[c].box # RunBox(r) BY <1>1, BoxKinds DEF MailboxOf
  <2>2. mail \subseteq Unread(message, call[c].box) BY DEF Visible
  <2>3. /\ message' = (IF call[c].peek THEN message ELSE Read(message, mail))
        /\ call' = [call EXCEPT ![c] =
                        IF mail = {} /\ @.wait THEN [@ EXCEPT !.pc = "waiting"] ELSE Idle]
    BY <1>3 DEF ResumeDispatchCheck
  <2> HIDE DEF mail
  <2>4. MessagesOK(message') /\ Follows(message, message')
    BY <2>1, <2>2, <2>3, ReadBoxKeeps, SameMail
  <2>5. call[c] \in CallRows /\ Rightful(call[c], told) BY DEF MInv, CallsOK
  <2>6. call' = [call EXCEPT ![c] = next] BY <2>3
  <2>7. next \in CallRows /\ Rightful(next, told) /\ (next.pc = "waiting" => next.box = call[c].box)
    <3>1. CASE mail = {} /\ call[c].wait
      <4>1. next = [call[c] EXCEPT !.pc = "waiting"] BY <3>1
      <4>2. /\ next \in CallRows /\ next.by = call[c].by /\ next.ack = call[c].ack
            /\ next.box = call[c].box
        BY <2>5, <4>1 DEF CallRows
      <4> QED BY <1>1, <2>5, <4>2 DEF Rightful
    <3>2. CASE ~(mail = {} /\ call[c].wait) BY <3>2, IdleType DEF Rightful
    <3> QED BY <3>1, <3>2
  <2> HIDE DEF next
  <2>8. Calmed(call', told) BY <2>1, <2>6, <2>7, SameCalms, OneCalms DEF MInv
  <2> QED BY <1>1, <2>4, <2>8, MailStepKeeps
<1> QED BY <1>2, <1>3

LEMMA FinishDispatchCheckKeeps ==
    ASSUME MInv, NEW c \in Calls, FinishDispatchCheck(c)
    PROVE  MInv'
<1>1. /\ \E k \in Claims : MailboxOf(c, k)
      /\ UNCHANGED <<run, known, delivery, told, claimVars>>
  BY DEF FinishDispatchCheck
<1>2. CASE RefuseDispatchCheck(c) BY <1>1, <1>2, RefuseKeeps, MailStepKeeps
<1>3. CASE ~RefuseDispatchCheck(c)
  <2>1. call[c].box # NoBox BY <1>1, BoxKinds DEF MailboxOf
  <2>2. Visible(c, message, call[c].box) \subseteq Unread(message, call[c].box) BY DEF Visible
  <2>3. /\ message' = message \/ message' = Read(message, Visible(c, message, call[c].box))
        /\ call' = [call EXCEPT ![c] = Idle]
    BY <1>3 DEF FinishDispatchCheck
  <2>4. MessagesOK(message') /\ Follows(message, message')
    BY <2>1, <2>2, <2>3, ReadBoxKeeps, SameMail
  <2>5. Calmed(call', told) BY <2>3, SameCalms, EndCalms DEF MInv
  <2> QED BY <1>1, <2>4, <2>5, MailStepKeeps
<1> QED BY <1>2, <1>3

LEMMA ReadDirectKeeps ==
    ASSUME MInv, NEW row, NEW t, row.box = Direct(t)
    PROVE  MessagesOK(ReadDirect(row)) /\ Follows(message, ReadDirect(row))
<1> DEFINE mail == {m \in Unread(message, row.box) : row.filtered => m \in Waking}
<1>1. ReadDirect(row) = IF row.peek THEN message ELSE Read(message, mail) BY DEF ReadDirect
<1>2. mail \subseteq Unread(message, row.box) /\ row.box # NoBox BY BoxKinds
<1> HIDE DEF mail
<1> QED BY <1>1, <1>2, ReadBoxKeeps, SameMail

LEMMA CheckDirectKeeps ==
    ASSUME MInv, NEW c \in Calls, NEW t \in Terminals, NEW mode \in Modes, CheckDirect(c, t, mode)
    PROVE  MInv'
<1> DEFINE row == [Idle EXCEPT !.pc = "waiting", !.by = t, !.box = Direct(t), !.wait = mode.wait,
                               !.filtered = mode.filtered, !.peek = mode.peek]
<1>1. mode.wait \in BOOLEAN /\ mode.filtered \in BOOLEAN /\ mode.peek \in BOOLEAN
  BY RunMailboxAssumption
<1>2. Direct(t) \in Boxes BY BoxTypes
<1>3. row \in CallRows /\ row.by = t /\ row.ack = 0 /\ row.box = Direct(t)
  BY <1>1, <1>2, IdleType DEF CallRows
<1>4. /\ message' = ReadDirect(row)
      /\ call' = [call EXCEPT ![c] = Idle] \/ call' = [call EXCEPT ![c] = row]
      /\ UNCHANGED <<run, known, delivery, told, claimVars>>
  BY DEF CheckDirect
<1> HIDE DEF row
<1>5. MessagesOK(message') /\ Follows(message, message') BY <1>3, <1>4, ReadDirectKeeps
<1>6. Rightful(row, told) /\ \A r : row.box # RunBox(r) BY <1>3, BoxKinds DEF Rightful
<1>7. Calmed([call EXCEPT ![c] = row], told) BY <1>3, <1>6, SameCalms, OneCalms DEF MInv
<1>8. Calmed([call EXCEPT ![c] = Idle], told) BY SameCalms, EndCalms DEF MInv
<1> QED BY <1>4, <1>5, <1>7, <1>8, MailStepKeeps

LEMMA FinishDirectCheckKeeps ==
    ASSUME MInv, NEW c \in Calls, FinishDirectCheck(c)
    PROVE  MInv'
<1>1. /\ call[c].box = Direct(call[c].by)
      /\ message' = message \/ message' = ReadDirect(call[c])
      /\ call' = [call EXCEPT ![c] = Idle]
      /\ UNCHANGED <<run, known, delivery, told, claimVars>>
  BY DEF FinishDirectCheck
<1>2. MessagesOK(message') /\ Follows(message, message') BY <1>1, ReadDirectKeeps, SameMail
<1>3. Calmed(call', told) BY <1>1, SameCalms, EndCalms DEF MInv
<1> QED BY <1>1, <1>2, <1>3, MailStepKeeps

-----------------------------------------------------------------------------
(* Time, clients and the process.                                             *)

LEMMA WaitEndsKeeps ==
    ASSUME MInv, NEW c \in Calls, call[c].pc = "waiting", NEW pc \in {"expired", "cancelled"},
           call' = [call EXCEPT ![c].pc = pc],
           UNCHANGED <<run, known, message, delivery, told, claimVars>>
    PROVE  MInv'
<1> DEFINE row == [call[c] EXCEPT !.pc = pc]
<1>1. call[c] \in CallRows /\ Rightful(call[c], told) BY DEF MInv, CallsOK
<1>2. row \in CallRows /\ row.by = call[c].by /\ row.ack = call[c].ack /\ row.pc # "waiting"
  BY <1>1 DEF CallRows
<1>3. call' = [call EXCEPT ![c] = row] BY DEF MInv, TypeOK
<1> HIDE DEF row
<1>4. Rightful(row, told) BY <1>1, <1>2 DEF Rightful
<1>5. Calmed([call EXCEPT ![c] = row], told) BY <1>2, <1>4, SameCalms, OneCalms DEF MInv
<1>6. MessagesOK(message') /\ Follows(message, message') BY SameMail
<1> QED BY <1>3, <1>5, <1>6, MailStepKeeps

LEMMA ExpireKeeps == ASSUME MInv, NEW c \in Calls, Expire(c) PROVE MInv'
BY WaitEndsKeeps DEF Expire

LEMMA AbortKeeps ==
    ASSUME MInv, NEW c \in Calls, Abort(c)
    PROVE  MInv'
<1>1. UNCHANGED <<run, known, message, delivery, told, claimVars>> BY DEF Abort
<1>2. CASE call[c].pc = "waiting" /\ call' = [call EXCEPT ![c].pc = "cancelled"]
  BY <1>1, <1>2, WaitEndsKeeps
<1>3. CASE call' = [call EXCEPT ![c] = Idle]
  <2>1. Calmed(call', told) BY <1>3, SameCalms, EndCalms DEF MInv
  <2>2. MessagesOK(message') /\ Follows(message, message') BY <1>1, SameMail
  <2> QED BY <1>1, <2>1, <2>2, MailStepKeeps
<1> QED BY <1>2, <1>3 DEF Abort

LEMMA RestartKeeps ==
    ASSUME MInv, Restart
    PROVE  MInv'
<1>1. call' = [c \in Calls |-> Idle] /\ UNCHANGED <<run, known, told, claimVars>> BY DEF Restart
<1>2. Calmed(call', told)
  <2>1. \A c \in Calls : call'[c] = Idle BY <1>1
  <2>2. call' = [c \in Calls |-> call'[c]] BY <1>1
  <2> QED BY <2>1, <2>2, IdleType DEF Calmed, Rightful
<1>3. CallsOK(run, call', told) BY <1>2, CalmedKeeps DEF MInv
<1>4. MessagesOK(message') /\ DeliveriesOK(run, message', delivery')
  <2>1. CASE UNCHANGED <<message, delivery>> BY <2>1 DEF MInv
  <2>2. ASSUME NEW c \in Calls, message' = AckedMessages(c), delivery' = AckedDeliveries(c)
        PROVE  MessagesOK(message') /\ DeliveriesOK(run, message', delivery')
    BY <2>2, AckKeeps DEF MInv
  <2> QED BY <2>1, <2>2 DEF Restart
<1> QED BY <1>1, <1>3, <1>4, StepKeeps DEF MInv, TypeOK

-----------------------------------------------------------------------------
(* The theorems.                                                              *)

LEMMA InitEstablishes == Init => MInv
<1> SUFFICES ASSUME Init PROVE MInv OBVIOUS
<1>1. TypeOK
  <2>1. message \in [MessageIds -> MessageRows] BY NoMessageType DEF Init
  <2>2. delivery \in [DeliveryIds -> DeliveryRows]
    BY RunMailboxAssumption DEF Init, NoDelivery, DeliveryRows
  <2>3. call \in [Calls -> CallRows] BY IdleType DEF Init
  <2>4. run \in [Runs -> [terminal : Terminals \cup {NoTerminal}, generation : 0..MaxGeneration]]
    BY RunMailboxAssumption DEF Init
  <2> QED BY <2>1, <2>2, <2>3, <2>4 DEF Init, TypeOK
<1>2. MessagesOK(message) BY NoMessageType DEF Init, MessagesOK
<1>3. OneRunPerTerminal BY DEF Init, OneRunPerTerminal
<1>4. DeliveriesOK(run, message, delivery)
  <2>1. \A d \in DeliveryIds : delivery[d] = NoDelivery BY DEF Init
  <2>2. NoDelivery.run = NoRun BY DEF NoDelivery
  <2> QED BY <1>1, <2>1, <2>2 DEF TypeOK, DeliveriesOK, DeliveryKept, Apart
<1>5. CallsOK(run, call, told)
  <2>1. \A c \in Calls : call[c] = Idle BY DEF Init
  <2> QED BY <1>1, <2>1, IdleType DEF TypeOK, CallsOK, Rightful, WaitersOK
<1> QED BY <1>1, <1>2, <1>3, <1>4, <1>5 DEF MInv

LEMMA StepsKeep == MInv /\ [Next]_vars => MInv'
<1> SUFFICES ASSUME MInv, [Next]_vars PROVE MInv' OBVIOUS
<1>1. CASE Mail BY <1>1, SendKeeps, ReplyKeeps DEF Mail
<1>2. CASE Bindings BY <1>2, HandKeeps DEF Bindings, CreateRun, BindRun
<1>3. CASE Dispatches
  <2>1. PICK k \in Claims :
            \/ \E task \in Tasks, t \in Terminals \cup {NoTerminal} : TakeClaim(k, task, t)
            \/ \E t \in Terminals : AttachClaim(k, t)
            \/ \E notified \in BOOLEAN : EndClaim(k, notified)
    BY <1>3 DEF Dispatches
  <2> QED BY <2>1, TakeClaimKeeps, AttachClaimKeeps, EndClaimKeeps
<1>4. CASE Checks
  <2>1. ASSUME NEW c \in Calls, Proceed(c) PROVE MInv'
    BY <2>1, RoutePageKeeps, ResumeRunCheckKeeps, FinishRunCheckKeeps, ResumeDispatchCheckKeeps,
       FinishDispatchCheckKeeps, FinishDirectCheckKeeps
       DEF Proceed
  <2> QED
    BY <1>4, <2>1, CheckRunKeeps, CheckDispatchKeeps, CheckDirectKeeps, ExpireKeeps, AbortKeeps DEF Checks
<1>5. CASE Restart BY <1>5, RestartKeeps
<1>6. CASE UNCHANGED vars
  <2>1. UNCHANGED <<run, known, delivery, told, claimVars>> /\ message' = message /\ call' = call
    BY <1>6 DEF vars, claimVars
  <2> QED BY <2>1, SameMail, SameCalms, MailStepKeeps DEF MInv
<1> QED BY <1>1, <1>2, <1>3, <1>4, <1>5, <1>6 DEF Next

LEMMA Invariance == Spec => []MInv
BY InitEstablishes, StepsKeep, PTL DEF Spec

\* Every row and every open check stays well formed (db/runs, db/messages).
THEOREM MailTypeCorrect == Spec => []TypeOK
<1>1. MInv => TypeOK BY DEF MInv
<1> QED BY <1>1, Invariance, PTL

\* A terminal coordinates one run at a time (db/runs/run-binding.ts).
THEOREM TerminalsHaveOneRun == Spec => []OneRunPerTerminal
<1>1. MInv => OneRunPerTerminal BY DEF MInv
<1> QED BY <1>1, Invariance, PTL

\* Whatever is outstanding is alone in its run, and the present consumer's
\* (db/runs/run-delivery.ts).
THEOREM OutstandingForTheConsumer == Spec => []OutstandingIsCurrent
<1>1. MInv => OutstandingIsCurrent BY DeliveriesAre DEF MInv
<1> QED BY <1>1, Invariance, PTL

\* One consumer is never handed a message in two deliveries (db/runs/run-delivery.ts).
THEOREM HandedOutOnce == Spec => []DeliveriesDoNotOverlap
<1>1. MInv => DeliveriesDoNotOverlap BY DeliveriesAre DEF MInv
<1> QED BY <1>1, Invariance, PTL

\* A fenced consumer never keeps the place for waiting in a run's mailbox
\* (orchestration-runtime.ts).
THEOREM OnlyTheConsumerWaits == Spec => []WaiterIsCurrent
<1>1. MInv => WaiterIsCurrent BY WaitersAre DEF MInv
<1> QED BY <1>1, Invariance, PTL

-----------------------------------------------------------------------------
(* Who marks mail as read.                                                    *)

\* What MailIsReadByItsOwner says of one message in a step.
OwnerReads(m) ==
    \/ message[m].read \/ ~message'[m].read
    \/ \E k \in MessageIds : message[k].run = NoRun /\ message'[k].run # NoRun
    \/ \E d \in DeliveryIds, r \in Runs :
        /\ m \in delivery[d].batch /\ d \in Outstanding(delivery, r)
        /\ <<run[r].terminal, d>> \in told
    \/ \E k \in Claims : message[m].box = ClaimBox(k) /\ life[k] = "held"
        /\ \E c \in Calls : MailboxOf(c, k) /\ call[c].by = place[k] /\ call'[c] = Idle
    \/ \E t \in Terminals : message[m].box = Direct(t)

ReadsNothing == \A m \in MessageIds : message'[m].read => message[m].read

LEMMA ReadsOnly ==
    ASSUME MInv, NEW S, NEW m \in MessageIds, Read(message, S)[m].read, ~message[m].read
    PROVE  m \in S
BY DEF Read

LEMMA InOwnRunBoxReadsNothing ==
    ASSUME MInv, NEW S, message' = InOwnRunBox(S)
    PROVE  ReadsNothing
<1> SUFFICES ASSUME NEW m \in MessageIds, message'[m].read PROVE message[m].read BY DEF ReadsNothing
<1>1. message[m] \in MessageRows BY DEF MInv, MessagesOK
<1>2. message'[m] = IF m \in S THEN [message[m] EXCEPT !.box = RunBox(message[m].run), !.quiet = FALSE]
                    ELSE message[m]
  BY DEF InOwnRunBox
<1>3. [message[m] EXCEPT !.box = RunBox(message[m].run), !.quiet = FALSE].read = message[m].read
  BY <1>1 DEF MessageRows
<1> QED BY <1>2, <1>3

LEMMA RouteReadsNothing ==
    ASSUME MInv, NEW c, NEW row, Route(c, row)
    PROVE  ReadsNothing
<1> SUFFICES ASSUME NEW m \in MessageIds, message'[m].read PROVE message[m].read BY DEF ReadsNothing
<1>1. message[m] \in MessageRows BY DEF MInv, MessagesOK
<1>2. \/ message'[m] = message[m]
      \/ message'[m] = [message[m] EXCEPT !.box = row.box, !.quiet = TRUE]
  BY DEF Route
<1>3. [message[m] EXCEPT !.box = row.box, !.quiet = TRUE].read = message[m].read
  BY <1>1 DEF MessageRows
<1> QED BY <1>2, <1>3

LEMMA PostInserts ==
    ASSUME MInv, NEW msgs, MessagesOK(msgs), Follows(message, msgs), NEW m \in MessageIds,
           message[m].run = NoRun, msgs[m].run = NoRun, NEW r \in Runs, NEW b \in Boxes,
           Post(msgs, m, r, b)
    PROVE  \E k \in MessageIds : message[k].run = NoRun /\ message'[k].run # NoRun
<1> DEFINE all == Insert(msgs, m, r, b)
<1>1. MessagesOK(all) BY InsertKeeps DEF MInv
<1>2. all[m].run = r BY DEF Insert, MessagesOK
<1>3. r # NoRun BY RunMailboxAssumption
<1>4. message' = all \/ \E t \in Terminals : message' = Sorted(all, t) BY DEF Post
<1> HIDE DEF all
<1>5. ASSUME NEW t \in Terminals, message' = Sorted(all, t) PROVE message'[m].run # NoRun
  <2>1. Follows(all, message') BY <1>1, <1>5, SortedKeeps
  <2> QED BY <1>2, <1>3, <2>1 DEF Follows
<1>6. message'[m].run # NoRun BY <1>2, <1>3, <1>4, <1>5
<1> QED BY <1>6

\* Acknowledging reads what the acknowledging terminal was handed.
LEMMA AckReadsItsOwn ==
    ASSUME MInv, NEW c \in Calls, call[c].box = RunBox(call[c].run), StillBound(c),
           call[c].ack # 0 => AckAllowed(c), message' = AckedMessages(c), NEW m \in MessageIds
    PROVE  OwnerReads(m)
<1> DEFINE d == call[c].ack
           r == call[c].run
<1>1. SUFFICES ASSUME message'[m].read, ~message[m].read PROVE OwnerReads(m) BY DEF OwnerReads
<1>2. Acks(c) /\ m \in delivery[d].batch BY <1>1, ReadsOnly DEF AckedMessages
<1>3. d \in DeliveryIds /\ d # 0 /\ delivery[d].status = "outstanding"
  BY <1>2 DEF Acks, MInv, TypeOK, CallRows
<1>4. r \in Runs BY BoxTypes DEF MInv, TypeOK, CallRows
<1>5. delivery[d].run = r BY <1>3 DEF AckAllowed
<1>6. <<run[r].terminal, d>> \in told BY <1>3 DEF StillBound, MInv, CallsOK, Rightful
<1> HIDE DEF d, r
<1>7. d \in Outstanding(delivery, r) BY <1>3, <1>5 DEF Outstanding
<1> QED BY <1>2, <1>3, <1>4, <1>6, <1>7 DEF OwnerReads

LEMMA DispatchCheckReadsItsOwn ==
    ASSUME MInv, NEW c \in Calls, ResumeDispatchCheck(c) \/ FinishDispatchCheck(c), NEW m \in MessageIds
    PROVE  OwnerReads(m)
<1>1. SUFFICES ASSUME message'[m].read, ~message[m].read PROVE OwnerReads(m) BY DEF OwnerReads
<1>2. ~RefuseDispatchCheck(c)
  <2>1. RefuseDispatchCheck(c) => ReadsNothing BY InOwnRunBoxReadsNothing DEF RefuseDispatchCheck
  <2> QED BY <1>1, <2>1 DEF ReadsNothing
<1>3. StillHeld(c) BY <1>2 DEF ResumeDispatchCheck, FinishDispatchCheck
<1>4. message' = Read(message, Visible(c, message, call[c].box))
  BY <1>1, <1>2 DEF ResumeDispatchCheck, FinishDispatchCheck
<1>5. m \in Visible(c, message, call[c].box) BY <1>1, <1>4, ReadsOnly
<1>6. call'[c] = Idle
  <2>1. call \in [Calls -> CallRows] BY DEF MInv, TypeOK
  <2>2. CASE ResumeDispatchCheck(c)
    <3>1. call' = [call EXCEPT ![c] = IF Visible(c, message, call[c].box) = {} /\ @.wait
                                      THEN [@ EXCEPT !.pc = "waiting"] ELSE Idle]
      BY <1>2, <2>2 DEF ResumeDispatchCheck
    <3> QED BY <1>5, <2>1, <3>1
  <2>3. CASE FinishDispatchCheck(c)
    <3>1. call' = [call EXCEPT ![c] = Idle] BY <1>2, <2>3 DEF FinishDispatchCheck
    <3> QED BY <2>1, <3>1
  <2> QED BY <2>2, <2>3
<1>7. PICK k \in HeldAt(call[c].by) : MailboxOf(c, k) BY <1>3 DEF StillHeld
<1>8. k \in Claims /\ life[k] = "held" /\ place[k] = call[c].by BY <1>7 DEF HeldAt
<1>9. message[m].box = ClaimBox(k) BY <1>5, <1>7 DEF Visible, Unread, MailboxOf
<1> QED BY <1>6, <1>7, <1>8, <1>9 DEF OwnerReads

LEMMA DirectCheckReadsItsOwn ==
    ASSUME MInv, NEW row, NEW t, row.box = Direct(t), message' = ReadDirect(row), NEW m \in MessageIds
    PROVE  OwnerReads(m)
<1>1. SUFFICES ASSUME message'[m].read, ~message[m].read PROVE OwnerReads(m) BY DEF OwnerReads
<1>2. message' = Read(message, {k \in Unread(message, row.box) : row.filtered => k \in Waking})
  BY <1>1 DEF ReadDirect
<1>3. m \in Unread(message, row.box) BY <1>1, <1>2, ReadsOnly
<1>4. message[m].box = Direct(t) BY <1>3 DEF Unread
<1>5. message[m].box \in Boxes \cup {NoBox} BY DEF MInv, MessagesOK, MessageRows
<1>6. t \in Terminals BY <1>4, <1>5, BoxTypes
<1> QED BY <1>4, <1>6 DEF OwnerReads

LEMMA StepReadsItsOwn ==
    ASSUME MInv, Next, NEW m \in MessageIds
    PROVE  OwnerReads(m)
<1>1. ReadsNothing => OwnerReads(m) BY DEF ReadsNothing, OwnerReads
<1>2. UNCHANGED message => OwnerReads(m) BY DEF OwnerReads
<1>3. CASE Mail
  <2>1. ASSUME NEW k \in MessageIds, NEW r \in Runs, NEW b \in Boxes, Send(k, r, b) PROVE OwnerReads(m)
    <3>1. message[k].run = NoRun /\ Post(message, k, r, b) BY <2>1 DEF Send, NextMessage
    <3>2. MessagesOK(message) /\ Follows(message, message) BY SameMail
    <3> QED BY <3>1, <3>2, PostInserts DEF OwnerReads
  <2>2. ASSUME NEW k \in MessageIds, NEW original \in MessageIds, NEW t \in Terminals,
               Reply(k, original, t)
        PROVE  OwnerReads(m)
    <3> DEFINE msgs == Read(message, {original})
    <3>1. MessagesOK(msgs) /\ Follows(message, msgs) BY <2>2, ReadKeeps DEF MInv, Reply
    <3>2. message[k].run = NoRun /\ k # original BY <2>2 DEF Reply, NextMessage
    <3>3. msgs[k].run = NoRun BY <3>2 DEF Read
    <3>4. message[original].run \in Runs BY <2>2 DEF MInv, MessagesOK, MessageRows, Reply
    <3>5. Direct(t) \in Boxes /\ Post(msgs, k, message[original].run, Direct(t))
      BY <2>2, BoxTypes DEF Reply
    <3> HIDE DEF msgs
    <3> QED BY <3>1, <3>2, <3>3, <3>4, <3>5, PostInserts DEF OwnerReads
  <2> QED BY <1>3, <2>1, <2>2 DEF Mail
<1>4. CASE Bindings
  <2>1. \E S : message' = InOwnRunBox(S) BY <1>4 DEF Bindings, CreateRun, BindRun, Hand
  <2> QED BY <1>1, <2>1, InOwnRunBoxReadsNothing
<1>5. CASE Dispatches
  <2>1. UNCHANGED message BY <1>5 DEF Dispatches, TakeClaim, AttachClaim, EndClaim
  <2> QED BY <1>2, <2>1
<1>6. CASE Checks
  <2>1. PICK c \in Calls :
            \/ \E t \in Terminals, mode \in Modes :
                \/ \E r \in Runs, ack \in {0} \cup DeliveryIds : CheckRun(c, t, r, mode, ack)
                \/ \E k \in Claims : CheckDispatch(c, t, k, mode)
                \/ CheckDirect(c, t, mode)
            \/ Proceed(c) \/ Expire(c) \/ Abort(c)
    BY <1>6 DEF Checks
  <2>2. ASSUME NEW row, Route(c, row) PROVE OwnerReads(m) BY <1>1, <2>2, RouteReadsNothing
  <2>3. ASSUME NEW t, NEW mode, NEW ack, NEW b, NEW r, Begin(c, t, mode, ack, b, r)
        PROVE  OwnerReads(m)
    <3>1. \E row : Route(c, row) BY <2>3 DEF Begin
    <3> QED BY <2>2, <3>1
  <2>4. ASSUME NEW t \in Terminals, NEW mode \in Modes, CheckDirect(c, t, mode) PROVE OwnerReads(m)
    <3>1. PICK row : row.box = Direct(t) /\ message' = ReadDirect(row)
      <4> DEFINE row == [Idle EXCEPT !.pc = "waiting", !.by = t, !.box = Direct(t), !.wait = mode.wait,
                               !.filtered = mode.filtered, !.peek = mode.peek]
      <4>1. row.box = Direct(t) BY IdleType DEF CallRows
      <4>2. message' = ReadDirect(row) BY <2>4 DEF CheckDirect
      <4> HIDE DEF row
      <4> QED BY <4>1, <4>2
    <3> QED BY <3>1, DirectCheckReadsItsOwn
  <2>5. CASE RoutePage(c) BY <2>2, <2>5 DEF RoutePage
  <2>6. CASE ResumeRunCheck(c)
    <3>1. RefuseRunCheck(c) => UNCHANGED message BY DEF RefuseRunCheck
    <3>2. AckAndRead(c) => /\ StillBound(c) /\ (call[c].ack # 0 => AckAllowed(c))
                           /\ message' = AckedMessages(c)
      BY DEF AckAndRead, GetOrCreateRunDelivery
    <3> QED BY <1>2, <2>6, <3>1, <3>2, AckReadsItsOwn DEF ResumeRunCheck
  <2>7. CASE FinishRunCheck(c) BY <1>2, <2>7 DEF FinishRunCheck, GetOrCreateRunDelivery
  <2>8. CASE ResumeDispatchCheck(c) \/ FinishDispatchCheck(c) BY <2>8, DispatchCheckReadsItsOwn
  <2>9. CASE FinishDirectCheck(c) BY <1>2, <2>9, DirectCheckReadsItsOwn DEF FinishDirectCheck
  <2>10. CASE Expire(c) \/ Abort(c) BY <1>2, <2>10 DEF Expire, Abort
  <2> QED BY <2>1, <2>3, <2>4, <2>5, <2>6, <2>7, <2>8, <2>9, <2>10 DEF Proceed, CheckRun, CheckDispatch
<1>7. CASE Restart
  <2>1. ASSUME NEW c \in Calls, call[c].box = RunBox(call[c].run), StillBound(c), AckAllowed(c),
               message' = AckedMessages(c)
        PROVE  OwnerReads(m)
    BY <2>1, AckReadsItsOwn
  <2> QED BY <1>2, <1>7, <2>1 DEF Restart
<1> QED BY <1>3, <1>4, <1>5, <1>6, <1>7 DEF Next

\* Whatever checks, takeovers and ends of dispatches come between, mail is marked
\* read for a delivery by the consumer that was handed it, in a dispatch's mailbox
\* by the terminal that has the dispatch, or answered (orchestration-check-run.ts,
\* db/runs/run-delivery.ts).
THEOREM OwnersRead == Spec => MailIsReadByItsOwner
<1>1. MInv /\ [Next]_vars => [\A m \in MessageIds : OwnerReads(m)]_vars BY StepReadsItsOwn
<1>2. Spec => [][\A m \in MessageIds : OwnerReads(m)]_vars BY <1>1, Invariance, PTL DEF Spec
<1> QED BY <1>2 DEF MailIsReadByItsOwner, OwnerReads

-----------------------------------------------------------------------------
(* Nobody misses mail.                                                        *)

\* Mail in a dispatch's mailbox, and whoever checks it, are of the run of its task.
MailPlaced ==
    \A m \in MessageIds, k \in Claims :
        message[m].box = ClaimBox(k) => life[k] # "unused" /\ message[m].run = ClaimRun(k)
RowPlaced(row) ==
    /\ \A k \in Claims : row.box = ClaimBox(k) => life[k] # "unused" /\ row.run = ClaimRun(k)
    /\ \A t \in Terminals : row.box = Direct(t) => row.by = t
CallsPlaced == \A c \in Calls : RowPlaced(call[c])

NInv == MInv /\ MailPlaced /\ CallsPlaced /\ NoMissedMail

\* Nobody goes on waiting for m where it is now, but for a terminal in its own mailbox.
Announced(m) ==
    \A c \in Calls :
        /\ call'[c] = call[c] /\ call[c].pc = "waiting"
        /\ call[c].box # Direct(call[c].by) /\ (call[c].filtered => m \in Waking)
        => call[c].box # message'[m].box

Unmoved(m) ==
    /\ message'[m].box = message[m].box /\ message'[m].run = message[m].run
    /\ message'[m].quiet = message[m].quiet /\ (message[m].read => message'[m].read)

WellMoved(m) ==
    \/ Unmoved(m)
    \/ /\ \A k \in Claims : message'[m].box = ClaimBox(k) =>
                life[k] # "unused" /\ message'[m].run = ClaimRun(k)
       /\ message'[m].quiet \/ Announced(m)

\* Who begins to wait finds nothing.
WellWaiting(c) ==
    \/ call'[c] = call[c]
    \/ /\ RowPlaced(call'[c])
       /\ call'[c].pc = "waiting" /\ call'[c].box # Direct(call'[c].by) =>
            \A m \in MessageIds : message'[m].box = call'[c].box /\ ~message'[m].read =>
                call'[c].filtered /\ m \notin Waking

LEMMA NothingMissed ==
    ASSUME NInv, MInv', \A m \in MessageIds : WellMoved(m), \A c \in Calls : WellWaiting(c),
           \A k \in Claims : life[k] # "unused" => life'[k] # "unused" /\ owner'[k] = owner[k]
    PROVE  NInv'
<1>1. \A k \in Claims : life[k] # "unused" => ClaimRun(k)' = ClaimRun(k) BY DEF ClaimRun
<1>2. MailPlaced'
  <2> SUFFICES ASSUME NEW m \in MessageIds, NEW k \in Claims, message'[m].box = ClaimBox(k)
               PROVE  life'[k] # "unused" /\ message'[m].run = ClaimRun(k)'
    BY DEF MailPlaced, ClaimBox
  <2>1. life[k] # "unused" /\ message'[m].run = ClaimRun(k)
    BY DEF WellMoved, Unmoved, NInv, MailPlaced
  <2> QED BY <1>1, <2>1
<1>3. CallsPlaced'
  <2> SUFFICES ASSUME NEW c \in Calls PROVE RowPlaced(call[c])' BY DEF CallsPlaced
  <2>1. RowPlaced(call'[c]) BY DEF WellWaiting, NInv, CallsPlaced
  <2> QED BY <1>1, <2>1 DEF RowPlaced, ClaimBox, Direct
<1>4. NoMissedMail'
  <2> SUFFICES ASSUME NEW c \in Calls, NEW m \in MessageIds, call'[c].pc = "waiting",
                      call'[c].box # Direct(call'[c].by), message'[m].box = call'[c].box,
                      ~message'[m].read, call'[c].filtered => m \in Waking
               PROVE  message'[m].quiet
    BY DEF NoMissedMail, Visible, Unread, Direct
  <2>1. call'[c] = call[c] BY DEF WellWaiting
  <2>2. CASE Unmoved(m)
    <3>1. m \in Visible(c, message, call[c].box) BY <2>1, <2>2 DEF Unmoved, Visible, Unread
    <3> QED BY <2>1, <2>2, <3>1 DEF Unmoved, NInv, NoMissedMail
  <2>3. CASE message'[m].quiet \/ Announced(m) BY <2>1, <2>3 DEF Announced
  <2> QED BY <2>2, <2>3 DEF WellMoved
<1> QED BY <1>2, <1>3, <1>4 DEF NInv

LEMMA ReadMovesNothing ==
    ASSUME MInv, NEW S, message' = message \/ message' = Read(message, S), NEW m \in MessageIds
    PROVE  Unmoved(m)
<1>1. message[m] \in MessageRows BY DEF MInv, MessagesOK
<1>2. \/ message'[m] = message[m]
      \/ message'[m] = [message[m] EXCEPT !.read = TRUE]
  BY DEF Read
<1>3. CASE message'[m] = [message[m] EXCEPT !.read = TRUE]
  BY <1>1, <1>3 DEF Unmoved, MessageRows
<1> QED BY <1>2, <1>3 DEF Unmoved

LEMMA IdleWaitsForNothing ==
    ASSUME NEW c \in Calls, call'[c] = Idle
    PROVE  WellWaiting(c)
<1>1. Idle.box = NoBox /\ Idle.pc # "waiting" BY DEF Idle
<1> QED BY <1>1, BoxKinds DEF WellWaiting, RowPlaced

\* A check whose place in the handler changes, and that does not wait afterwards.
LEMMA PcChangesNoPlace ==
    ASSUME NInv, NEW c \in Calls, NEW pc \in {"routing", "routed", "woken", "expired", "cancelled"},
           call'[c] = [call[c] EXCEPT !.pc = pc]
    PROVE  WellWaiting(c)
<1>1. call[c] \in CallRows BY DEF NInv, MInv, TypeOK
<1>2. /\ call'[c].box = call[c].box /\ call'[c].run = call[c].run /\ call'[c].by = call[c].by
      /\ call'[c].pc = pc
  BY <1>1 DEF CallRows
<1>3. RowPlaced(call[c]) BY DEF NInv, CallsPlaced
<1>4. RowPlaced(call'[c]) BY <1>2, <1>3 DEF RowPlaced
<1> QED BY <1>2, <1>4 DEF WellWaiting

\* Whom a notice leaves waiting, it was not for.
LEMMA WakeSpares ==
    ASSUME NInv, NEW notices, NEW c \in Calls, Wake(notices)[c] = call[c], call[c].pc = "waiting",
           NEW n \in notices, call[c].filtered => n[2] \in Waking
    PROVE  n[1] # call[c].box
<1>1. call[c] \in CallRows BY DEF NInv, MInv, TypeOK
<1>2. [call[c] EXCEPT !.pc = "woken"].pc = "woken" BY <1>1 DEF CallRows
<1>3. n[1] = call[c].box => Wake(notices)[c] = [call[c] EXCEPT !.pc = "woken"] BY DEF Wake
<1> QED BY <1>2, <1>3

LEMMA WakeMovesNobody ==
    ASSUME NInv, NEW notices, NEW c \in Calls, call'[c] = Wake(notices)[c]
    PROVE  WellWaiting(c)
<1>1. call'[c] = call[c] \/ call'[c] = [call[c] EXCEPT !.pc = "woken"] BY DEF Wake
<1> QED BY <1>1, PcChangesNoPlace DEF WellWaiting

LEMMA PostMissesNobody ==
    ASSUME NInv, NEW m \in MessageIds, NEW original, NEW msgs, MessagesOK(msgs),
           msgs = message \/ msgs = Read(message, {original}),
           NEW r \in Runs, NEW b \in Boxes,
           \A k \in Claims : b = ClaimBox(k) => life[k] # "unused" /\ ClaimRun(k) = r,
           Post(msgs, m, r, b)
    PROVE  (\A k \in MessageIds : WellMoved(k)) /\ (\A c \in Calls : WellWaiting(c))
<1> DEFINE all == Insert(msgs, m, r, b)
<1>1. /\ all[m].run = r /\ all[m].box = Landing(b, r) /\ all[m].read = FALSE
      /\ \A k \in MessageIds : k # m => all[k] = msgs[k]
      /\ all = [k \in MessageIds |-> all[k]]
  BY DEF Insert, MessagesOK
<1>2. \A k \in Claims : all[m].box = ClaimBox(k) => life[k] # "unused" /\ ClaimRun(k) = r
  <2>1. Landing(b, r) = b \/ Landing(b, r) = RunBox(r) BY DEF Landing
  <2> QED BY <1>1, <2>1, BoxKinds
<1>3. \/ message' = all /\ call' = Wake({<<all[m].box, m>>})
      \/ \E t \in Terminals : /\ all[m].box = Direct(t)
                              /\ message' = Sorted(all, t) /\ call' = Wake(Notices(all, t, m))
  BY DEF Post
<1>4. ASSUME NEW k \in MessageIds, message'[k] = msgs[k] PROVE Unmoved(k)
  <2>1. message[k] \in MessageRows BY DEF NInv, MInv, MessagesOK
  <2>2. msgs[k] = message[k] \/ msgs[k] = [message[k] EXCEPT !.read = TRUE] BY DEF Read
  <2>3. CASE msgs[k] = [message[k] EXCEPT !.read = TRUE]
    BY <1>4, <2>1, <2>3 DEF Unmoved, MessageRows
  <2> QED BY <1>4, <2>2, <2>3 DEF Unmoved
<1> HIDE DEF all
<1>5. CASE message' = all /\ call' = Wake({<<all[m].box, m>>})
  <2>1. Announced(m)
    <3> SUFFICES ASSUME NEW c \in Calls, call'[c] = call[c], call[c].pc = "waiting",
                        call[c].filtered => m \in Waking
                 PROVE  call[c].box # message'[m].box
      BY DEF Announced
    <3>1. <<all[m].box, m>>[1] # call[c].box BY <1>5, WakeSpares
    <3> QED BY <1>5, <3>1
  <2>2. WellMoved(m) BY <1>1, <1>2, <1>5, <2>1 DEF WellMoved
  <2>3. \A k \in MessageIds : k # m => WellMoved(k) BY <1>1, <1>4, <1>5 DEF WellMoved
  <2> QED BY <1>5, <2>2, <2>3, WakeMovesNobody
<1>6. ASSUME NEW t \in Terminals, all[m].box = Direct(t), message' = Sorted(all, t),
             call' = Wake(Notices(all, t, m))
      PROVE  (\A k \in MessageIds : WellMoved(k)) /\ (\A c \in Calls : WellWaiting(c))
  <2>1. m \in Unread(all, Direct(t)) BY <1>1, <1>6 DEF Unread
  <2>2. ASSUME NEW k \in MessageIds, k \notin Unread(all, Direct(t)) PROVE WellMoved(k)
    <3>1. message'[k] = all[k] BY <1>6, <2>2 DEF Sorted
    <3> QED BY <1>1, <1>4, <2>1, <2>2, <3>1 DEF WellMoved
  <2>3. ASSUME NEW k \in MessageIds, k \in Unread(all, Direct(t)) PROVE WellMoved(k)
    <3> DEFINE home == Home(t, all[k].run)
    <3>1. MessagesOK(all)
      <4>1. \A j \in MessageIds : msgs[j] \in MessageRows BY DEF MessagesOK
      <4>2. \A j \in MessageIds : j # m => all[j] \in MessageRows /\ (all[j].run = NoRun => all[j] = NoMessage)
        BY <1>1, <4>1 DEF MessagesOK
      <4>3. all[m] \in MessageRows
        <5>1. all[m] = [run |-> r, box |-> Landing(b, r), read |-> FALSE, quiet |-> FALSE]
          BY DEF all, Insert, MessagesOK
        <5>2. Landing(b, r) \in Boxes BY BoxTypes DEF Landing
        <5> QED BY <5>1, <5>2 DEF MessageRows
      <4>4. all \in [MessageIds -> MessageRows] BY <1>1, <4>2, <4>3
      <4>5. all[m].run # NoRun BY <1>1, RunMailboxAssumption
      <4> QED BY <4>2, <4>4, <4>5 DEF MessagesOK
    <3>2. all[k] \in MessageRows /\ all[k].run \in Runs
      BY <2>3, <3>1, BoxKinds, UnreadWritten DEF MessagesOK
    <3>3. message'[k] = [all[k] EXCEPT !.box = home] BY <1>6, <2>3 DEF Sorted
    <3> HIDE DEF home
    <3>4. message'[k].box = home /\ message'[k].run = all[k].run BY <3>2, <3>3 DEF MessageRows
    <3>5. ASSUME NEW c \in Claims, home = ClaimBox(c)
          PROVE  life[c] # "unused" /\ message'[k].run = ClaimRun(c)
      <4> DEFINE chosen == CHOOSE e \in HeldAt(t) : ClaimRun(e) = all[k].run
      <4>1. home = ClaimBox(chosen) /\ Assigned(all[k].run, t) BY <3>5, BoxKinds DEF home, Home
      <4>2. chosen \in HeldAt(t) /\ ClaimRun(chosen) = all[k].run BY <4>1 DEF Assigned
      <4>3. c = chosen BY <3>5, <4>1, BoxKinds
      <4> QED BY <3>4, <4>2, <4>3 DEF HeldAt
    <3>6. Announced(k)
      <4> SUFFICES ASSUME NEW c \in Calls, call'[c] = call[c], call[c].pc = "waiting",
                          call[c].box # Direct(call[c].by), call[c].filtered => k \in Waking
                   PROVE  call[c].box # message'[k].box
        BY DEF Announced
      <4>1. CASE home = Direct(t)
        <5>1. call[c].box = Direct(t) => call[c].by = t BY DEF NInv, CallsPlaced, RowPlaced
        <5> QED BY <3>4, <4>1, <5>1
      <4>2. CASE home # Direct(t)
        <5>1. <<home, k>> \in Notices(all, t, m) BY <2>3, <4>2 DEF Notices, home
        <5>2. <<home, k>>[1] # call[c].box BY <1>6, <5>1, WakeSpares
        <5> QED BY <3>4, <5>2
      <4> QED BY <4>1, <4>2
    <3> QED BY <3>4, <3>5, <3>6 DEF WellMoved
  <2> QED BY <1>6, <2>2, <2>3, WakeMovesNobody
<1> QED BY <1>3, <1>5, <1>6

LEMMA MailMissesNobody ==
    ASSUME NInv, Mail
    PROVE  (\A m \in MessageIds : WellMoved(m)) /\ (\A c \in Calls : WellWaiting(c))
<1>1. ASSUME NEW m \in MessageIds, NEW r \in Runs, NEW b \in Boxes, Send(m, r, b)
      PROVE  (\A k \in MessageIds : WellMoved(k)) /\ (\A c \in Calls : WellWaiting(c))
  <2>1. MessagesOK(message) /\ Post(message, m, r, b) /\ b \in Recipients(r)
    BY <1>1 DEF Send, NInv, MInv
  <2>2. \A k \in Claims : b = ClaimBox(k) => life[k] # "unused" /\ ClaimRun(k) = r
    BY <2>1, BoxKinds DEF Recipients
  <2> QED BY <2>1, <2>2, PostMissesNobody
<1>2. ASSUME NEW m \in MessageIds, NEW original \in MessageIds, NEW t \in Terminals, Reply(m, original, t)
      PROVE  (\A k \in MessageIds : WellMoved(k)) /\ (\A c \in Calls : WellWaiting(c))
  <2> DEFINE msgs == Read(message, {original})
  <2>1. MessagesOK(msgs) BY <1>2, ReadKeeps DEF NInv, MInv, Reply
  <2>2. message[original].run \in Runs BY <1>2 DEF NInv, MInv, MessagesOK, MessageRows, Reply
  <2>3. Direct(t) \in Boxes /\ Post(msgs, m, message[original].run, Direct(t))
    BY <1>2, BoxTypes DEF Reply
  <2>4. \A k \in Claims : Direct(t) # ClaimBox(k) BY BoxKinds
  <2> QED BY <2>1, <2>2, <2>3, <2>4, PostMissesNobody
<1> QED BY <1>1, <1>2 DEF Mail

\* Messages put in the mailboxes of their runs.
LEMMA InOwnRunBoxPlaces ==
    ASSUME NInv, NEW S, message' = InOwnRunBox(S), NEW m \in MessageIds,
           m \in S => \A c \in Calls :
               /\ call'[c] = call[c] /\ call[c].pc = "waiting"
               /\ call[c].box # Direct(call[c].by) /\ (call[c].filtered => m \in Waking)
               => call[c].box # RunBox(message[m].run)
    PROVE  WellMoved(m)
<1>1. message[m] \in MessageRows BY DEF NInv, MInv, MessagesOK
<1>2. CASE m \notin S
  <2>1. message'[m] = message[m] BY <1>2 DEF InOwnRunBox
  <2> QED BY <2>1 DEF WellMoved, Unmoved
<1>3. CASE m \in S
  <2>1. message'[m] = [message[m] EXCEPT !.box = RunBox(message[m].run), !.quiet = FALSE]
    BY <1>3 DEF InOwnRunBox
  <2>2. message'[m].box = RunBox(message[m].run) BY <1>1, <2>1 DEF MessageRows
  <2>3. Announced(m) BY <1>3, <2>2 DEF Announced
  <2> QED BY <2>2, <2>3, BoxKinds DEF WellMoved
<1> QED BY <1>2, <1>3

LEMMA HandMissesNobody ==
    ASSUME NInv, NEW r \in Runs, NEW t \in Terminals, Hand(r, t)
    PROVE  (\A m \in MessageIds : WellMoved(m)) /\ (\A c \in Calls : WellWaiting(c))
<1> DEFINE left == OtherRuns(r, t)
           coordinators == {t, run[r].terminal} \ {NoTerminal}
           directMail ==
               (UNION {Unread(message, Direct(t)) \cap OfRun(message, MessageIds, q) : q \in left})
               \cup (UNION {Unread(message, Direct(u)) \cap OfRun(message, MessageIds, r) : u \in coordinators})
           moved == {m \in directMail : ~ \E u \in Terminals :
                                message[m].box = Direct(u) /\ Assigned(message[m].run, u)}
           cancelled == {Direct(t), RunBox(r)} \cup {RunBox(q) : q \in left}
<1>1. message' = InOwnRunBox(moved) /\ call' = Cancel(cancelled) BY DEF Hand
<1>2. \A m \in moved : RunBox(message[m].run) \in cancelled
  <2>1. \A m \in directMail : \E q \in left \cup {r} : m \in OfRun(message, MessageIds, q) OBVIOUS
  <2>2. \A m \in directMail : message[m].run \in left \cup {r} BY <2>1 DEF OfRun
  <2> QED BY <2>2
<1> HIDE DEF moved, cancelled
<1>3. ASSUME NEW c \in Calls PROVE /\ WellWaiting(c)
                                   /\ call'[c] = call[c] /\ call[c].pc = "waiting" => call[c].box \notin cancelled
  <2>1. call'[c] = IF call[c].pc = "waiting" /\ call[c].box \in cancelled
                   THEN [call[c] EXCEPT !.pc = "cancelled"] ELSE call[c]
    BY <1>1 DEF Cancel
  <2>2. call[c] \in CallRows BY DEF NInv, MInv, TypeOK
  <2>3. [call[c] EXCEPT !.pc = "cancelled"].pc = "cancelled" BY <2>2 DEF CallRows
  <2>4. WellWaiting(c) BY <2>1, PcChangesNoPlace DEF WellWaiting
  <2> QED BY <2>1, <2>3, <2>4
<1>4. ASSUME NEW m \in MessageIds PROVE WellMoved(m)
  BY <1>1, <1>2, <1>3, InOwnRunBoxPlaces
<1> QED BY <1>3, <1>4

LEMMA RouteMissesNobody ==
    ASSUME NInv, NEW c \in Calls, NEW row \in CallRows, RowPlaced(row), Route(c, row)
    PROVE  (\A m \in MessageIds : WellMoved(m)) /\ (\A e \in Calls : WellWaiting(e))
<1>1. ASSUME NEW m \in MessageIds PROVE WellMoved(m)
  <2> DEFINE page == Oldest(RoutablePart(message, row))
  <2>1. message'[m] = IF m \in page THEN [message[m] EXCEPT !.box = row.box, !.quiet = TRUE] ELSE message[m]
    BY DEF Route
  <2>2. CASE m \notin page BY <2>1, <2>2 DEF WellMoved, Unmoved
  <2>3. CASE m \in page
    <3>1. message[m].run = row.run BY <2>3 DEF Oldest, RoutablePart, OfRun
    <3>2. message[m] \in MessageRows BY DEF NInv, MInv, MessagesOK
    <3>3. message'[m] = [message[m] EXCEPT !.box = row.box, !.quiet = TRUE] BY <2>1, <2>3
    <3>4. /\ message'[m].box = row.box /\ message'[m].run = message[m].run
          /\ message'[m].quiet = TRUE
      BY <3>2, <3>3 DEF MessageRows
    <3> QED BY <3>1, <3>4 DEF WellMoved, RowPlaced
  <2> QED BY <2>2, <2>3
<1>2. ASSUME NEW e \in Calls PROVE WellWaiting(e)
  <2>1. call \in [Calls -> CallRows] BY DEF NInv, MInv, TypeOK
  <2>2. e # c => call'[e] = call[e] BY <2>1 DEF Route
  <2>3. /\ call'[c].box = row.box /\ call'[c].by = row.by /\ call'[c].run = row.run
        /\ call'[c].pc # "waiting"
    <3> DEFINE done == [row EXCEPT !.pc = "routed", !.through = 0]
               more == [row EXCEPT !.pc = "routing"]
    <3>1. call'[c] = done \/ call'[c] = more BY <2>1 DEF Route
    <3>2. \A next \in {done, more} : /\ next.box = row.box /\ next.by = row.by /\ next.run = row.run
                                     /\ next.pc # "waiting"
      BY DEF CallRows
    <3> HIDE DEF done, more
    <3> QED BY <3>1, <3>2
  <2>4. RowPlaced(call'[c]) BY <2>3 DEF RowPlaced
  <2> QED BY <2>2, <2>3, <2>4 DEF WellWaiting
<1> QED BY <1>1, <1>2

LEMMA BeginMissesNobody ==
    ASSUME NInv, NEW c \in Calls, NEW t \in Terminals, NEW mode \in Modes, NEW ack \in {0} \cup DeliveryIds,
           NEW b \in Boxes, NEW r \in Runs \cup {NoRun}, b = RunBox(r) => r \in Runs,
           \A k \in Claims : b = ClaimBox(k) => life[k] # "unused" /\ r = ClaimRun(k),
           \A u \in Terminals : b # Direct(u), Begin(c, t, mode, ack, b, r)
    PROVE  (\A m \in MessageIds : WellMoved(m)) /\ (\A e \in Calls : WellWaiting(e))
<1> DEFINE g == IF b = RunBox(r) THEN run[r].generation ELSE 0
           row(last) == [Idle EXCEPT !.by = t, !.box = b, !.run = r, !.generation = g, !.ack = ack,
                            !.through = last,
                            !.wait = mode.wait, !.filtered = mode.filtered, !.peek = mode.peek]
<1>1. PICK last \in {0} \cup MessageIds : Route(c, row(last)) BY DEF Begin
<1>2. g \in 0..MaxGeneration BY RunsAre, RunMailboxAssumption DEF NInv, MInv
<1>3. mode.wait \in BOOLEAN /\ mode.filtered \in BOOLEAN /\ mode.peek \in BOOLEAN
  BY RunMailboxAssumption
<1> HIDE DEF g
<1>4. row(last) \in CallRows /\ row(last).box = b /\ row(last).run = r
  BY <1>2, <1>3 DEF CallRows, Idle
<1> HIDE DEF row
<1>5. RowPlaced(row(last)) BY <1>4 DEF RowPlaced
<1> QED BY <1>1, <1>4, <1>5, RouteMissesNobody

\* The check is over, and all it did to mail is to read some.
LEMMA EndMissesNobody ==
    ASSUME NInv, NEW c \in Calls, call' = [call EXCEPT ![c] = Idle],
           NEW S, message' = message \/ message' = Read(message, S)
    PROVE  (\A m \in MessageIds : WellMoved(m)) /\ (\A e \in Calls : WellWaiting(e))
<1>1. \A m \in MessageIds : WellMoved(m) BY ReadMovesNothing DEF NInv, WellMoved
<1>2. ASSUME NEW e \in Calls PROVE WellWaiting(e)
  <2>1. call \in [Calls -> CallRows] BY DEF NInv, MInv, TypeOK
  <2>2. e # c => call'[e] = call[e] BY <2>1
  <2>3. call'[c] = Idle BY <2>1
  <2> QED BY <2>2, <2>3, IdleWaitsForNothing DEF WellWaiting
<1> QED BY <1>1, <1>2

\* A check goes on, to wait for what is not there.
LEMMA WaitMissesNobody ==
    ASSUME NInv, NEW c \in Calls, NEW row \in CallRows, call' = [call EXCEPT ![c] = row],
           row.box = call[c].box, row.run = call[c].run, row.by = call[c].by,
           row.filtered = call[c].filtered,
           NEW S, message' = message \/ message' = Read(message, S),
           Visible(c, message', call[c].box) = {}
    PROVE  (\A m \in MessageIds : WellMoved(m)) /\ (\A e \in Calls : WellWaiting(e))
<1>1. \A m \in MessageIds : WellMoved(m) BY ReadMovesNothing DEF NInv, WellMoved
<1>2. ASSUME NEW e \in Calls PROVE WellWaiting(e)
  <2>1. call \in [Calls -> CallRows] BY DEF NInv, MInv, TypeOK
  <2>2. e # c => call'[e] = call[e] BY <2>1
  <2>3. call'[c] = row BY <2>1
  <2>4. RowPlaced(row) BY DEF NInv, CallsPlaced, RowPlaced
  <2>5. \A m \in MessageIds : message'[m].box = row.box /\ ~message'[m].read =>
            row.filtered /\ m \notin Waking
    BY DEF Visible, Unread
  <2> QED BY <2>2, <2>3, <2>4, <2>5 DEF WellWaiting
<1> QED BY <1>1, <1>2

LEMMA RunChecksMissNobody ==
    ASSUME NInv, NEW c \in Calls, ResumeRunCheck(c) \/ FinishRunCheck(c)
    PROVE  (\A m \in MessageIds : WellMoved(m)) /\ (\A e \in Calls : WellWaiting(e))
<1>1. \E S : AckedMessages(c) = message \/ AckedMessages(c) = Read(message, S)
  BY DEF AckedMessages
<1>2. CASE FinishRunCheck(c) \/ RefuseRunCheck(c)
  <2>1. message' = message /\ call' = [call EXCEPT ![c] = Idle]
    BY <1>2 DEF FinishRunCheck, RefuseRunCheck, GetOrCreateRunDelivery, Answer, End
  <2> QED BY <2>1, EndMissesNobody
<1>3. CASE AckAndRead(c)
  <2> DEFINE msgs == AckedMessages(c)
             dels == AckedDeliveries(c)
             shows == call[c].peek /\ Visible(c, msgs, call[c].box) # {}
  <2>1. message' = msgs BY <1>3 DEF AckAndRead, GetOrCreateRunDelivery
  <2>2. \/ call' = [call EXCEPT ![c] = Idle]
        \/ /\ ~(~call[c].peek /\ ~NothingToDeliver(c, msgs, dels, call[c].wait))
           /\ call[c].wait /\ ~shows
           /\ call' = [call EXCEPT ![c].pc = "waiting", ![c].ack = 0]
    BY <1>3 DEF AckAndRead, GetOrCreateRunDelivery, Answer, End, WaitInRunBox
  <2>3. CASE call' = [call EXCEPT ![c] = Idle] BY <1>1, <2>1, <2>3, EndMissesNobody
  <2>4. CASE call' # [call EXCEPT ![c] = Idle]
    <3>1. Visible(c, msgs, call[c].box) = {}
      <4>1. CASE call[c].peek BY <2>2, <2>4, <4>1
      <4>2. CASE ~call[c].peek
        <5>1. NothingToDeliver(c, msgs, dels, TRUE) BY <2>2, <2>4, <4>2 DEF NInv, MInv, TypeOK, CallRows
        <5> QED BY <5>1 DEF NothingToDeliver
      <4> QED BY <4>1, <4>2
    <3> DEFINE row == [call[c] EXCEPT !.pc = "waiting", !.ack = 0]
    <3>2. call[c] \in CallRows /\ call \in [Calls -> CallRows] BY DEF NInv, MInv, TypeOK
    <3>3. call' = [call EXCEPT ![c] = row] BY <2>2, <2>4, <3>2
    <3>4. /\ row \in CallRows /\ row.box = call[c].box /\ row.run = call[c].run
          /\ row.by = call[c].by /\ row.filtered = call[c].filtered
      BY <3>2 DEF CallRows
    <3> HIDE DEF row, msgs, dels, shows
    <3>5. PICK S : msgs = message \/ msgs = Read(message, S) BY <1>1 DEF msgs
    <3> QED BY <2>1, <3>1, <3>3, <3>4, <3>5, WaitMissesNobody
  <2> QED BY <2>3, <2>4
<1> QED BY <1>2, <1>3 DEF ResumeRunCheck

\* The stranded mail of a dispatch is announced in the mailbox of its run.
LEMMA RefuseMissesNobody ==
    ASSUME NInv, NEW c \in Calls, NEW k \in Claims, MailboxOf(c, k), RefuseDispatchCheck(c)
    PROVE  (\A m \in MessageIds : WellMoved(m)) /\ (\A e \in Calls : WellWaiting(e))
<1> DEFINE stranded == IF \E j \in Claims : MailboxOf(c, j) /\ life[j] = "over"
                       THEN Unread(message, call[c].box) ELSE {}
           notices == {<<RunBox(call[c].run), m>> : m \in stranded}
<1>1. message' = InOwnRunBox(stranded) /\ call' = [Wake(notices) EXCEPT ![c] = Idle]
  BY DEF RefuseDispatchCheck
<1>2. \A m \in stranded : m \in MessageIds /\ message[m].box = ClaimBox(k) BY DEF Unread, MailboxOf
<1>3. \A m \in stranded : message[m].run = call[c].run
  BY <1>2 DEF MailboxOf, NInv, MailPlaced, CallsPlaced, RowPlaced
<1>4. Wake(notices) = [e \in Calls |-> Wake(notices)[e]] BY DEF Wake
<1>5. call'[c] = Idle /\ \A e \in Calls : e # c => call'[e] = Wake(notices)[e] BY <1>1, <1>4
<1>6. \A m \in stranded : <<RunBox(call[c].run), m>> \in notices OBVIOUS
<1> HIDE DEF stranded, notices
<1>7. ASSUME NEW e \in Calls PROVE WellWaiting(e)
  BY <1>5, IdleWaitsForNothing, WakeMovesNobody
<1>8. ASSUME NEW m \in MessageIds PROVE WellMoved(m)
  <2>1. ASSUME m \in stranded, NEW e \in Calls, call'[e] = call[e], call[e].pc = "waiting",
               call[e].filtered => m \in Waking
        PROVE  call[e].box # RunBox(message[m].run)
    <3>1. e # c
      <4>1. Idle.pc # "waiting" BY IdleType
      <4> QED BY <1>5, <2>1, <4>1
    <3>2. Wake(notices)[e] = call[e] BY <1>5, <2>1, <3>1
    <3>3. <<RunBox(call[c].run), m>> \in notices BY <1>6, <2>1
    <3>4. call[e].filtered => <<RunBox(call[c].run), m>>[2] \in Waking BY <2>1
    <3>5. <<RunBox(call[c].run), m>>[1] # call[e].box BY <2>1, <3>2, <3>3, <3>4, WakeSpares
    <3> QED BY <1>3, <2>1, <3>5
  <2> QED BY <1>1, <2>1, InOwnRunBoxPlaces
<1> QED BY <1>7, <1>8

LEMMA DispatchChecksMissNobody ==
    ASSUME NInv, NEW c \in Calls, ResumeDispatchCheck(c) \/ FinishDispatchCheck(c)
    PROVE  (\A m \in MessageIds : WellMoved(m)) /\ (\A e \in Calls : WellWaiting(e))
<1>1. PICK k \in Claims : MailboxOf(c, k) BY DEF ResumeDispatchCheck, FinishDispatchCheck
<1>2. CASE RefuseDispatchCheck(c) BY <1>1, <1>2, RefuseMissesNobody
<1>3. CASE ~RefuseDispatchCheck(c)
  <2> DEFINE mail == Visible(c, message, call[c].box)
  <2>1. message' = message \/ message' = Read(message, mail)
    BY <1>3 DEF ResumeDispatchCheck, FinishDispatchCheck
  <2>2. \/ call' = [call EXCEPT ![c] = Idle]
        \/ mail = {} /\ call' = [call EXCEPT ![c] = [@ EXCEPT !.pc = "waiting"]]
    <3>1. CASE FinishDispatchCheck(c) BY <1>3, <3>1 DEF FinishDispatchCheck
    <3>2. CASE ResumeDispatchCheck(c)
      <4>1. call' = [call EXCEPT ![c] = IF mail = {} /\ @.wait THEN [@ EXCEPT !.pc = "waiting"] ELSE Idle]
        BY <1>3, <3>2 DEF ResumeDispatchCheck
      <4> HIDE DEF mail
      <4>2. CASE mail = {} /\ call[c].wait BY <4>1, <4>2
      <4>3. CASE ~(mail = {} /\ call[c].wait) BY <4>1, <4>3
      <4> QED BY <4>2, <4>3
    <3> QED BY <3>1, <3>2
  <2>3. CASE call' = [call EXCEPT ![c] = Idle] BY <2>1, <2>3, EndMissesNobody
  <2>4. CASE mail = {} /\ call' = [call EXCEPT ![c] = [@ EXCEPT !.pc = "waiting"]]
    <3> DEFINE row == [call[c] EXCEPT !.pc = "waiting"]
    <3>1. call[c] \in CallRows BY DEF NInv, MInv, TypeOK
    <3>2. /\ row \in CallRows /\ row.box = call[c].box /\ row.run = call[c].run
          /\ row.by = call[c].by /\ row.filtered = call[c].filtered
      BY <3>1 DEF CallRows
    <3>3. call' = [call EXCEPT ![c] = row] BY <2>4
    <3>4. \A m \in MessageIds : Unmoved(m) BY <2>1, ReadMovesNothing DEF NInv
    <3>5. Visible(c, message', call[c].box) = {}
      BY <2>4, <3>4 DEF Visible, Unread, Unmoved
    <3> HIDE DEF row, mail
    <3> QED BY <2>1, <3>2, <3>3, <3>5, WaitMissesNobody
  <2> QED BY <2>2, <2>3, <2>4
<1> QED BY <1>2, <1>3

LEMMA DirectChecksMissNobody ==
    ASSUME NInv, NEW c \in Calls,
           FinishDirectCheck(c) \/ \E t \in Terminals, mode \in Modes : CheckDirect(c, t, mode)
    PROVE  (\A m \in MessageIds : WellMoved(m)) /\ (\A e \in Calls : WellWaiting(e))
<1>1. ASSUME NEW row PROVE \E S : ReadDirect(row) = message \/ ReadDirect(row) = Read(message, S)
  BY DEF ReadDirect
<1>2. CASE FinishDirectCheck(c)
  <2>1. /\ message' = message \/ message' = ReadDirect(call[c])
        /\ call' = [call EXCEPT ![c] = Idle]
    BY <1>2 DEF FinishDirectCheck
  <2> QED BY <1>1, <2>1, EndMissesNobody
<1>3. ASSUME NEW t \in Terminals, NEW mode \in Modes, CheckDirect(c, t, mode)
      PROVE  (\A m \in MessageIds : WellMoved(m)) /\ (\A e \in Calls : WellWaiting(e))
  <2> DEFINE row == [Idle EXCEPT !.pc = "waiting", !.by = t, !.box = Direct(t), !.wait = mode.wait,
                               !.filtered = mode.filtered, !.peek = mode.peek]
  <2>1. /\ message' = ReadDirect(row)
        /\ call' = [call EXCEPT ![c] = Idle] \/ call' = [call EXCEPT ![c] = row]
    BY <1>3 DEF CheckDirect
  <2>2. row.box = Direct(t) /\ row.by = t BY IdleType DEF CallRows
  <2> HIDE DEF row
  <2>3. PICK S : message' = message \/ message' = Read(message, S) BY <1>1, <2>1
  <2>4. CASE call' = [call EXCEPT ![c] = Idle] BY <2>3, <2>4, EndMissesNobody
  <2>5. CASE call' = [call EXCEPT ![c] = row]
    <3>1. \A m \in MessageIds : WellMoved(m) BY <2>3, ReadMovesNothing DEF NInv, WellMoved
    <3>2. call \in [Calls -> CallRows] BY DEF NInv, MInv, TypeOK
    <3>3. call'[c] = row /\ \A e \in Calls : e # c => call'[e] = call[e] BY <2>5, <3>2
    <3>4. RowPlaced(row) BY <2>2, BoxKinds DEF RowPlaced
    <3> QED BY <2>2, <3>1, <3>3, <3>4 DEF WellWaiting
  <2> QED BY <2>1, <2>4, <2>5
<1> QED BY <1>2, <1>3

LEMMA ChecksMissNobody ==
    ASSUME NInv, Checks
    PROVE  (\A m \in MessageIds : WellMoved(m)) /\ (\A e \in Calls : WellWaiting(e))
<1> DEFINE Fine == (\A m \in MessageIds : WellMoved(m)) /\ (\A e \in Calls : WellWaiting(e))
<1>1. PICK c \in Calls :
          \/ \E t \in Terminals, mode \in Modes :
              \/ \E r \in Runs, ack \in {0} \cup DeliveryIds : CheckRun(c, t, r, mode, ack)
              \/ \E k \in Claims : CheckDispatch(c, t, k, mode)
              \/ CheckDirect(c, t, mode)
          \/ Proceed(c) \/ Expire(c) \/ Abort(c)
  BY DEF Checks
<1>2. call[c] \in CallRows /\ call \in [Calls -> CallRows] BY DEF NInv, MInv, TypeOK
<1>3. ASSUME NEW t \in Terminals, NEW mode \in Modes, NEW r \in Runs, NEW ack \in {0} \cup DeliveryIds,
             CheckRun(c, t, r, mode, ack)
      PROVE  Fine
  <2>1. Begin(c, t, mode, ack, RunBox(r), r) BY <1>3 DEF CheckRun
  <2>2. /\ RunBox(r) \in Boxes /\ r \in Runs \cup {NoRun}
        /\ \A k \in Claims : RunBox(r) # ClaimBox(k)
        /\ \A u \in Terminals : RunBox(r) # Direct(u)
    BY BoxKinds, BoxTypes
  <2> QED BY <2>1, <2>2, BeginMissesNobody
<1>4. ASSUME NEW t \in Terminals, NEW mode \in Modes, NEW k \in Claims, CheckDispatch(c, t, k, mode)
      PROVE  Fine
  <2>1. Begin(c, t, mode, 0, ClaimBox(k), ClaimRun(k)) /\ life[k] = "held"
    BY <1>4 DEF CheckDispatch, HeldAt
  <2>2. ClaimRun(k) \in Runs \cup {NoRun} BY RunMailboxAssumption DEF ClaimRun, NInv, MInv, TypeOK
  <2>3. /\ ClaimBox(k) \in Boxes /\ ClaimBox(k) # RunBox(ClaimRun(k))
        /\ \A u \in Terminals : ClaimBox(k) # Direct(u)
        /\ \A j \in Claims : ClaimBox(k) = ClaimBox(j) => j = k
    BY BoxKinds, BoxTypes
  <2> QED BY <2>1, <2>2, <2>3, BeginMissesNobody
<1>5. CASE (\E t \in Terminals, mode \in Modes : CheckDirect(c, t, mode)) \/ FinishDirectCheck(c)
  BY <1>5, DirectChecksMissNobody
<1>6. CASE RoutePage(c)
  <2>1. Route(c, call[c]) /\ RowPlaced(call[c]) BY <1>6 DEF RoutePage, NInv, CallsPlaced
  <2> QED BY <1>2, <2>1, RouteMissesNobody
<1>7. CASE ResumeRunCheck(c) \/ FinishRunCheck(c) BY <1>7, RunChecksMissNobody
<1>8. CASE ResumeDispatchCheck(c) \/ FinishDispatchCheck(c) BY <1>8, DispatchChecksMissNobody
<1>9. ASSUME NEW pc \in {"expired", "cancelled"}, call' = [call EXCEPT ![c].pc = pc], message' = message
      PROVE  Fine
  <2>1. call'[c] = [call[c] EXCEPT !.pc = pc] /\ \A e \in Calls : e # c => call'[e] = call[e]
    BY <1>2, <1>9
  <2>2. \A m \in MessageIds : WellMoved(m) BY <1>9 DEF WellMoved, Unmoved
  <2> QED BY <2>1, <2>2, PcChangesNoPlace DEF WellWaiting
<1>10. CASE Expire(c) BY <1>9, <1>10 DEF Expire
<1>11. CASE Abort(c)
  <2>1. message' = message BY <1>11 DEF Abort
  <2>2. CASE call' = [call EXCEPT ![c] = Idle] BY <2>1, <2>2, EndMissesNobody
  <2> QED BY <1>9, <1>11, <2>1, <2>2 DEF Abort
<1> QED BY <1>1, <1>3, <1>4, <1>5, <1>6, <1>7, <1>8, <1>10, <1>11 DEF Proceed

\* A check changes neither runs nor claims.
LEMMA ChecksLeaveRuns == Checks => UNCHANGED <<run, known>> /\ UNCHANGED claimVars
<1> SUFFICES ASSUME Checks PROVE UNCHANGED <<run, known>> /\ UNCHANGED claimVars OBVIOUS
<1> DEFINE Left == UNCHANGED <<run, known>> /\ UNCHANGED claimVars
<1>1. ASSUME NEW c \in Calls, Proceed(c) PROVE Left
  <2>1. RoutePage(c) => Left BY DEF RoutePage
  <2>2. ResumeRunCheck(c) => Left BY DEF ResumeRunCheck
  <2>3. FinishRunCheck(c) => Left BY DEF FinishRunCheck
  <2>4. ResumeDispatchCheck(c) => Left BY DEF ResumeDispatchCheck
  <2>5. FinishDispatchCheck(c) => Left BY DEF FinishDispatchCheck
  <2>6. FinishDirectCheck(c) => Left BY DEF FinishDirectCheck
  <2> HIDE DEF Left
  <2> QED BY <1>1, <2>1, <2>2, <2>3, <2>4, <2>5, <2>6 DEF Proceed
<1>2. ASSUME NEW c, NEW t, NEW mode, NEW ack, NEW b, NEW r, Begin(c, t, mode, ack, b, r) PROVE Left
  BY <1>2 DEF Begin
<1>3. ASSUME NEW c, NEW t, NEW mode, CheckDirect(c, t, mode) PROVE Left BY <1>3 DEF CheckDirect
<1>4. ASSUME NEW c, Expire(c) \/ Abort(c) PROVE Left BY <1>4 DEF Expire, Abort
<1> HIDE DEF Left
<1>5. Left
  <2>1. PICK c \in Calls :
            \/ \E t \in Terminals, mode \in Modes :
                \/ \E r \in Runs, ack \in {0} \cup DeliveryIds : CheckRun(c, t, r, mode, ack)
                \/ \E k \in Claims : CheckDispatch(c, t, k, mode)
                \/ CheckDirect(c, t, mode)
            \/ Proceed(c) \/ Expire(c) \/ Abort(c)
    BY DEF Checks
  <2> QED BY <1>1, <1>2, <1>3, <1>4, <2>1 DEF CheckRun, CheckDispatch
<1> QED BY <1>5 DEF Left

LEMMA StepsMissNobody == NInv /\ [Next]_vars => NInv'
<1> SUFFICES ASSUME NInv, [Next]_vars PROVE NInv' OBVIOUS
<1>1. MInv' BY StepsKeep DEF NInv
<1>2. ASSUME UNCHANGED <<life, owner>>,
             (\A m \in MessageIds : WellMoved(m)) /\ (\A c \in Calls : WellWaiting(c))
      PROVE  NInv'
  BY <1>1, <1>2, NothingMissed
<1>3. UNCHANGED message => \A m \in MessageIds : WellMoved(m) BY DEF WellMoved, Unmoved
<1>4. UNCHANGED call => \A c \in Calls : WellWaiting(c) BY DEF WellWaiting
<1>5. CASE Mail
  <2>1. UNCHANGED <<life, owner>> BY <1>5 DEF Mail, Send, Reply, claimVars
  <2> QED BY <1>2, <1>5, <2>1, MailMissesNobody
<1>6. CASE Bindings
  <2>1. PICK r \in Runs, t \in Terminals : Hand(r, t) BY <1>6 DEF Bindings, CreateRun, BindRun
  <2>2. UNCHANGED <<life, owner>> BY <2>1 DEF Hand, claimVars
  <2> QED BY <1>2, <2>1, <2>2, HandMissesNobody
<1>7. CASE Dispatches
  <2>1. ASSUME NEW k \in Claims, NEW task \in Tasks, NEW t \in Terminals \cup {NoTerminal}, TakeClaim(k, task, t)
        PROVE  NInv'
    <3>1. /\ life[k] = "unused" /\ life' = [life EXCEPT ![k] = "held"]
          /\ owner' = [owner EXCEPT ![k] = task] /\ UNCHANGED <<message, call>>
      BY <2>1 DEF TakeClaim, Claim!Take
    <3>2. \A j \in Claims : life[j] # "unused" => life'[j] # "unused" /\ owner'[j] = owner[j]
      BY <3>1 DEF NInv, MInv, TypeOK
    <3> QED BY <1>1, <1>3, <1>4, <3>1, <3>2, NothingMissed
  <2>2. ASSUME NEW k \in Claims, NEW t \in Terminals, AttachClaim(k, t) PROVE NInv'
    <3>1. UNCHANGED <<life, owner, message, call>> BY <2>2 DEF AttachClaim, Claim!Attach
    <3> QED BY <1>2, <1>3, <1>4, <3>1
  <2>3. ASSUME NEW k \in Claims, NEW notified \in BOOLEAN, EndClaim(k, notified) PROVE NInv'
    <3>1. life' = [life EXCEPT ![k] = "over"] /\ UNCHANGED <<owner, message>>
      BY <2>3 DEF EndClaim, Claim!Release
    <3>2. \A j \in Claims : life[j] # "unused" => life'[j] # "unused" /\ owner'[j] = owner[j]
      BY <3>1 DEF NInv, MInv, TypeOK
    <3>3. \A c \in Calls : WellWaiting(c) BY <1>4, <2>3, WakeMovesNobody DEF EndClaim
    <3> QED BY <1>1, <1>3, <3>1, <3>2, <3>3, NothingMissed
  <2>4. PICK k \in Claims :
            \/ \E task \in Tasks, t \in Terminals \cup {NoTerminal} : TakeClaim(k, task, t)
            \/ \E t \in Terminals : AttachClaim(k, t)
            \/ \E notified \in BOOLEAN : EndClaim(k, notified)
    BY <1>7 DEF Dispatches
  <2> QED BY <2>1, <2>2, <2>3, <2>4
<1>8. CASE Checks
  <2>1. UNCHANGED claimVars BY <1>8, ChecksLeaveRuns
  <2>2. UNCHANGED <<life, owner>> BY <2>1 DEF claimVars
  <2> QED BY <1>2, <1>8, <2>2, ChecksMissNobody
<1>9. CASE Restart
  <2>1. UNCHANGED <<life, owner>> BY <1>9 DEF Restart, claimVars
  <2>2. \A c \in Calls : WellWaiting(c) BY <1>9, IdleWaitsForNothing DEF Restart
  <2>3. \E S : message' = message \/ message' = Read(message, S) BY <1>9 DEF Restart, AckedMessages
  <2>4. \A m \in MessageIds : WellMoved(m) BY <2>3, ReadMovesNothing DEF NInv, WellMoved
  <2> QED BY <1>2, <2>1, <2>2, <2>4
<1>10. CASE UNCHANGED vars BY <1>2, <1>3, <1>4, <1>10 DEF vars, claimVars
<1> QED BY <1>5, <1>6, <1>7, <1>8, <1>9, <1>10 DEF Next

\* Nobody waits for mail that is there, however mail is routed, runs are taken over
\* and dispatches end while checks await (mailbox-notification-coordinator.ts,
\* runtime-message-waiters.ts).
THEOREM NobodyMissesMail == Spec => []NoMissedMail
<1>1. Init => NInv
  <2> SUFFICES ASSUME Init PROVE NInv OBVIOUS
  <2>1. MInv BY InitEstablishes
  <2>2. MailPlaced BY BoxKinds DEF Init, MailPlaced, NoMessage
  <2>3. \A c \in Calls : call[c].box = NoBox /\ call[c].pc = "idle" BY DEF Init, Idle
  <2>4. CallsPlaced /\ NoMissedMail BY <2>3, BoxKinds DEF CallsPlaced, RowPlaced, NoMissedMail
  <2> QED BY <2>1, <2>2, <2>4 DEF NInv
<1>2. NInv => NoMissedMail BY DEF NInv
<1> QED BY <1>1, <1>2, StepsMissNobody, PTL DEF Spec

-----------------------------------------------------------------------------
(* Each run's mailbox is an at-least-once mailbox.                            *)

Consumed(r) == {m \in InBox(r) : message[m].read}
Handed(r) == UNION {delivery[d].batch : d \in Outstanding(delivery, r)}

\* What is handed out and not acknowledged is in the mailbox of its run.
BatchesInBox ==
    \A d \in DeliveryIds :
        delivery[d].status = "outstanding" =>
            \A m \in delivery[d].batch : message[m].box = RunBox(delivery[d].run)

\* Mail does not leave a run's mailbox, arrives unread and stays read.
Arriving(m) ==
    /\ \A r : message[m].box = RunBox(r) => message'[m].box = RunBox(r)
    /\ \A r : message'[m].box = RunBox(r) => message[m].box = RunBox(r) \/ ~message'[m].read
    /\ message[m].read => message'[m].read

MailboxStep(r) == [Mailbox(r)!Next]_(Mailbox(r)!vars)

LEMMA OldestIsOldest ==
    ASSUME NEW r, NEW S \in SUBSET MessageIds
    PROVE  Mailbox(r)!OldestOf(Oldest(S), S)
<1> SUFFICES ASSUME NEW b \in Oldest(S), NEW s \in S, s < b PROVE s \in Oldest(S)
  BY DEF Mailbox!OldestOf, Oldest
<1> DEFINE before(m) == {k \in S : k < m}
<1>1. MaxMessages \in Nat /\ Batch \in Nat BY RunMailboxAssumption
<1>2. IsFiniteSet(MessageIds) BY <1>1, FS_Interval DEF MessageIds
<1>3. IsFiniteSet(before(b)) BY <1>2, FS_Subset
<1>4. b \in Nat /\ s \in Nat /\ S \subseteq Nat BY <1>1 DEF MessageIds, Oldest
<1>5. before(s) \subseteq before(b)
  <2>1. \A k \in S : k \in Nat /\ (k < s => k < b) BY <1>4
  <2> QED BY <2>1
<1>6. IsFiniteSet(before(s)) /\ Cardinality(before(s)) <= Cardinality(before(b)) BY <1>3, <1>5, FS_Subset
<1>7. Cardinality(before(b)) < Batch BY DEF Oldest
<1>8. Cardinality(before(s)) \in Nat /\ Cardinality(before(b)) \in Nat BY <1>3, <1>6, FS_CardinalityType
<1>9. Cardinality(before(s)) < Batch BY <1>1, <1>6, <1>7, <1>8
<1> QED BY <1>9 DEF Oldest

LEMMA ArrivalIsStep ==
    ASSUME NEW r \in Runs, NEW M \in SUBSET MessageIds, NEW answered \in SUBSET MessageIds,
           answered \subseteq InBox(r), InBox(r)' = InBox(r) \cup M,
           Consumed(r)' = Consumed(r) \cup answered,
           run'[r].generation = run[r].generation, Handed(r)' = Handed(r)
    PROVE  MailboxStep(r)
<1>1. Mailbox(r)!Arrive(M, answered) BY DEF Mailbox!Arrive, Consumed, Handed
<1> QED BY <1>1 DEF MailboxStep, Mailbox!Next

LEMMA TurnIsStep ==
    ASSUME NEW r \in Runs, NEW B \in SUBSET MessageIds, InBox(r)' = InBox(r),
           Consumed(r)' = Consumed(r) \cup Handed(r), Handed(r)' = B,
           Mailbox(r)!OldestOf(B, InBox(r) \ Consumed(r)'), run'[r].generation = run[r].generation
    PROVE  MailboxStep(r)
<1>1. Mailbox(r)!Turn(B) BY DEF Mailbox!Turn, Consumed, Handed
<1> QED BY <1>1 DEF MailboxStep, Mailbox!Next

LEMMA ReplaceIsStep ==
    ASSUME NEW r \in Runs, NEW M \in SUBSET MessageIds, InBox(r)' = InBox(r) \cup M,
           Consumed(r)' = Consumed(r), Handed(r)' = {}, run'[r].generation = run[r].generation + 1
    PROVE  MailboxStep(r)
<1>1. Mailbox(r)!Replace(M) BY DEF Mailbox!Replace, Consumed, Handed
<1> QED BY <1>1 DEF MailboxStep, Mailbox!Next

LEMMA SameIsStep ==
    ASSUME NEW r \in Runs, InBox(r)' = InBox(r), Consumed(r)' = Consumed(r), Handed(r)' = Handed(r),
           run'[r].generation = run[r].generation
    PROVE  MailboxStep(r)
BY DEF MailboxStep, Mailbox!vars, Consumed, Handed

LEMMA ArrivingIsArrival ==
    ASSUME NEW r \in Runs, \A m \in MessageIds : Arriving(m), Handed(r)' = Handed(r),
           run'[r].generation = run[r].generation
    PROVE  MailboxStep(r)
<1> DEFINE answered == {m \in InBox(r) : message'[m].read}
<1> DEFINE M == InBox(r)'
<1>1. M = InBox(r) \cup M BY DEF InBox, Arriving, RunBox
<1>2. Consumed(r)' = Consumed(r) \cup answered
  <2>1. \A m \in MessageIds : m \in Consumed(r)' <=> m \in Consumed(r) \cup answered
    BY DEF Consumed, InBox, Arriving, RunBox
  <2>2. Consumed(r)' \subseteq MessageIds /\ Consumed(r) \cup answered \subseteq MessageIds
    BY DEF Consumed, InBox, MessageIds
  <2> QED BY <2>1, <2>2
<1>3. M \in SUBSET MessageIds /\ answered \in SUBSET MessageIds /\ answered \subseteq InBox(r)
  BY DEF InBox, MessageIds
<1>4. InBox(r)' = M OBVIOUS
<1> HIDE DEF answered, M
<1> QED BY <1>1, <1>2, <1>3, <1>4, ArrivalIsStep

LEMMA HandedSame ==
    ASSUME delivery' = delivery
    PROVE  \A r : Handed(r)' = Handed(r)
BY DEF Handed, Outstanding, DeliveryIds

LEMMA ReadingArrives ==
    ASSUME MInv, NEW S, message' = message \/ message' = Read(message, S), NEW m \in MessageIds
    PROVE  Arriving(m)
BY ReadMovesNothing DEF Unmoved, Arriving

\* Moving unread mail from elsewhere to the mailboxes of its runs.
LEMMA MovingArrives ==
    ASSUME MInv, NEW S, \A m \in S : ~message[m].read /\ \A r : message[m].box # RunBox(r),
           message' = InOwnRunBox(S), NEW m \in MessageIds
    PROVE  Arriving(m)
<1>1. message[m] \in MessageRows BY DEF MInv, MessagesOK
<1>2. CASE m \notin S
  <2>1. message'[m] = message[m] BY <1>2 DEF InOwnRunBox
  <2> QED BY <2>1 DEF Arriving
<1>3. CASE m \in S
  <2>1. message'[m] = [message[m] EXCEPT !.box = RunBox(message[m].run), !.quiet = FALSE]
    BY <1>3 DEF InOwnRunBox
  <2>2. message'[m].read = message[m].read BY <1>1, <2>1 DEF MessageRows
  <2> QED BY <1>3, <2>2 DEF Arriving
<1> QED BY <1>2, <1>3

LEMMA PostArrives ==
    ASSUME MInv, NEW m \in MessageIds, message[m].run = NoRun, NEW original,
           NEW msgs, MessagesOK(msgs), msgs = message \/ msgs = Read(message, {original}),
           NEW r \in Runs, NEW b \in Boxes, Post(msgs, m, r, b), NEW k \in MessageIds
    PROVE  Arriving(k)
<1> DEFINE all == Insert(msgs, m, r, b)
<1>1. /\ all[m].read = FALSE
      /\ \A j \in MessageIds : j # m => all[j] = msgs[j]
  BY DEF Insert, MessagesOK
<1>2. message[m].box = NoBox /\ ~message[m].read BY DEF MInv, MessagesOK, NoMessage
<1>3. ASSUME k # m
      PROVE  /\ all[k].box = message[k].box /\ (message[k].read => all[k].read)
             /\ all[k] \in MessageRows
  <2>1. message[k] \in MessageRows BY DEF MInv, MessagesOK
  <2>2. all[k] = message[k] \/ all[k] = [message[k] EXCEPT !.read = TRUE] BY <1>1, <1>3 DEF Read
  <2>3. CASE all[k] = [message[k] EXCEPT !.read = TRUE] BY <2>1, <2>3 DEF MessageRows
  <2> QED BY <2>1, <2>2, <2>3
<1>4. all[m] \in MessageRows
  <2>1. all[m] = [run |-> r, box |-> Landing(b, r), read |-> FALSE, quiet |-> FALSE]
    BY DEF Insert, MessagesOK
  <2>2. Landing(b, r) \in Boxes BY BoxTypes DEF Landing
  <2> HIDE DEF all
  <2> QED BY <2>1, <2>2 DEF MessageRows
<1>5. message' = all \/ \E t \in Terminals : message' = Sorted(all, t) BY DEF Post
<1> HIDE DEF all
<1>6. CASE message' = all BY <1>1, <1>2, <1>3, <1>6, BoxKinds DEF Arriving
<1>7. ASSUME NEW t \in Terminals, message' = Sorted(all, t) PROVE Arriving(k)
  <2>1. CASE k \notin Unread(all, Direct(t))
    <3>1. message'[k] = all[k] BY <1>7, <2>1 DEF Sorted
    <3> QED BY <1>1, <1>2, <1>3, <3>1, BoxKinds DEF Arriving
  <2>2. CASE k \in Unread(all, Direct(t))
    <3>1. message'[k] = [all[k] EXCEPT !.box = Home(t, all[k].run)] BY <1>7, <2>2 DEF Sorted
    <3>2. all[k] \in MessageRows BY <1>3, <1>4
    <3>3. message'[k].read = all[k].read BY <3>1, <3>2 DEF MessageRows
    <3>4. all[k].box = Direct(t) /\ ~all[k].read BY <2>2 DEF Unread
    <3>5. k # m => \A q : message[k].box # RunBox(q) BY <1>3, <3>4, BoxKinds
    <3>6. k = m => \A q : message[k].box # RunBox(q) BY <1>2, BoxKinds
    <3>7. message[k].read => message'[k].read
      BY <1>3, <3>4, <1>2 DEF MInv, MessagesOK, NoMessage
    <3> QED BY <3>3, <3>4, <3>5, <3>6, <3>7 DEF Arriving
  <2> QED BY <2>1, <2>2
<1> QED BY <1>5, <1>6, <1>7

LEMMA RouteArrives ==
    ASSUME MInv, NEW c, NEW row, Route(c, row), NEW m \in MessageIds
    PROVE  Arriving(m)
<1> DEFINE page == Oldest(RoutablePart(message, row))
<1>1. message'[m] = IF m \in page THEN [message[m] EXCEPT !.box = row.box, !.quiet = TRUE] ELSE message[m]
  BY DEF Route
<1>2. message[m] \in MessageRows BY DEF MInv, MessagesOK
<1>3. CASE m \in page
  <2>1. message[m].box = Direct(row.by) /\ ~message[m].read
    BY <1>3 DEF Oldest, RoutablePart, OfRun, Unread
  <2>2. message'[m] = [message[m] EXCEPT !.box = row.box, !.quiet = TRUE] BY <1>1, <1>3
  <2>3. message'[m].read = message[m].read BY <1>2, <2>2 DEF MessageRows
  <2> QED BY <2>1, <2>3, BoxKinds DEF Arriving
<1>4. CASE m \notin page
  <2>1. message'[m] = message[m] BY <1>1, <1>4
  <2> QED BY <2>1 DEF Arriving
<1> QED BY <1>3, <1>4

HInv == MInv /\ BatchesInBox

MailboxesStep == BatchesInBox' /\ \A r \in Runs : MailboxStep(r)

\* Steps that hand nothing out.
LEMMA MailArrives ==
    ASSUME HInv, \A m \in MessageIds : Arriving(m), delivery' = delivery,
           \A r \in Runs : run'[r].generation = run[r].generation
    PROVE  MailboxesStep
<1>1. ASSUME NEW r \in Runs PROVE MailboxStep(r) BY HandedSame, ArrivingIsArrival
<1>2. BatchesInBox'
  <2> SUFFICES ASSUME NEW d \in DeliveryIds, delivery[d].status = "outstanding", NEW m \in delivery[d].batch
               PROVE  message'[m].box = RunBox(delivery[d].run)
    BY DEF BatchesInBox, RunBox, DeliveryIds
  <2>1. message[m].box = RunBox(delivery[d].run) BY DEF HInv, BatchesInBox
  <2>2. m \in MessageIds BY DEF HInv, MInv, TypeOK, DeliveryRows
  <2> QED BY <2>1, <2>2 DEF Arriving
<1> QED BY <1>1, <1>2 DEF MailboxesStep

\* What fencing leaves outstanding.
LEMMA FenceLeaves ==
    ASSUME HInv, NEW R, delivery' = Fence(R)
    PROVE  /\ \A q \in Runs : q \in R => Handed(q)' = {}
           /\ \A q \in Runs : q \notin R => Handed(q)' = Handed(q)
           /\ \A d \in DeliveryIds : delivery'[d].status = "outstanding" => delivery'[d] = delivery[d]
<1>1. ASSUME NEW d \in DeliveryIds
      PROVE  \/ /\ delivery[d].run \in R /\ delivery[d].status = "outstanding"
                /\ delivery'[d].run = delivery[d].run /\ delivery'[d].status = "fenced"
             \/ /\ ~(delivery[d].run \in R /\ delivery[d].status = "outstanding")
                /\ delivery'[d] = delivery[d]
  <2>1. delivery'[d] = IF delivery[d].run \in R /\ delivery[d].status = "outstanding"
                       THEN [delivery[d] EXCEPT !.status = "fenced"] ELSE delivery[d]
    BY DEF Fence
  <2>2. delivery[d] \in DeliveryRows BY DEF HInv, MInv, TypeOK
  <2>3. CASE delivery[d].run \in R /\ delivery[d].status = "outstanding"
    <3>1. delivery'[d] = [delivery[d] EXCEPT !.status = "fenced"] BY <2>1, <2>3
    <3> QED BY <2>2, <2>3, <3>1 DEF DeliveryRows
  <2> QED BY <2>1, <2>3
<1>2. ASSUME NEW q \in Runs, q \in R PROVE Handed(q)' = {}
  <2>1. Outstanding(delivery, q)' = {}
    <3>1. \A d \in DeliveryIds : ~(delivery'[d].run = q /\ delivery'[d].status = "outstanding")
      BY <1>1, <1>2
    <3> QED BY <3>1 DEF Outstanding, DeliveryIds
  <2> QED BY <2>1 DEF Handed
<1>3. ASSUME NEW q \in Runs, q \notin R PROVE Handed(q)' = Handed(q)
  <2>1. \A d \in DeliveryIds : delivery'[d].run = q \/ delivery[d].run = q => delivery'[d] = delivery[d]
    BY <1>1, <1>3
  <2>2. Outstanding(delivery, q)' = Outstanding(delivery, q)
    BY <2>1 DEF Outstanding, DeliveryIds
  <2>3. \A d \in Outstanding(delivery, q) : delivery'[d].batch = delivery[d].batch
    BY <2>1 DEF Outstanding
  <2> QED BY <2>2, <2>3 DEF Handed
<1> QED BY <1>1, <1>2, <1>3

LEMMA HandReplaces ==
    ASSUME HInv, NEW r \in Runs, NEW t \in Terminals, Hand(r, t)
    PROVE  MailboxesStep
<1> DEFINE left == OtherRuns(r, t)
           lost == left \cup (IF run[r].terminal = t THEN {} ELSE {r})
           coordinators == {t, run[r].terminal} \ {NoTerminal}
           directMail ==
               (UNION {Unread(message, Direct(t)) \cap OfRun(message, MessageIds, q) : q \in left})
               \cup (UNION {Unread(message, Direct(u)) \cap OfRun(message, MessageIds, r) : u \in coordinators})
           moved == {m \in directMail : ~ \E u \in Terminals :
                                message[m].box = Direct(u) /\ Assigned(message[m].run, u)}
<1>1. /\ run' = [q \in Runs |->
                    IF q \in lost THEN [terminal |-> IF q = r THEN t ELSE NoTerminal,
                                        generation |-> run[q].generation + 1]
                    ELSE run[q]]
      /\ message' = InOwnRunBox(moved)
      /\ delivery' = Fence(lost)
  BY DEF Hand
<1>2. \A m \in moved : ~message[m].read /\ \A q : message[m].box # RunBox(q)
  <2>1. \A m \in directMail : \E u \in Terminals \cup {t, run[r].terminal} : m \in Unread(message, Direct(u))
    OBVIOUS
  <2>2. \A m \in directMail : ~message[m].read /\ \A q : message[m].box # RunBox(q)
    BY <2>1, BoxKinds DEF Unread
  <2> QED BY <2>2
<1> HIDE DEF left, lost, coordinators, directMail, moved
<1>3. \A m \in MessageIds : Arriving(m) BY <1>1, <1>2, MovingArrives DEF HInv
<1>4. \A q \in Runs : /\ q \in lost => run'[q].generation = run[q].generation + 1
                      /\ q \notin lost => run'[q].generation = run[q].generation
  BY <1>1
<1>5. ReadsNothing BY <1>1, InOwnRunBoxReadsNothing DEF HInv
<1>6. ASSUME NEW q \in Runs PROVE MailboxStep(q)
  <2>1. CASE q \notin lost BY <1>1, <1>3, <1>4, <2>1, FenceLeaves, ArrivingIsArrival
  <2>2. CASE q \in lost
    <3> DEFINE M == InBox(q)'
    <3>1. InBox(q)' = M /\ M = InBox(q) \cup M BY <1>3 DEF InBox, Arriving, RunBox
    <3>2. Consumed(q)' = Consumed(q)
      <4>1. \A m \in MessageIds : message'[m].read <=> message[m].read
        BY <1>3, <1>5 DEF Arriving, ReadsNothing, HInv, MInv, MessagesOK, MessageRows
      <4>2. \A m \in MessageIds : m \in Consumed(q)' <=> m \in Consumed(q)
        BY <1>3, <4>1 DEF Consumed, InBox, Arriving, RunBox
      <4>3. Consumed(q)' \subseteq MessageIds /\ Consumed(q) \subseteq MessageIds
        BY DEF Consumed, InBox, MessageIds
      <4> QED BY <4>2, <4>3
    <3>3. Handed(q)' = {} BY <1>1, <2>2, FenceLeaves
    <3>4. M \in SUBSET MessageIds BY DEF InBox, MessageIds
    <3> HIDE DEF M
    <3> QED BY <1>4, <2>2, <3>1, <3>2, <3>3, <3>4, ReplaceIsStep
  <2> QED BY <2>1, <2>2
<1>7. BatchesInBox'
  <2> SUFFICES ASSUME NEW d \in DeliveryIds, delivery'[d].status = "outstanding", NEW m \in delivery'[d].batch
               PROVE  message'[m].box = RunBox(delivery'[d].run)
    BY DEF BatchesInBox, RunBox, DeliveryIds
  <2>1. delivery'[d] = delivery[d] BY <1>1, FenceLeaves
  <2>2. message[m].box = RunBox(delivery[d].run) BY <2>1 DEF HInv, BatchesInBox
  <2>3. m \in MessageIds BY <2>1 DEF HInv, MInv, TypeOK, DeliveryRows
  <2> QED BY <1>3, <2>1, <2>2, <2>3 DEF Arriving
<1> QED BY <1>6, <1>7 DEF MailboxesStep

\* What is left for run r of its deliveries and mail once nothing, or the
\* delivery that was outstanding, has been acknowledged.
SettledFor(r, msgs, dels) ==
    /\ \A m \in MessageIds : msgs[m].box = message[m].box
    /\ \A d \in DeliveryIds :
        /\ dels[d].run = delivery[d].run
        /\ dels[d].status = "outstanding" \/ delivery[d].run # r => dels[d] = delivery[d]
    /\ \/ dels = delivery /\ \A m \in MessageIds : msgs[m].read = message[m].read
       \/ /\ Outstanding(dels, r) = {}
          /\ \A m \in MessageIds : msgs[m].read <=> message[m].read \/ m \in Handed(r)

LEMMA SettledWithout == ASSUME NEW r PROVE SettledFor(r, message, delivery)
BY DEF SettledFor

LEMMA SettledByAck ==
    ASSUME HInv, NEW c \in Calls, Acks(c), AckAllowed(c)
    PROVE  SettledFor(call[c].run, AckedMessages(c), AckedDeliveries(c))
<1> DEFINE a == call[c].ack
           r == call[c].run
           msgs == AckedMessages(c)
           dels == AckedDeliveries(c)
<1>1. a \in DeliveryIds /\ a # 0 BY DEF Acks, HInv, MInv, TypeOK, CallRows
<1>2. delivery[a].run = r /\ delivery[a].status = "outstanding" BY DEF Acks, AckAllowed
<1>3. \A d \in DeliveryIds : delivery[d] \in DeliveryRows BY DEF HInv, MInv, TypeOK
<1>4. msgs = Read(message, delivery[a].batch) BY DEF AckedMessages
<1>5. dels = [delivery EXCEPT ![a].status = "acknowledged"] BY DEF AckedDeliveries
<1>6. delivery \in [DeliveryIds -> DeliveryRows] BY DEF HInv, MInv, TypeOK
<1>7. delivery[a].run # NoRun
  <2>1. NoDelivery.status # "outstanding" BY DEF NoDelivery
  <2> QED BY <1>1, <1>2, <2>1 DEF HInv, MInv, DeliveriesOK, DeliveryKept
<1> HIDE DEF a, msgs, dels
<1>8. \A d \in DeliveryIds : d # a => dels[d] = delivery[d] BY <1>5, <1>6
<1>9. dels[a] = [delivery[a] EXCEPT !.status = "acknowledged"] BY <1>1, <1>5, <1>6
<1>10. dels[a].run = delivery[a].run /\ dels[a].status = "acknowledged" BY <1>1, <1>3, <1>9 DEF DeliveryRows
<1>11. \A d \in DeliveryIds : delivery[d].run = r /\ delivery[d].status = "outstanding" => d = a
  <2> SUFFICES ASSUME NEW d \in DeliveryIds, delivery[d].run = r, delivery[d].status = "outstanding", d # a
               PROVE  FALSE
    OBVIOUS
  <2>1. DeliveryKept(run, message, delivery[d]) /\ DeliveryKept(run, message, delivery[a])
    BY <1>1 DEF HInv, MInv, DeliveriesOK
  <2>2. Apart(delivery[d], delivery[a]) BY <1>1 DEF HInv, MInv, DeliveriesOK
  <2> QED BY <1>2, <1>7, <2>1, <2>2 DEF DeliveryKept, Apart
<1>12. Outstanding(dels, r) = {} BY <1>8, <1>10, <1>11 DEF Outstanding
<1>13. Handed(r) = delivery[a].batch
  <2>1. Outstanding(delivery, r) = {a} BY <1>1, <1>2, <1>11 DEF Outstanding
  <2> QED BY <2>1 DEF Handed
<1>14. ASSUME NEW m \in MessageIds
       PROVE  msgs[m].box = message[m].box /\ (msgs[m].read <=> message[m].read \/ m \in Handed(r))
  <2>1. message[m] \in MessageRows BY DEF HInv, MInv, MessagesOK
  <2>2. msgs[m] = IF m \in delivery[a].batch THEN [message[m] EXCEPT !.read = TRUE] ELSE message[m]
    BY <1>4 DEF Read
  <2>3. CASE m \in delivery[a].batch
    <3>1. msgs[m] = [message[m] EXCEPT !.read = TRUE] BY <2>2, <2>3
    <3>2. msgs[m].box = message[m].box /\ msgs[m].read = TRUE BY <2>1, <3>1 DEF MessageRows
    <3> QED BY <1>13, <2>3, <3>2
  <2>4. CASE m \notin delivery[a].batch BY <1>13, <2>2, <2>4
  <2> QED BY <2>3, <2>4
<1>15. \A d \in DeliveryIds :
          /\ dels[d].run = delivery[d].run
          /\ dels[d].status = "outstanding" \/ delivery[d].run # r => dels[d] = delivery[d]
  BY <1>2, <1>8, <1>10
<1>16. SettledFor(r, msgs, dels) BY <1>12, <1>14, <1>15 DEF SettledFor
<1> QED BY <1>16 DEF msgs, dels

\* What is handed out is in the mailbox.
LEMMA HandedInBox ==
    ASSUME HInv, NEW r \in Runs
    PROVE  Handed(r) \subseteq InBox(r)
<1> SUFFICES ASSUME NEW d \in Outstanding(delivery, r), NEW m \in delivery[d].batch PROVE m \in InBox(r)
  BY DEF Handed
<1>1. d \in DeliveryIds /\ delivery[d].run = r /\ delivery[d].status = "outstanding" BY DEF Outstanding
<1>2. m \in MessageIds BY <1>1 DEF HInv, MInv, TypeOK, DeliveryRows
<1>3. message[m].box = RunBox(r) BY <1>1 DEF HInv, BatchesInBox
<1> QED BY <1>2, <1>3 DEF InBox

\* Another run's mailbox is none of r's consumer's business.
LEMMA OthersStay ==
    ASSUME HInv, NEW r \in Runs, NEW dels, SettledFor(r, message', dels), NEW q \in Runs, q # r, run' = run,
           \A d \in DeliveryIds : delivery'[d].run = q \/ dels[d].run = q => delivery'[d] = dels[d]
    PROVE  MailboxStep(q)
<1>1. InBox(q)' = InBox(q) BY DEF InBox, SettledFor, MessageIds, RunBox
<1>2. Consumed(q)' = Consumed(q)
  <2>1. \A m \in InBox(q) : m \notin Handed(r)
    <3>1. \A m \in InBox(q) : m \notin InBox(r) BY BoxKinds DEF InBox
    <3> QED BY <3>1, HandedInBox
  <2>2. \A m \in InBox(q) : message'[m].read <=> message[m].read BY <2>1 DEF SettledFor, InBox
  <2> QED BY <1>1, <2>2 DEF Consumed
<1>3. \A d \in DeliveryIds : delivery'[d].run = q \/ delivery[d].run = q => delivery'[d] = delivery[d]
  BY DEF SettledFor
<1>4. Outstanding(delivery, q)' = Outstanding(delivery, q) BY <1>3 DEF Outstanding, DeliveryIds
<1>5. \A d \in Outstanding(delivery, q) : delivery'[d].batch = delivery[d].batch BY <1>3 DEF Outstanding
<1>6. Handed(q)' = Handed(q) BY <1>4, <1>5 DEF Handed
<1> QED BY <1>1, <1>2, <1>6, SameIsStep

\* Its consumer is done with what it was handed, and is handed nothing yet.
LEMMA DoneIsStep ==
    ASSUME HInv, NEW r \in Runs, SettledFor(r, message', delivery'), run' = run
    PROVE  MailboxesStep
<1>1. InBox(r)' = InBox(r) BY DEF InBox, SettledFor, MessageIds, RunBox
<1>2. MailboxStep(r)
  <2>1. CASE delivery' = delivery /\ \A m \in MessageIds : message'[m].read = message[m].read
    <3>1. Consumed(r)' = Consumed(r) BY <1>1, <2>1 DEF Consumed, InBox
    <3> QED BY <1>1, <2>1, <3>1, HandedSame, SameIsStep
  <2>2. CASE /\ Outstanding(delivery', r) = {}
             /\ \A m \in MessageIds : message'[m].read <=> message[m].read \/ m \in Handed(r)
    <3>1. Handed(r)' = {} BY <2>2 DEF Handed, Outstanding, DeliveryIds
    <3>2. Consumed(r)' = Consumed(r) \cup Handed(r) BY <1>1, <2>2, HandedInBox DEF Consumed, InBox
    <3>3. Mailbox(r)!OldestOf({}, InBox(r) \ Consumed(r)') BY DEF Mailbox!OldestOf
    <3> QED BY <1>1, <3>1, <3>2, <3>3, TurnIsStep
  <2> QED BY <2>1, <2>2 DEF SettledFor
<1>3. ASSUME NEW q \in Runs, q # r PROVE MailboxStep(q)
  <2> DEFINE dels == delivery'
  <2>1. \A d \in DeliveryIds : delivery'[d] = dels[d] OBVIOUS
  <2>2. SettledFor(r, message', dels) OBVIOUS
  <2> HIDE DEF dels
  <2> QED BY <1>3, <2>1, <2>2, OthersStay
<1>4. BatchesInBox'
  <2> SUFFICES ASSUME NEW d \in DeliveryIds, delivery'[d].status = "outstanding", NEW m \in delivery'[d].batch
               PROVE  message'[m].box = RunBox(delivery'[d].run)
    BY DEF BatchesInBox, RunBox, DeliveryIds
  <2>1. delivery'[d] = delivery[d] BY DEF SettledFor
  <2>2. message[m].box = RunBox(delivery[d].run) BY <2>1 DEF HInv, BatchesInBox
  <2>3. m \in MessageIds BY <2>1 DEF HInv, MInv, TypeOK, DeliveryRows
  <2> QED BY <2>1, <2>2, <2>3 DEF SettledFor
<1> QED BY <1>2, <1>3, <1>4 DEF MailboxesStep

\* It had nothing outstanding or is done with it, and is handed the next batch.
LEMMA NextBatchIsStep ==
    ASSUME HInv, NEW c \in Calls, NEW r \in Runs, r = call[c].run, call[c].box = RunBox(r), run' = run,
           NEW dels, dels \in [DeliveryIds -> DeliveryRows], SettledFor(r, message', dels),
           Outstanding(dels, r) = {}, NEW d \in DeliveryIds, NextDelivery(dels, d),
           NEW msgs, msgs = message',
           delivery' = [dels EXCEPT ![d] =
                [run |-> r, generation |-> call[c].generation,
                 batch |-> NextBatch(c, msgs), status |-> "outstanding"]]
    PROVE  MailboxesStep
<1> DEFINE unread == Unread(msgs, RunBox(r))
           B == Oldest(unread)
<1>1. NextBatch(c, msgs) = B BY DEF NextBatch
<1>2. dels[d].run = NoRun BY DEF NextDelivery
<1>3. r # NoRun BY RunMailboxAssumption
<1>4. unread \in SUBSET MessageIds BY DEF Unread
<1>5. B \in SUBSET MessageIds /\ B \subseteq unread BY <1>4 DEF Oldest
<1>6. \A m \in unread : m \in MessageIds /\ msgs[m].box = RunBox(r) /\ ~msgs[m].read BY DEF Unread
<1>7. InBox(r)' = InBox(r) BY DEF InBox, SettledFor, MessageIds, RunBox
<1>8. \A m \in MessageIds : msgs[m].read <=> message[m].read \/ m \in Handed(r)
  <2>1. CASE dels = delivery /\ \A m \in MessageIds : msgs[m].read = message[m].read
    <3>1. Handed(r) = {} BY <2>1 DEF Handed
    <3> QED BY <2>1, <3>1
  <2> QED BY <2>1 DEF SettledFor
<1>9. Consumed(r)' = Consumed(r) \cup Handed(r)
  BY <1>3, <1>7, <1>8, HandedInBox DEF Consumed, InBox
<1>10. InBox(r) \ Consumed(r)' = unread
  <2>1. Consumed(r)' = {m \in InBox(r) : msgs[m].read} BY <1>7 DEF Consumed
  <2>2. \A m \in MessageIds : msgs[m].box = message[m].box BY DEF SettledFor
  <2>3. unread = {m \in MessageIds : msgs[m].box = RunBox(r) /\ ~msgs[m].read} BY DEF Unread
  <2> HIDE DEF unread
  <2> QED BY <2>1, <2>2, <2>3 DEF InBox
<1>11. /\ delivery'[d].run = r /\ delivery'[d].batch = B /\ delivery'[d].status = "outstanding"
       /\ \A e \in DeliveryIds : e # d => delivery'[e] = dels[e]
  BY <1>1
<1> HIDE DEF unread, B
<1>12. Handed(r)' = B
  <2>1. \A e \in DeliveryIds : delivery'[e].run = r /\ delivery'[e].status = "outstanding" <=> e = d
    BY <1>11 DEF Outstanding
  <2>2. Outstanding(delivery, r)' = {d} BY <2>1 DEF Outstanding, DeliveryIds
  <2> QED BY <1>11, <2>2 DEF Handed
<1>13. Mailbox(r)!OldestOf(B, InBox(r) \ Consumed(r)') BY <1>4, <1>10, OldestIsOldest DEF B
<1>14. MailboxStep(r) BY <1>3, <1>5, <1>7, <1>9, <1>12, <1>13, TurnIsStep
<1>15. ASSUME NEW q \in Runs, q # r PROVE MailboxStep(q)
  <2>1. q # NoRun BY RunMailboxAssumption
  <2>2. \A e \in DeliveryIds : delivery'[e].run = q \/ dels[e].run = q => delivery'[e] = dels[e]
    BY <1>2, <1>11, <1>15, <2>1
  <2> QED BY <1>3, <1>15, <2>2, OthersStay
<1>16. BatchesInBox'
  <2> SUFFICES ASSUME NEW e \in DeliveryIds, delivery'[e].status = "outstanding", NEW m \in delivery'[e].batch
               PROVE  message'[m].box = RunBox(delivery'[e].run)
    BY DEF BatchesInBox, RunBox, DeliveryIds
  <2>1. CASE e = d BY <1>5, <1>6, <1>11, <2>1
  <2>2. CASE e # d
    <3>1. delivery'[e] = delivery[e] BY <1>11, <2>2 DEF SettledFor
    <3>2. message[m].box = RunBox(delivery[e].run) BY <3>1 DEF HInv, BatchesInBox
    <3>3. m \in MessageIds BY <3>1 DEF HInv, MInv, TypeOK, DeliveryRows
    <3> QED BY <3>1, <3>2, <3>3 DEF SettledFor
  <2> QED BY <2>1, <2>2
<1> QED BY <1>14, <1>15, <1>16 DEF MailboxesStep

LEMMA GetOrCreateIsStep ==
    ASSUME HInv, NEW c \in Calls, NEW r \in Runs, r = call[c].run, call[c].box = RunBox(r), run' = run,
           NEW msgs, NEW dels, dels \in [DeliveryIds -> DeliveryRows], SettledFor(r, msgs, dels),
           GetOrCreateRunDelivery(c, msgs, dels)
    PROVE  MailboxesStep
<1>1. message' = msgs BY DEF GetOrCreateRunDelivery
<1>2. CASE delivery' = dels BY <1>1, <1>2, DoneIsStep
<1>3. ASSUME Outstanding(dels, r) = {}, NEW d \in DeliveryIds, NextDelivery(dels, d),
             delivery' = [dels EXCEPT ![d] =
                        [run |-> r, generation |-> call[c].generation,
                         batch |-> NextBatch(c, msgs), status |-> "outstanding"]]
      PROVE  MailboxesStep
  BY <1>1, <1>3, NextBatchIsStep
<1> QED BY <1>2, <1>3 DEF GetOrCreateRunDelivery

LEMMA RunCheckIsStep ==
    ASSUME HInv, NEW c \in Calls, ResumeRunCheck(c) \/ FinishRunCheck(c)
    PROVE  MailboxesStep
<1>1. PICK r : r = call[c].run OBVIOUS
<1>2. call[c].box = RunBox(r) /\ run' = run BY <1>1 DEF ResumeRunCheck, FinishRunCheck
<1>3. r \in Runs BY <1>1, <1>2, BoxTypes DEF HInv, MInv, TypeOK, CallRows
<1>4. delivery \in [DeliveryIds -> DeliveryRows] BY DEF HInv, MInv, TypeOK
<1>5. CASE FinishRunCheck(c) \/ RefuseRunCheck(c)
  <2>1. \/ GetOrCreateRunDelivery(c, message, delivery)
        \/ message' = message /\ delivery' = delivery
    BY <1>5 DEF FinishRunCheck, RefuseRunCheck
  <2>2. CASE GetOrCreateRunDelivery(c, message, delivery)
    BY <1>1, <1>2, <1>3, <1>4, <2>2, SettledWithout, GetOrCreateIsStep
  <2>3. CASE message' = message /\ delivery' = delivery
    BY <1>2, <1>3, <2>3, SettledWithout, DoneIsStep
  <2> QED BY <2>1, <2>2, <2>3
<1>6. CASE AckAndRead(c)
  <2>1. PICK msgs, dels : msgs = AckedMessages(c) /\ dels = AckedDeliveries(c) OBVIOUS
  <2>2. SettledFor(r, msgs, dels)
    <3>1. CASE Acks(c)
      <4>1. AckAllowed(c) BY <1>6, <3>1 DEF AckAndRead, Acks
      <4> QED BY <1>1, <2>1, <3>1, <4>1, SettledByAck
    <3>2. CASE ~Acks(c)
      <4>1. msgs = message /\ dels = delivery BY <2>1, <3>2 DEF AckedMessages, AckedDeliveries
      <4> QED BY <4>1, SettledWithout
    <3> QED BY <3>1, <3>2
  <2>3. dels \in [DeliveryIds -> DeliveryRows] BY <2>1, AckKeeps DEF HInv, MInv, DeliveriesOK
  <2>4. \/ GetOrCreateRunDelivery(c, msgs, dels)
        \/ message' = msgs /\ delivery' = dels
    BY <1>6, <2>1 DEF AckAndRead
  <2>5. CASE GetOrCreateRunDelivery(c, msgs, dels)
    BY <1>1, <1>2, <1>3, <2>2, <2>3, <2>5, GetOrCreateIsStep
  <2>6. CASE message' = msgs /\ delivery' = dels BY <1>2, <1>3, <2>2, <2>6, DoneIsStep
  <2> QED BY <2>4, <2>5, <2>6
<1> QED BY <1>5, <1>6 DEF ResumeRunCheck

LEMMA RestartIsStep ==
    ASSUME HInv, Restart
    PROVE  MailboxesStep
<1>1. run' = run BY DEF Restart
<1>2. CASE UNCHANGED <<message, delivery>>
  <2>1. \A m \in MessageIds : Arriving(m) BY <1>2 DEF Arriving
  <2> QED BY <1>1, <1>2, <2>1, MailArrives
<1>3. ASSUME NEW c \in Calls, call[c].box = RunBox(call[c].run), call[c].ack # 0, AckAllowed(c),
             message' = AckedMessages(c), delivery' = AckedDeliveries(c)
      PROVE  MailboxesStep
  <2>1. PICK r : r = call[c].run OBVIOUS
  <2>2. r \in Runs BY <1>3, <2>1, BoxTypes DEF HInv, MInv, TypeOK, CallRows
  <2>3. CASE Acks(c)
    <3>1. SettledFor(r, AckedMessages(c), AckedDeliveries(c)) BY <1>3, <2>1, <2>3, SettledByAck
    <3> QED BY <1>1, <1>3, <2>2, <3>1, DoneIsStep
  <2>4. CASE ~Acks(c)
    <3>1. message' = message /\ delivery' = delivery BY <1>3, <2>4 DEF AckedMessages, AckedDeliveries
    <3> QED BY <1>1, <2>2, <3>1, SettledWithout, DoneIsStep
  <2> QED BY <2>3, <2>4
<1> QED BY <1>2, <1>3 DEF Restart

\* The other checks read and route mail, and hand out none.
LEMMA OtherChecksArrive ==
    ASSUME HInv, NEW c \in Calls,
           \/ \E t \in Terminals, mode \in Modes :
                \/ \E r \in Runs, ack \in {0} \cup DeliveryIds : CheckRun(c, t, r, mode, ack)
                \/ \E k \in Claims : CheckDispatch(c, t, k, mode)
                \/ CheckDirect(c, t, mode)
           \/ RoutePage(c) \/ ResumeDispatchCheck(c) \/ FinishDispatchCheck(c) \/ FinishDirectCheck(c)
           \/ Expire(c) \/ Abort(c)
    PROVE  delivery' = delivery /\ \A m \in MessageIds : Arriving(m)
<1> DEFINE Fine == delivery' = delivery /\ \A m \in MessageIds : Arriving(m)
<1>1. MInv BY DEF HInv
<1>2. ASSUME NEW t, NEW mode, NEW ack, NEW b, NEW r, Begin(c, t, mode, ack, b, r) PROVE Fine
  <2>1. delivery' = delivery /\ \E row : Route(c, row) BY <1>2 DEF Begin
  <2> QED BY <1>1, <2>1, RouteArrives
<1>3. ASSUME RoutePage(c) PROVE Fine BY <1>1, <1>3, RouteArrives DEF RoutePage
<1>4. ASSUME NEW k \in Claims, MailboxOf(c, k), RefuseDispatchCheck(c)
      PROVE  \A m \in MessageIds : Arriving(m)
  <2> DEFINE stranded == IF \E j \in Claims : MailboxOf(c, j) /\ life[j] = "over"
                         THEN Unread(message, call[c].box) ELSE {}
  <2>1. message' = InOwnRunBox(stranded) BY <1>4 DEF RefuseDispatchCheck
  <2>2. \A m \in stranded : ~message[m].read /\ \A r : message[m].box # RunBox(r)
    BY <1>4, BoxKinds DEF Unread, MailboxOf
  <2> HIDE DEF stranded
  <2> QED BY <1>1, <2>1, <2>2, MovingArrives
<1>5. ASSUME ResumeDispatchCheck(c) \/ FinishDispatchCheck(c) PROVE Fine
  <2>1. delivery' = delivery BY <1>5 DEF ResumeDispatchCheck, FinishDispatchCheck
  <2>2. PICK k \in Claims : MailboxOf(c, k) BY <1>5 DEF ResumeDispatchCheck, FinishDispatchCheck
  <2>3. \/ RefuseDispatchCheck(c)
        \/ \E S : message' = message \/ message' = Read(message, S)
    BY <1>5 DEF ResumeDispatchCheck, FinishDispatchCheck
  <2> QED BY <1>1, <1>4, <2>1, <2>2, <2>3, ReadingArrives
<1>6. ASSUME FinishDirectCheck(c) \/ \E t, mode : CheckDirect(c, t, mode) PROVE Fine
  <2>1. delivery' = delivery /\ \E row : message' = message \/ message' = ReadDirect(row)
    BY <1>6 DEF FinishDirectCheck, CheckDirect
  <2>2. \E S : message' = message \/ message' = Read(message, S) BY <2>1 DEF ReadDirect
  <2> QED BY <1>1, <2>1, <2>2, ReadingArrives
<1>7. ASSUME Expire(c) \/ Abort(c) PROVE Fine
  <2>1. delivery' = delivery /\ message' = message BY <1>7 DEF Expire, Abort
  <2> QED BY <2>1 DEF Arriving
<1> HIDE DEF Fine
<1>8. ASSUME NEW t, NEW mode, NEW r, NEW ack, CheckRun(c, t, r, mode, ack) PROVE Fine
  BY <1>2, <1>8 DEF CheckRun
<1>9. ASSUME NEW t, NEW mode, NEW k, CheckDispatch(c, t, k, mode) PROVE Fine
  BY <1>2, <1>9 DEF CheckDispatch
<1>10. Fine BY <1>3, <1>5, <1>6, <1>7, <1>8, <1>9
<1> QED BY <1>10 DEF Fine

LEMMA MailIsStep == ASSUME HInv, Mail PROVE MailboxesStep
<1>1. MInv BY DEF HInv
<1>2. MessagesOK(message) BY DEF HInv, MInv
<1>3. delivery' = delivery /\ run' = run BY DEF Mail, Send, Reply
<1>4. ASSUME NEW m \in MessageIds, NEW r \in Runs, NEW b \in Boxes, Send(m, r, b)
      PROVE  \A k \in MessageIds : Arriving(k)
  BY <1>1, <1>2, <1>4, PostArrives DEF Send, NextMessage
<1>5. ASSUME NEW m \in MessageIds, NEW original \in MessageIds, NEW t \in Terminals, Reply(m, original, t)
      PROVE  \A k \in MessageIds : Arriving(k)
  <2>1. PICK msgs : msgs = Read(message, {original}) OBVIOUS
  <2>2. PICK r : r = message[original].run OBVIOUS
  <2>3. r \in Runs BY <1>2, <1>5, <2>2 DEF Reply, MessagesOK, MessageRows
  <2>4. MessagesOK(msgs) BY <1>1, <1>2, <1>5, <2>1, ReadKeeps DEF Reply
  <2>5. Direct(t) \in Boxes BY BoxTypes
  <2>6. message[m].run = NoRun /\ Post(msgs, m, r, Direct(t))
    BY <1>5, <2>1, <2>2 DEF Reply, NextMessage
  <2> QED BY <1>1, <2>1, <2>3, <2>4, <2>5, <2>6, PostArrives
<1>6. \A k \in MessageIds : Arriving(k) BY <1>4, <1>5 DEF Mail
<1> QED BY <1>3, <1>6, MailArrives

LEMMA StepsRefine == HInv /\ [Next]_vars => MailboxesStep
<1> SUFFICES ASSUME HInv, [Next]_vars PROVE MailboxesStep OBVIOUS
<1>1. ASSUME message' = message, delivery' = delivery, run' = run PROVE MailboxesStep
  <2>1. \A m \in MessageIds : Arriving(m) BY <1>1 DEF Arriving
  <2> QED BY <1>1, <2>1, MailArrives
<1>2. CASE Mail BY <1>2, MailIsStep
<1>3. CASE Bindings BY <1>3, HandReplaces DEF Bindings, CreateRun, BindRun
<1>4. CASE Dispatches BY <1>1, <1>4 DEF Dispatches, TakeClaim, AttachClaim, EndClaim
<1>5. CASE Checks
  <2>1. run' = run BY <1>5, ChecksLeaveRuns
  <2>2. PICK c \in Calls :
            \/ \E t \in Terminals, mode \in Modes :
                \/ \E r \in Runs, ack \in {0} \cup DeliveryIds : CheckRun(c, t, r, mode, ack)
                \/ \E k \in Claims : CheckDispatch(c, t, k, mode)
                \/ CheckDirect(c, t, mode)
            \/ Proceed(c) \/ Expire(c) \/ Abort(c)
    BY <1>5 DEF Checks
  <2>3. CASE ResumeRunCheck(c) \/ FinishRunCheck(c) BY <2>3, RunCheckIsStep
  <2>4. CASE ~(ResumeRunCheck(c) \/ FinishRunCheck(c))
    <3>1. delivery' = delivery /\ \A m \in MessageIds : Arriving(m)
      BY <2>2, <2>4, OtherChecksArrive DEF Proceed
    <3> QED BY <2>1, <3>1, MailArrives
  <2> QED BY <2>3, <2>4
<1>6. CASE Restart BY <1>6, RestartIsStep
<1>7. CASE UNCHANGED vars BY <1>1, <1>7 DEF vars
<1> QED BY <1>2, <1>3, <1>4, <1>5, <1>6, <1>7 DEF Next

\* The mail of every run, whatever its terminals, checks and restarts do, is
\* handed to its consumer at least once, in order, in batches that do not change
\* (db/runs/run-delivery.ts, db/runs/run-binding.ts).
THEOREM MailboxesAreAtLeastOnce == Spec => ImplementsAtLeastOnceBox
<1>1. Init => HInv
  <2> SUFFICES ASSUME Init PROVE HInv OBVIOUS
  <2>1. \A d \in DeliveryIds : delivery[d].status = "none" BY DEF Init, NoDelivery
  <2> QED BY <2>1, InitEstablishes DEF HInv, BatchesInBox
<1>2. HInv /\ [Next]_vars => HInv'
  BY StepsKeep, StepsRefine DEF HInv, MailboxesStep
<1>3. Init => \A r \in Runs : Mailbox(r)!Init
  <2> SUFFICES ASSUME Init, NEW r \in Runs PROVE Mailbox(r)!Init OBVIOUS
  <2>1. \A m \in MessageIds : message[m].box = NoBox BY DEF Init, NoMessage
  <2>2. InBox(r) = {} BY <2>1, BoxKinds DEF InBox
  <2>3. \A d \in DeliveryIds : delivery[d].status = "none" BY DEF Init, NoDelivery
  <2>4. Outstanding(delivery, r) = {} BY <2>3 DEF Outstanding
  <2>5. run[r].generation = 0 BY DEF Init
  <2> QED BY <2>2, <2>4, <2>5 DEF Mailbox!Init
<1>4. HInv /\ [Next]_vars => [\A r \in Runs : [Mailbox(r)!Next]_(Mailbox(r)!vars)]_vars
  BY StepsRefine DEF MailboxesStep, MailboxStep
<1> QED BY <1>1, <1>2, <1>3, <1>4, PTL DEF Spec, ImplementsAtLeastOnceBox
=============================================================================
