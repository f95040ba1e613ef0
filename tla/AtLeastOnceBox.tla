---------------------------- MODULE AtLeastOnceBox ----------------------------
(***************************************************************************)
(* What the mailbox of one run promises to its consumer: mail is handed out *)
(* oldest first, in batches; a batch stands until the consumer is done with *)
(* it or is replaced, and only in the latter case are its messages handed   *)
(* out again; what a consumer was done with is never handed out again.      *)
(***************************************************************************)
EXTENDS Naturals, FiniteSets

CONSTANT Messages   \* message numbers, in the order they were written

VARIABLES
    box,        \* the messages that arrived
    consumed,   \* those a consumer is done with
    epoch,      \* counts the consumers
    batch       \* what the present consumer was handed and is not done with

vars == <<box, consumed, epoch, batch>>

Init == box = {} /\ consumed = {} /\ epoch = 0 /\ batch = {}

\* B takes its messages from the old end of S.
OldestOf(B, S) == B \subseteq S /\ \A b \in B, s \in S : s < b => s \in B

\* Mail arrives; a message that was answered needs no consumer any more.
Arrive(M, answered) ==
    /\ answered \subseteq box
    /\ box' = box \cup M
    /\ consumed' = consumed \cup answered
    /\ UNCHANGED <<epoch, batch>>

\* The consumer is done with its batch, or had none; it is handed the next, or nothing yet.
Turn(B) ==
    /\ consumed' = consumed \cup batch
    /\ OldestOf(B, box \ consumed')
    /\ batch' = B
    /\ UNCHANGED <<box, epoch>>

Replace(M) ==
    /\ box' = box \cup M
    /\ epoch' = epoch + 1
    /\ batch' = {}
    /\ UNCHANGED consumed

Next ==
    \/ \E M, answered \in SUBSET Messages : Arrive(M, answered)
    \/ \E B \in SUBSET Messages : Turn(B)
    \/ \E M \in SUBSET Messages : Replace(M)

Spec == Init /\ [][Next]_vars
=============================================================================
