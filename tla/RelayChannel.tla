----------------------------- MODULE RelayChannel -----------------------------
(***************************************************************************)
(* What the relay promises the coordinator of a federated worker: everything  *)
(* the worker's server accepted arrives once, in the order it was accepted.    *)
(***************************************************************************)
EXTENDS Integers, Sequences

CONSTANT Message

VARIABLES
    accepted,   \* what the server took from the worker
    arrived     \* what reached the home

vars == <<accepted, arrived>>

Init == accepted = <<>> /\ arrived = <<>>

Accept(message) ==
    /\ accepted' = Append(accepted, message)
    /\ UNCHANGED arrived

Arrive ==
    /\ Len(arrived) < Len(accepted)
    /\ arrived' = Append(arrived, accepted[Len(arrived) + 1])
    /\ UNCHANGED accepted

Next == (\E message \in Message : Accept(message)) \/ Arrive

Spec == Init /\ [][Next]_vars
=============================================================================
