---------------------------- MODULE MCRunMailbox ----------------------------
(***************************************************************************)
(* The run whose tasks are claimed, and the flags of a check, for TLC.      *)
(***************************************************************************)
EXTENDS RunMailbox, TLC

CONSTANT Worked
AllOfOneRun == [t \in Tasks |-> Worked]
Flags(w, f, p) == [wait |-> w, filtered |-> f, peek |-> p]
LookWaitOrPeek ==
    {Flags(FALSE, FALSE, FALSE), Flags(TRUE, TRUE, FALSE), Flags(FALSE, FALSE, TRUE)}
Symmetry == Permutations(Terminals) \cup Permutations(Calls)
=============================================================================
