--------------------------- MODULE MCTaskDispatch ---------------------------
(* Small instances of the task board. *)
EXTENDS TaskDispatch

CONSTANTS build, test

\* test waits for build
Chain == [t \in Tasks |-> IF t = test THEN {build} ELSE {}]
\* every task stands alone
Independent == [t \in Tasks |-> {}]
=============================================================================
