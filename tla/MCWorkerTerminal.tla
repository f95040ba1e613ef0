--------------------------- MODULE MCWorkerTerminal ---------------------------
(* A small instance of the terminals of supervised workers. *)
EXTENDS WorkerTerminal

\* every task stands alone
Independent == [t \in Tasks |-> {}]
=============================================================================
