-------------------------- MODULE MCFederationRelay --------------------------
(* Small instances of one federated dispatch. *)
EXTENDS FederationRelay
=============================================================================
