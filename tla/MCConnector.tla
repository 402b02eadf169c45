----------------------------- MODULE MCConnector -----------------------------
(***************************************************************************)
(* Instances of Connector: both goroutines of the connection close it while *)
(* senders push.                                                            *)
(***************************************************************************)
EXTENDS Connector, TLC
=============================================================================
