------------------------------ MODULE MCLatency ------------------------------
(***************************************************************************)
(* Instance of Latency: more samples than the reservoir holds.              *)
(***************************************************************************)
EXTENDS Latency
=============================================================================
