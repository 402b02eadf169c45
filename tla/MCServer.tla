------------------------------ MODULE MCServer ------------------------------
(***************************************************************************)
(* Instance of Server: two pumps, a poller of /metrics, and a latency       *)
(* channel that is full after one sample.                                   *)
(***************************************************************************)
EXTENDS Server

CONSTANTS pumpA, pumpB, pollA
=============================================================================
