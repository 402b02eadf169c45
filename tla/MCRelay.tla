------------------------------- MODULE MCRelay -------------------------------
(***************************************************************************)
(* Instances of Relay. Reconnect: conA and conB share the key k1, so one    *)
(* replaces the other while conC, with k2, exchanges messages with them.    *)
(* Fanout: three keys, one connection each, frames to several recipients.   *)
(* Pair: two connections that send each other more messages than a queue    *)
(* holds.                                                                   *)
(***************************************************************************)
EXTENDS Relay, TLC

CONSTANTS k1, k2, k3, conA, conB, conC

ReconnectKeyOf == conA :> k1 @@ conB :> k1 @@ conC :> k2
FanoutKeyOf    == conA :> k1 @@ conB :> k2 @@ conC :> k3
PairKeyOf      == conA :> k1 @@ conB :> k2

\* conA and conB have the same key and can be exchanged.
ReconnectSymmetry == Permutations({conA, conB})

ReconnectFrames == {{k1, k2}}
FanoutFrames    == {{k1, k2, k3}, {k1}, {k2}}
PairFrames      == {{k1, k2}}
=============================================================================
