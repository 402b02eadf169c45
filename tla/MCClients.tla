------------------------------ MODULE MCClients ------------------------------
(***************************************************************************)
(* Three connections of one key. They are dialled by one client of          *)
(* churntest, so that an attempt it gave up, a connection it left and the   *)
(* current one meet in the registry; or by a client of churntest and one of *)
(* loadtest, which have the same name.                                      *)
(***************************************************************************)
EXTENDS Clients, TLC

CONSTANTS k1, ch, lt, c1, c2, c3

MCKeyOf == [c \in Conns |-> k1]

Alone == [c \in Conns |-> ch]
Both  == c1 :> ch @@ c2 :> lt @@ c3 :> None

MCCasts    == {Alone, Both}
AloneCasts == {Alone}
=============================================================================
