------------------------------- MODULE MCFrame -------------------------------
(***************************************************************************)
(* Every WebSocket message of up to six cells, with three recipients and    *)
(* two bytes of data at most; and a chat client that types two lines of one *)
(* to three bytes, sent in chunks of two, to nobody, to itself, to two      *)
(* others, to the same one twice, to more than fit.                         *)
(***************************************************************************)
EXTENDS Chat

MCLists     == {<<1>>, <<2, 3>>, <<2, 2>>, <<2, 3, 4, 2>>}
OneList     == {<<2>>}
=============================================================================
