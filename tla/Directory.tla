------------------------------ MODULE Directory ------------------------------
(***************************************************************************)
(* What the connection registry promises, with the two halves of           *)
(* Relayer.OnConnect and Relayer.OnDisconnect taken as one step each: a     *)
(* directory from public keys to the connection that joined last under the *)
(* key, and a count that is at every moment the number of keys present.    *)
(* Registry is shown to implement this module.                             *)
(***************************************************************************)
EXTENDS Integers

CONSTANTS PubKeys,  \* 32-byte public keys
          Conns,    \* connectors, one per accepted WebSocket
          KeyOf,    \* the key each connector authenticated with
          None      \* no connector

VARIABLES entries,  \* the connector found under each key, or None
          count,    \* number of keys with a connector
          phase     \* "out", "in" or "left", for each connector

dirVars == <<entries, count, phase>>

DirInit == /\ entries = [k \in PubKeys |-> None]
           /\ count = 0
           /\ phase = [c \in Conns |-> "out"]

\* The connector takes its key over, whoever held it.
Join(c) == /\ phase[c] = "out"
           /\ phase' = [phase EXCEPT ![c] = "in"]
           /\ entries' = [entries EXCEPT ![KeyOf[c]] = c]
           /\ count' = IF entries[KeyOf[c]] = None THEN count + 1 ELSE count

\* The connector gives its key up, unless another one took it over.
Leave(c) == /\ phase[c] = "in"
            /\ phase' = [phase EXCEPT ![c] = "left"]
            /\ IF entries[KeyOf[c]] = c
               THEN /\ entries' = [entries EXCEPT ![KeyOf[c]] = None]
                    /\ count' = count - 1
               ELSE UNCHANGED <<entries, count>>

DirNext == \E c \in Conns : Join(c) \/ Leave(c)

DirSpec == DirInit /\ [][DirNext]_dirVars
=============================================================================
