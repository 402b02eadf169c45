------------------------------ MODULE Multicast ------------------------------
(***************************************************************************)
(* What core.App promises of HandleMessage and the write pumps together: a  *)
(* lossy multicast. A message is submitted once, with the keys that may     *)
(* have it, and nobody changes those afterwards. It reaches each of them at *)
(* most once and nobody else, under whatever connections the key has in the *)
(* meantime, and count is at every moment how often anything got through.   *)
(* Relay is shown to implement this module.                                 *)
(***************************************************************************)
EXTENDS Integers

CONSTANTS Keys,    \* public keys
          Messages \* 1..n, in the order of their submission

VARIABLES submitted, \* number of messages submitted
          audience,  \* the keys each of them may reach
          reached,   \* pairs of a message and a key that has it
          count      \* IncrementDeliverySuccess, how often

castVars == <<submitted, audience, reached, count>>

CastInit == /\ submitted = 0
            /\ audience = [m \in Messages |-> {}]
            /\ reached = {}
            /\ count = 0

Submit(ids) == /\ submitted + 1 \in Messages
               /\ submitted' = submitted + 1
               /\ audience' = [audience EXCEPT ![submitted + 1] = ids]
               /\ UNCHANGED <<reached, count>>

Reach(m, k) == /\ m <= submitted /\ k \in audience[m] /\ <<m, k>> \notin reached
               /\ reached' = reached \cup {<<m, k>>}
               /\ count' = count + 1
               /\ UNCHANGED <<submitted, audience>>

CastNext == \/ \E ids \in SUBSET Keys : Submit(ids)
            \/ \E m \in Messages, k \in Keys : Reach(m, k)

CastSpec == CastInit /\ [][CastNext]_castVars
=============================================================================
