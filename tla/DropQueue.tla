------------------------------ MODULE DropQueue ------------------------------
(***************************************************************************)
(* What core.Connector promises of SafePush and Close (connector.go): a     *)
(* bounded FIFO queue that takes a message at once or refuses it at once.   *)
(* It refuses exactly when it is full or closed, never because of what      *)
(* other callers are doing, and it takes nothing once it is closed; what it *)
(* took before can still be received.                                       *)
(***************************************************************************)
EXTENDS Integers, Sequences

CONSTANTS Pushers,  \* goroutines that call SafePush
          Messages,
          Capacity,
          Nothing   \* no message

VARIABLES queue, closed,
          call,     \* the state of each pusher's call
          arg       \* the message it is about

queueVars == <<queue, closed, call, arg>>

Calls == {"none", "pending", "accepted", "refused"}

QueueInit == /\ queue = <<>> /\ closed = FALSE
             /\ call = [p \in Pushers |-> "none"]
             /\ arg = [p \in Pushers |-> Nothing]

Invoke(p, m) == /\ call[p] = "none"
                /\ call' = [call EXCEPT ![p] = "pending"]
                /\ arg' = [arg EXCEPT ![p] = m]
                /\ UNCHANGED <<queue, closed>>

Decide(p) == /\ call[p] = "pending"
             /\ IF ~closed /\ Len(queue) < Capacity
                THEN /\ queue' = Append(queue, arg[p])
                     /\ call' = [call EXCEPT ![p] = "accepted"]
                ELSE /\ call' = [call EXCEPT ![p] = "refused"]
                     /\ UNCHANGED queue
             /\ UNCHANGED <<closed, arg>>

Return(p) == /\ call[p] \in {"accepted", "refused"}
             /\ call' = [call EXCEPT ![p] = "none"]
             /\ arg' = [arg EXCEPT ![p] = Nothing]
             /\ UNCHANGED <<queue, closed>>

Receive == /\ queue # <<>>
           /\ queue' = Tail(queue)
           /\ UNCHANGED <<closed, call, arg>>

Shut == closed' = TRUE /\ UNCHANGED <<queue, call, arg>>

QueueNext == \/ \E p \in Pushers : Decide(p) \/ Return(p) \/ \E m \in Messages : Invoke(p, m)
             \/ Receive
             \/ Shut

QueueSpec == QueueInit /\ [][QueueNext]_queueVars
=============================================================================
