--------------------------- MODULE ConnectorProofs ---------------------------
(***************************************************************************)
(* Theorems about Connector, for any number of pushers and closers and any  *)
(* capacity. The inductive invariant says what the lock buys: the pushers   *)
(* between RLock and RUnlock are the holders of the read lock, a closer in  *)
(* its critical section is alone, and so what SafePush and Close read of    *)
(* isClosed is still true when they act on it. The same invariant shows     *)
(* that the callers of SafePush and Close never wait in a circle, and that  *)
(* whoever returns from Close leaves a closed connector.                    *)
(***************************************************************************)
EXTENDS Connector, SequenceTheorems, TLAPS

USE ConnectorAssumption

Critical == {"test", "set", "close", "unlock"}

InCall          == \A p \in Pushers : ppc[p] # "idle" => msg[p] \in Messages
ReadersHoldLock == \A p \in Pushers : p \in rlocked <=> ppc[p] \in {"check", "send", "runlock"}
OneWriter       == \A q \in Closers : cpc[q] \in {"wait"} \cup Critical => wlock = q
WriterExcludes  == \A q \in Closers : cpc[q] \in Critical => rlocked = {}
ChecksHold      == /\ \A p \in Pushers : ppc[p] = "send" => ~isClosed
                   /\ \A q \in Closers : cpc[q] = "set" => ~isClosed
                   /\ \A q \in Closers : cpc[q] = "close" => isClosed /\ ~chanClosed
                   /\ ~isClosed => ~chanClosed

LockInv == ReadersHoldLock /\ OneWriter /\ WriterExcludes /\ ChecksHold /\ NoPanic

\* A new connector satisfies the invariant.
LEMMA InitOK == Init => TypeOK /\ InCall /\ LockInv
<1> SUFFICES ASSUME Init PROVE TypeOK /\ InCall /\ LockInv
  OBVIOUS
<1>1. TypeOK
  <2>1. <<>> \in Seq(Messages) /\ Len(<<>>) = 0
    OBVIOUS
  <2>2. 0 <= OutBufSize
    OBVIOUS
  <2> QED
    BY <2>1, <2>2 DEF Init, TypeOK, PushPCs, ClosePCs
<1>2. InCall /\ LockInv
  BY DEF Init, InCall, LockInv, ReadersHoldLock, OneWriter, WriterExcludes, ChecksHold, NoPanic, Critical
<1> QED
  BY <1>1, <1>2

\* Every pusher inside SafePush has a message; the channel never holds more
\* than its capacity.
LEMMA TypeStep == TypeOK /\ InCall /\ [Next]_vars => TypeOK' /\ InCall'
<1> SUFFICES ASSUME TypeOK, InCall, [Next]_vars PROVE TypeOK' /\ InCall'
  OBVIOUS
<1> USE DEF TypeOK, InCall, PushPCs, ClosePCs, pushVars, lockVars, chanVars, ToClose
<1>1. ASSUME NEW p \in Pushers, NEW m \in Messages, CallPush(p, m) PROVE TypeOK' /\ InCall'
  BY <1>1 DEF CallPush
<1>2. ASSUME NEW p \in Pushers, RLock(p) PROVE TypeOK' /\ InCall'
  BY <1>2 DEF RLock
<1>3. ASSUME NEW p \in Pushers, CheckClosed(p) PROVE TypeOK' /\ InCall'
  BY <1>3 DEF CheckClosed
<1>4. ASSUME NEW p \in Pushers, TrySend(p) PROVE TypeOK' /\ InCall'
  <2>1. msg[p] \in Messages
    BY <1>4 DEF TrySend
  <2>2. Append(outChan, msg[p]) \in Seq(Messages) /\ Len(Append(outChan, msg[p])) = Len(outChan) + 1
    BY <2>1, AppendProperties
  <2>3. Len(outChan) \in Nat
    BY LenProperties
  <2> QED
    BY <1>4, <2>2, <2>3 DEF TrySend
<1>5. ASSUME NEW p \in Pushers, RUnlock(p) PROVE TypeOK' /\ InCall'
  BY <1>5 DEF RUnlock
<1>6. ASSUME NEW q \in Closers, CallClose(q) PROVE TypeOK' /\ InCall'
  BY <1>6 DEF CallClose
<1>7. ASSUME NEW q \in Closers, LockAnnounce(q) PROVE TypeOK' /\ InCall'
  BY <1>7 DEF LockAnnounce
<1>8. ASSUME NEW q \in Closers, LockAcquire(q) PROVE TypeOK' /\ InCall'
  BY <1>8 DEF LockAcquire
<1>9. ASSUME NEW q \in Closers, TestClosed(q) PROVE TypeOK' /\ InCall'
  BY <1>9 DEF TestClosed
<1>10. ASSUME NEW q \in Closers, SetClosed(q) PROVE TypeOK' /\ InCall'
  BY <1>10 DEF SetClosed
<1>11. ASSUME NEW q \in Closers, CloseChan(q) PROVE TypeOK' /\ InCall'
  BY <1>11 DEF CloseChan
<1>12. ASSUME NEW q \in Closers, Unlock(q) PROVE TypeOK' /\ InCall'
  BY <1>12 DEF Unlock
<1>13. ASSUME NEW q \in Closers, Hangup(q) PROVE TypeOK' /\ InCall'
  BY <1>13 DEF Hangup
<1>14. ASSUME Recv PROVE TypeOK' /\ InCall'
  <2>1. Tail(outChan) \in Seq(Messages) /\ Len(Tail(outChan)) = Len(outChan) - 1
    BY <1>14, HeadTailProperties DEF Recv
  <2>2. Len(outChan) \in Nat
    BY LenProperties
  <2> QED
    BY <1>14, <2>1, <2>2 DEF Recv
<1>15. CASE UNCHANGED vars
  BY <1>15 DEF vars
<1> QED
  BY <1>1, <1>2, <1>3, <1>4, <1>5, <1>6, <1>7, <1>8, <1>9, <1>10, <1>11, <1>12, <1>13, <1>14, <1>15
     DEF Next, PushStep, CloseStep

\* The lock protects what is read under it.
LEMMA LockStep == TypeOK /\ LockInv /\ [Next]_vars => LockInv'
<1> SUFFICES ASSUME TypeOK, LockInv, [Next]_vars PROVE LockInv'
  OBVIOUS
<1> USE DEF LockInv, ReadersHoldLock, OneWriter, WriterExcludes, ChecksHold, NoPanic, Critical,
            TypeOK, PushPCs, ClosePCs, pushVars, lockVars, chanVars, ToClose
<1>1. ASSUME NEW p \in Pushers, NEW m \in Messages, CallPush(p, m) PROVE LockInv'
  BY <1>1 DEF CallPush
<1>2. ASSUME NEW p \in Pushers, RLock(p) PROVE LockInv'
  BY <1>2 DEF RLock
<1>3. ASSUME NEW p \in Pushers, CheckClosed(p) PROVE LockInv'
  BY <1>3 DEF CheckClosed
<1>4. ASSUME NEW p \in Pushers, TrySend(p) PROVE LockInv'
  BY <1>4 DEF TrySend
<1>5. ASSUME NEW p \in Pushers, RUnlock(p) PROVE LockInv'
  BY <1>5 DEF RUnlock
<1>6. ASSUME NEW q \in Closers, CallClose(q) PROVE LockInv'
  BY <1>6 DEF CallClose
<1>7. ASSUME NEW q \in Closers, LockAnnounce(q) PROVE LockInv'
  BY <1>7 DEF LockAnnounce
<1>8. ASSUME NEW q \in Closers, LockAcquire(q) PROVE LockInv'
  BY <1>8 DEF LockAcquire
<1>9. ASSUME NEW q \in Closers, TestClosed(q) PROVE LockInv'
  BY <1>9 DEF TestClosed
<1>10. ASSUME NEW q \in Closers, SetClosed(q) PROVE LockInv'
  BY <1>10 DEF SetClosed
<1>11. ASSUME NEW q \in Closers, CloseChan(q) PROVE LockInv'
  BY <1>11 DEF CloseChan
<1>12. ASSUME NEW q \in Closers, Unlock(q) PROVE LockInv'
  BY <1>12 DEF Unlock
<1>13. ASSUME NEW q \in Closers, Hangup(q) PROVE LockInv'
  BY <1>13 DEF Hangup
<1>14. ASSUME Recv PROVE LockInv'
  BY <1>14 DEF Recv
<1>15. CASE UNCHANGED vars
  BY <1>15 DEF vars
<1> QED
  BY <1>1, <1>2, <1>3, <1>4, <1>5, <1>6, <1>7, <1>8, <1>9, <1>10, <1>11, <1>12, <1>13, <1>14, <1>15
     DEF Next, PushStep, CloseStep

-----------------------------------------------------------------------------
\* The connector is well typed in every reachable state, its channel never
\* above its capacity.
THEOREM ConnectorTypeCorrect == Spec => []TypeOK
  BY InitOK, TypeStep, PTL DEF Spec

\* Nothing is ever sent on a closed channel, and no channel closed twice.
THEOREM SendNeverPanics == Spec => []NoPanic
<1>1. (TypeOK /\ InCall /\ LockInv) /\ [Next]_vars => (TypeOK /\ InCall /\ LockInv)'
  BY TypeStep, LockStep
<1>2. LockInv => NoPanic
  BY DEF LockInv
<1> QED
  BY InitOK, <1>1, <1>2, PTL DEF Spec

-----------------------------------------------------------------------------
\* The abstract state of the calls, as the refinement mapping gives it.
CallState == [p \in Pushers |-> PushState(p)]

\* The initial connector is an empty, open drop queue.
LEMMA InitRefines == Init => Abstract!QueueInit
  BY DEF Init, Abstract!QueueInit, PushState

\* The test of isClosed decides a call on a closed connector, the select decides
\* the others; close(outChan) is invisible after the flag was set.
LEMMA StepRefines ==
  TypeOK /\ InCall /\ LockInv /\ [Next]_vars => [Abstract!QueueNext]_(Abstract!queueVars)
<1> SUFFICES ASSUME TypeOK, InCall, LockInv, [Next]_vars
             PROVE  Abstract!QueueNext \/ UNCHANGED <<outChan, isClosed, CallState, msg>>
  BY DEF Abstract!queueVars, CallState
<1> USE DEF TypeOK, PushPCs, ClosePCs, pushVars, lockVars, chanVars, ToClose
<1>1. ASSUME NEW p \in Pushers, NEW m \in Messages, CallPush(p, m) PROVE Abstract!QueueNext
  <2>1. CallState[p] = "none" /\ CallState' = [CallState EXCEPT ![p] = "pending"]
    BY <1>1 DEF CallPush, CallState, PushState
  <2>2. Abstract!Invoke(p, m)
    BY <1>1, <2>1 DEF CallPush, Abstract!Invoke, CallState
  <2> QED
    BY <2>2 DEF Abstract!QueueNext
<1>2. ASSUME NEW p \in Pushers, RLock(p) PROVE UNCHANGED <<outChan, isClosed, CallState, msg>>
  BY <1>2 DEF RLock, CallState, PushState
<1>3. ASSUME NEW p \in Pushers, CheckClosed(p)
      PROVE  Abstract!QueueNext \/ UNCHANGED <<outChan, isClosed, CallState, msg>>
  <2>1. CASE isClosed
    <3>1. CallState[p] = "pending" /\ CallState' = [CallState EXCEPT ![p] = "refused"]
      BY <1>3, <2>1 DEF CheckClosed, CallState, PushState
    <3>2. Abstract!Decide(p)
      BY <1>3, <2>1, <3>1 DEF CheckClosed, Abstract!Decide, CallState
    <3> QED
      BY <3>2 DEF Abstract!QueueNext
  <2>2. CASE ~isClosed
    BY <1>3, <2>2 DEF CheckClosed, CallState, PushState
  <2> QED
    BY <2>1, <2>2
<1>4. ASSUME NEW p \in Pushers, TrySend(p) PROVE Abstract!QueueNext
  <2>1. ~isClosed /\ ~chanClosed
    BY <1>4 DEF TrySend, LockInv, ChecksHold
  <2>2. CASE Len(outChan) < OutBufSize
    <3>1. CallState[p] = "pending" /\ CallState' = [CallState EXCEPT ![p] = "accepted"]
      BY <1>4, <2>1, <2>2 DEF TrySend, CallState, PushState
    <3>2. Abstract!Decide(p)
      BY <1>4, <2>1, <2>2, <3>1 DEF TrySend, Abstract!Decide, CallState
    <3> QED
      BY <3>2 DEF Abstract!QueueNext
  <2>3. CASE ~(Len(outChan) < OutBufSize)
    <3>1. CallState[p] = "pending" /\ CallState' = [CallState EXCEPT ![p] = "refused"]
      BY <1>4, <2>1, <2>3 DEF TrySend, CallState, PushState
    <3>2. Abstract!Decide(p)
      BY <1>4, <2>1, <2>3, <3>1 DEF TrySend, Abstract!Decide, CallState
    <3> QED
      BY <3>2 DEF Abstract!QueueNext
  <2> QED
    BY <2>2, <2>3
<1>5. ASSUME NEW p \in Pushers, RUnlock(p) PROVE Abstract!QueueNext
  <2>1. /\ CallState[p] \in {"accepted", "refused"}
        /\ CallState' = [CallState EXCEPT ![p] = "none"]
    BY <1>5 DEF RUnlock, CallState, PushState
  <2>2. Abstract!Return(p)
    BY <1>5, <2>1 DEF RUnlock, Abstract!Return, CallState
  <2> QED
    BY <2>2 DEF Abstract!QueueNext
<1>6. ASSUME NEW q \in Closers,
             \/ CallClose(q) \/ LockAnnounce(q) \/ LockAcquire(q) \/ TestClosed(q)
             \/ CloseChan(q) \/ Unlock(q) \/ Hangup(q)
      PROVE  UNCHANGED <<outChan, isClosed, CallState, msg>>
  BY <1>6 DEF CallClose, LockAnnounce, LockAcquire, TestClosed, CloseChan, Unlock, Hangup,
              CallState, PushState
<1>7. ASSUME NEW q \in Closers, SetClosed(q) PROVE Abstract!QueueNext
  <2>1. UNCHANGED CallState
    BY <1>7 DEF SetClosed, CallState, PushState
  <2>2. Abstract!Shut
    BY <1>7, <2>1 DEF SetClosed, Abstract!Shut, CallState
  <2> QED
    BY <2>2 DEF Abstract!QueueNext
<1>8. ASSUME Recv PROVE Abstract!QueueNext
  <2>1. UNCHANGED CallState
    BY <1>8 DEF Recv, CallState, PushState
  <2>2. Abstract!Receive
    BY <1>8, <2>1 DEF Recv, Abstract!Receive, CallState
  <2> QED
    BY <2>2 DEF Abstract!QueueNext
<1>9. CASE UNCHANGED vars
  BY <1>9 DEF vars, CallState, PushState
<1> QED
  BY <1>1, <1>2, <1>3, <1>4, <1>5, <1>6, <1>7, <1>8, <1>9 DEF Next, PushStep, CloseStep

\* SafePush and Close are a bounded queue with calls that take effect at once.
THEOREM ConnectorImplementsDropQueue == Spec => ImplementsDropQueue
<1>1. (TypeOK /\ InCall /\ LockInv) /\ [Next]_vars => (TypeOK /\ InCall /\ LockInv)'
  BY TypeStep, LockStep
<1> QED
  BY InitOK, InitRefines, StepRefines, <1>1, PTL
     DEF Spec, ImplementsDropQueue, Abstract!QueueSpec

-----------------------------------------------------------------------------
(* Nobody waits in a circle. *)

\* The writer that holds readers back is inside Close.
WriterInside == wlock # Nobody => cpc[wlock] \in {"wait"} \cup Critical

\* What a call needs to go on: the guards of PushStep and CloseStep.
PushGoes(p)  == ppc[p] \in {"check", "send", "runlock"} \/ (ppc[p] = "rlock" /\ wlock = Nobody)
CloseGoes(q) == \/ cpc[q] \in Critical \cup {"hangup"}
                \/ cpc[q] = "lock" /\ wlock = Nobody
                \/ cpc[q] = "wait" /\ rlocked = {}

\* Whoever waits, waits for a writer or for readers that can go on, or for a
\* writer that waits for such readers: never for somebody who waits for him.
ReadersGo     == \E p \in rlocked : PushGoes(p)
WriterGoes    == wlock \in Closers /\ (CloseGoes(wlock) \/ (cpc[wlock] = "wait" /\ ReadersGo))
NoWaitCircle  == /\ \A p \in Pushers : ppc[p] # "idle" => PushGoes(p) \/ WriterGoes
                 /\ \A q \in Closers : cpc[q] \notin {"idle", "done"} =>
                      CloseGoes(q) \/ WriterGoes

\* Close has closed when it returns, and a connector that is closed was hung up
\* or has a closer on its way to do it.
CloseDone == /\ \A q \in Closers : cpc[q] \in {"close", "unlock", "hangup", "done"} => isClosed
             /\ isClosed => hungUp \/ \E q \in Closers : cpc[q] \in {"close", "unlock", "hangup"}

\* Both are kept by every step.
LEMMA WaitStep ==
  TypeOK /\ LockInv /\ WriterInside /\ CloseDone /\ [Next]_vars => WriterInside' /\ CloseDone'
<1> SUFFICES ASSUME TypeOK, LockInv, WriterInside, CloseDone, [Next]_vars
             PROVE  WriterInside' /\ CloseDone'
  OBVIOUS
<1>0. UNCHANGED <<cpc, wlock, isClosed, hungUp>> => WriterInside' /\ CloseDone'
  BY DEF WriterInside, CloseDone
<1> USE DEF WriterInside, CloseDone, LockInv, OneWriter, Critical, TypeOK, ClosePCs, pushVars,
            lockVars, chanVars, ToClose
<1>1. ASSUME NEW p \in Pushers, PushStep(p) \/ \E m \in Messages : CallPush(p, m)
      PROVE  WriterInside' /\ CloseDone'
  BY <1>0, <1>1 DEF PushStep, CallPush, RLock, CheckClosed, TrySend, RUnlock
<1>2. ASSUME NEW q \in Closers, CallClose(q) PROVE WriterInside' /\ CloseDone'
  BY <1>2 DEF CallClose
<1>3. ASSUME NEW q \in Closers, LockAnnounce(q) PROVE WriterInside' /\ CloseDone'
  BY <1>3 DEF LockAnnounce
<1>4. ASSUME NEW q \in Closers, LockAcquire(q) PROVE WriterInside' /\ CloseDone'
  BY <1>4 DEF LockAcquire
<1>5. ASSUME NEW q \in Closers, TestClosed(q) PROVE WriterInside' /\ CloseDone'
  BY <1>5 DEF TestClosed
<1>6. ASSUME NEW q \in Closers, SetClosed(q) PROVE WriterInside' /\ CloseDone'
  BY <1>6 DEF SetClosed
<1>7. ASSUME NEW q \in Closers, CloseChan(q) PROVE WriterInside' /\ CloseDone'
  BY <1>7 DEF CloseChan
<1>8. ASSUME NEW q \in Closers, Unlock(q) PROVE WriterInside' /\ CloseDone'
  BY <1>8 DEF Unlock
<1>9. ASSUME NEW q \in Closers, Hangup(q) PROVE WriterInside' /\ CloseDone'
  BY <1>9 DEF Hangup
<1>10. ASSUME Recv \/ UNCHANGED vars PROVE WriterInside' /\ CloseDone'
  BY <1>0, <1>10 DEF Recv, vars
<1> QED
  BY <1>1, <1>2, <1>3, <1>4, <1>5, <1>6, <1>7, <1>8, <1>9, <1>10 DEF Next, CloseStep

\* Initially nobody is inside a call.
LEMMA WaitInit == Init => WriterInside /\ CloseDone
  BY DEF Init, WriterInside, CloseDone

\* The lock is never the cause that everybody waits: as long as a SafePush or a
\* Close is under way, it can go on or waits for one that can.
THEOREM LockNeverStuck == Spec => []NoWaitCircle
<1>1. TypeOK /\ LockInv /\ WriterInside => NoWaitCircle
  <2> SUFFICES ASSUME TypeOK, LockInv, WriterInside, wlock # Nobody PROVE WriterGoes
    BY DEF NoWaitCircle, PushGoes, CloseGoes, WriterGoes, ReadersGo, TypeOK, PushPCs, ClosePCs,
       LockInv, ReadersHoldLock, OneWriter, Critical
  <2>1. wlock \in Closers /\ cpc[wlock] \in {"wait"} \cup Critical
    BY DEF TypeOK, WriterInside
  <2>2. ASSUME rlocked # {} PROVE ReadersGo
    BY <2>2 DEF ReadersGo, PushGoes, LockInv, ReadersHoldLock, TypeOK
  <2> QED
    BY <2>1, <2>2 DEF WriterGoes, CloseGoes
<1> QED
  BY <1>1, InitOK, TypeStep, LockStep, WaitInit, WaitStep, PTL DEF Spec

\* When a Close has returned the connector is closed for every later SafePush, and
\* no connector stays closed without a goroutine that hangs up its WebSocket.
THEOREM CloseLeavesClosed == Spec => []CloseDone
  BY InitOK, TypeStep, LockStep, WaitInit, WaitStep, PTL DEF Spec
=============================================================================
