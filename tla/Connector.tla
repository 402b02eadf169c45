------------------------------ MODULE Connector ------------------------------
(***************************************************************************)
(* One WSConnector (internal/network/ws_connector.go) at the level of its   *)
(* lock: the flag isClosed and the channel outChan, guarded by a            *)
(* sync.RWMutex. SafePush, called by the read loops of any number of        *)
(* senders, tests the flag and sends under the read lock; Close, called by  *)
(* the connection's own two goroutines, sets the flag and closes the        *)
(* channel under the write lock, and hangs up the WebSocket after it. The   *)
(* write pump receives without any lock. Go panics when a goroutine sends   *)
(* on a closed channel or closes it twice.                                  *)
(***************************************************************************)
EXTENDS Integers, Sequences, FiniteSets

CONSTANTS Pushers,    \* goroutines that call SafePush
          Closers,    \* goroutines that call Close
          Messages,
          OutBufSize, \* capacity of outChan
          Nobody      \* no goroutine, no message

ASSUME ConnectorAssumption ==
  /\ OutBufSize \in Nat \ {0}
  /\ Nobody \notin Pushers \cup Closers \cup Messages

VARIABLES ppc, msg,     \* each pusher's position in SafePush, and its message
          pushed,       \* what its select decided
          cpc,          \* each closer's position in Close
          rlocked,      \* pushers that hold the read lock
          wlock,        \* the closer inside mu.Lock or holding it, or Nobody
          isClosed,
          outChan, chanClosed,
          hungUp,       \* conn.Close was called
          panicked

pushVars == <<ppc, msg, pushed>>
lockVars == <<rlocked, wlock>>
chanVars == <<outChan, chanClosed>>
vars     == <<pushVars, cpc, lockVars, isClosed, chanVars, hungUp, panicked>>

PushPCs  == {"idle", "rlock", "check", "send", "runlock"}
ClosePCs == {"idle", "lock", "wait", "test", "set", "close", "unlock", "hangup", "done"}

\* NewWSConnector.
Init == /\ ppc = [p \in Pushers |-> "idle"]
        /\ msg = [p \in Pushers |-> Nobody]
        /\ pushed = [p \in Pushers |-> FALSE]
        /\ cpc = [q \in Closers |-> "idle"]
        /\ rlocked = {} /\ wlock = Nobody
        /\ isClosed = FALSE
        /\ outChan = <<>> /\ chanClosed = FALSE
        /\ hungUp = FALSE /\ panicked = FALSE

-----------------------------------------------------------------------------
(* SafePush. *)

CallPush(p, m) ==
  /\ ppc[p] = "idle"
  /\ msg' = [msg EXCEPT ![p] = m]
  /\ ppc' = [ppc EXCEPT ![p] = "rlock"]
  /\ UNCHANGED <<pushed, cpc, lockVars, isClosed, chanVars, hungUp, panicked>>

\* A fault of SafePush: the flag is read, and the send is made, without a lock.
RLockNothing(p) ==
  /\ ppc[p] = "rlock"
  /\ ppc' = [ppc EXCEPT ![p] = "check"]
  /\ UNCHANGED <<msg, pushed, cpc, lockVars, isClosed, chanVars, hungUp, panicked>>

\* mu.RLock: held back by a writer that waits for the lock or holds it.
RLock(p) ==
  /\ ppc[p] = "rlock" /\ wlock = Nobody
  /\ rlocked' = rlocked \cup {p}
  /\ ppc' = [ppc EXCEPT ![p] = "check"]
  /\ UNCHANGED <<msg, pushed, cpc, wlock, isClosed, chanVars, hungUp, panicked>>

\* if c.isClosed: refuse.
CheckClosed(p) ==
  /\ ppc[p] = "check"
  /\ ppc' = [ppc EXCEPT ![p] = IF isClosed THEN "runlock" ELSE "send"]
  /\ pushed' = [pushed EXCEPT ![p] = FALSE]
  /\ UNCHANGED <<msg, cpc, lockVars, isClosed, chanVars, hungUp, panicked>>

\* Faults of SafePush: it blocks until there is room; it takes one message too
\* many; one place of the buffer is never used.
TrySendWaits(p) ==
  /\ ppc[p] = "send" /\ Len(outChan) < OutBufSize
  /\ outChan' = Append(outChan, msg[p])
  /\ pushed' = [pushed EXCEPT ![p] = TRUE]
  /\ ppc' = [ppc EXCEPT ![p] = "runlock"]
  /\ UNCHANGED <<msg, cpc, lockVars, isClosed, chanClosed, hungUp, panicked>>

TrySendUnbounded(p) ==
  /\ ppc[p] = "send"
  /\ outChan' = IF Len(outChan) <= OutBufSize THEN Append(outChan, msg[p]) ELSE outChan
  /\ pushed' = [pushed EXCEPT ![p] = TRUE]
  /\ ppc' = [ppc EXCEPT ![p] = "runlock"]
  /\ UNCHANGED <<msg, cpc, lockVars, isClosed, chanClosed, hungUp, panicked>>

TrySendEarlyFull(p) ==
  /\ ppc[p] = "send"
  /\ LET room == Len(outChan) < OutBufSize - 1 IN
       /\ outChan' = IF room THEN Append(outChan, msg[p]) ELSE outChan
       /\ pushed' = [pushed EXCEPT ![p] = room]
  /\ ppc' = [ppc EXCEPT ![p] = "runlock"]
  /\ UNCHANGED <<msg, cpc, lockVars, isClosed, chanClosed, hungUp, panicked>>

\* select: send if the channel has room, refuse otherwise.
TrySend(p) ==
  /\ ppc[p] = "send"
  /\ LET room == Len(outChan) < OutBufSize /\ ~chanClosed IN
       /\ outChan' = IF room THEN Append(outChan, msg[p]) ELSE outChan
       /\ pushed' = [pushed EXCEPT ![p] = room]
  /\ panicked' = (panicked \/ chanClosed)
  /\ ppc' = [ppc EXCEPT ![p] = "runlock"]
  /\ UNCHANGED <<msg, cpc, lockVars, isClosed, chanClosed, hungUp>>

\* The deferred mu.RUnlock, and return.
RUnlock(p) ==
  /\ ppc[p] = "runlock"
  /\ rlocked' = rlocked \ {p}
  /\ ppc' = [ppc EXCEPT ![p] = "idle"]
  /\ msg' = [msg EXCEPT ![p] = Nobody]
  /\ pushed' = [pushed EXCEPT ![p] = FALSE]
  /\ UNCHANGED <<cpc, wlock, isClosed, chanVars, hungUp, panicked>>

(* Close. *)

ToClose(q, pc) == cpc' = [cpc EXCEPT ![q] = pc]

CallClose(q) ==
  /\ cpc[q] = "idle"
  /\ ToClose(q, "lock")
  /\ UNCHANGED <<pushVars, lockVars, isClosed, chanVars, hungUp, panicked>>

\* mu.Lock: one writer at a time holds back new readers, ...
LockAnnounce(q) ==
  /\ cpc[q] = "lock" /\ wlock = Nobody
  /\ wlock' = q
  /\ ToClose(q, "wait")
  /\ UNCHANGED <<pushVars, rlocked, isClosed, chanVars, hungUp, panicked>>

\* ... and waits for the readers there are.
LockAcquire(q) ==
  /\ cpc[q] = "wait" /\ rlocked = {}
  /\ ToClose(q, "test")
  /\ UNCHANGED <<pushVars, lockVars, isClosed, chanVars, hungUp, panicked>>

\* if c.isClosed: unlock and return.
TestClosed(q) ==
  /\ cpc[q] = "test"
  /\ IF isClosed
     THEN wlock' = Nobody /\ ToClose(q, "done")
     ELSE ToClose(q, "set") /\ UNCHANGED wlock
  /\ UNCHANGED <<pushVars, rlocked, isClosed, chanVars, hungUp, panicked>>

SetClosed(q) ==
  /\ cpc[q] = "set"
  /\ isClosed' = TRUE
  /\ ToClose(q, "close")
  /\ UNCHANGED <<pushVars, lockVars, chanVars, hungUp, panicked>>

\* close(c.outChan).
CloseChan(q) ==
  /\ cpc[q] = "close"
  /\ panicked' = (panicked \/ chanClosed)
  /\ chanClosed' = TRUE
  /\ ToClose(q, "unlock")
  /\ UNCHANGED <<pushVars, lockVars, isClosed, outChan, hungUp>>

Unlock(q) ==
  /\ cpc[q] = "unlock"
  /\ wlock' = Nobody
  /\ ToClose(q, "hangup")
  /\ UNCHANGED <<pushVars, rlocked, isClosed, chanVars, hungUp, panicked>>

\* conn.Close, outside the lock.
Hangup(q) ==
  /\ cpc[q] = "hangup"
  /\ hungUp' = TRUE
  /\ ToClose(q, "done")
  /\ UNCHANGED <<pushVars, lockVars, isClosed, chanVars, panicked>>

(* The write pump: a receive of range outChan. *)
Recv ==
  /\ outChan # <<>>
  /\ outChan' = Tail(outChan)
  /\ UNCHANGED <<pushVars, cpc, lockVars, isClosed, chanClosed, hungUp, panicked>>

PushStep(p)  == RLock(p) \/ CheckClosed(p) \/ TrySend(p) \/ RUnlock(p)
CloseStep(q) == \/ LockAnnounce(q) \/ LockAcquire(q) \/ TestClosed(q) \/ SetClosed(q)
                \/ CloseChan(q) \/ Unlock(q) \/ Hangup(q)

Next == \/ \E p \in Pushers : PushStep(p) \/ \E m \in Messages : CallPush(p, m)
        \/ \E q \in Closers : CloseStep(q) \/ CallClose(q)
        \/ Recv

Spec == Init /\ [][Next]_vars

\* A call that has begun goes on when it can. Nobody has to call, and the write
\* pump need not receive.
FairSpec == /\ Spec
            /\ \A p \in Pushers : WF_vars(PushStep(p))
            /\ \A q \in Closers : WF_vars(CloseStep(q))

-----------------------------------------------------------------------------
\* Type invariant.
TypeOK == /\ ppc \in [Pushers -> PushPCs]
          /\ msg \in [Pushers -> Messages \cup {Nobody}]
          /\ pushed \in [Pushers -> BOOLEAN]
          /\ cpc \in [Closers -> ClosePCs]
          /\ rlocked \subseteq Pushers /\ wlock \in Closers \cup {Nobody}
          /\ isClosed \in BOOLEAN /\ chanClosed \in BOOLEAN
          /\ hungUp \in BOOLEAN /\ panicked \in BOOLEAN
          /\ outChan \in Seq(Messages) /\ Len(outChan) <= OutBufSize

\* No SafePush sends on a channel that Close has closed, and no second Close
\* closes it again, however the calls of several goroutines interleave.
NoPanic == ~panicked

\* SafePush and Close implement the bounded queue: each call takes effect at one
\* point, and a push is refused only if the queue is full or closed then.
PushState(p) == CASE ppc[p] = "idle" -> "none"
                  [] ppc[p] \in {"rlock", "check", "send"} -> "pending"
                  [] OTHER -> IF pushed[p] THEN "accepted" ELSE "refused"

Abstract == INSTANCE DropQueue WITH
              queue <- outChan, closed <- isClosed,
              call <- [p \in Pushers |-> PushState(p)], arg <- msg,
              Capacity <- OutBufSize, Nothing <- Nobody
ImplementsDropQueue == Abstract!QueueSpec

\* SafePush returns, whether or not anybody receives: it never blocks its caller.
\* Close returns however many pushes keep coming, and afterwards the WebSocket
\* is hung up by one of its callers.
CallsReturn == /\ \A p \in Pushers : ppc[p] = "rlock" ~> ppc[p] = "idle"
               /\ \A q \in Closers : cpc[q] = "lock" ~> cpc[q] = "done"
               /\ isClosed ~> hungUp
=============================================================================
