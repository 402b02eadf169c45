------------------------------- MODULE Clients -------------------------------
(***************************************************************************)
(* The load generators against the server's registry. cmd/churntest         *)
(* (runChurnClient) dials, stays online for a while, leaves and dials again *)
(* until its context is cancelled; cmd/loadtest (runConnector) dials once.  *)
(* Each has a read goroutine beside its write loop, and main prints totals  *)
(* when all have returned. Every dial becomes a connection of the server    *)
(* whose handler (Server.wsHandler) runs on its own time: it may accept     *)
(* after the client gave up, and notice late that the client left. Both     *)
(* name their clients C1, C2, ...: run against one server at once, a client *)
(* of each has the same key. What the frames say is in Frame and Relay.     *)
(***************************************************************************)
EXTENDS Registry

CONSTANTS Clients,  \* the clients of both programs
          Churners, \* those of churntest; the others are loadtest's
          Casts     \* bound: which client dials which connections

ASSUME ClientsAssumption == /\ Churners \subseteq Clients
                            /\ Casts \subseteq [Conns -> Clients \cup {None}]

VARIABLES
  owner,     \* the client that may dial a connection
  link,      \* a connection as wsHandler sees it, before OnConnect
  broken,    \* connections closed by the client, or failed
  loop,      \* where a client's loop is
  reader,    \* where its read goroutine is
  conn,      \* its current connection
  cancelled, \* ctx of a program
  summary,   \* main has loaded and printed the totals
  late       \* what a client added to the totals after that

clientVars == <<loop, reader, conn>>
mainVars   == <<cancelled, summary>>
vars       == <<regVars, owner, link, broken, clientVars, mainVars, late>>

Tools       == {"churn", "load"}
ToolOf(a)   == IF a \in Churners THEN "churn" ELSE "load"
Cancelled(a) == cancelled[ToolOf(a)]
Members(t)  == {a \in Clients : ToolOf(a) = t}

Links   == {"unused", "asked", "upgraded", "refused"}
Loops   == {"start", "dialing", "retry", "online", "close", "join", "offline",
            "drop", "dropped", "done"}
Readers == {"none", "read", "got", "failed", "counting", "done"}

ClientsInit ==
  /\ RegInit
  /\ link = [c \in Conns |-> "unused"] /\ broken = {}
  /\ owner \in Casts
  /\ loop = [a \in Clients |-> IF \E c \in Conns : owner[c] = a THEN "start" ELSE "done"]
  /\ reader = [a \in Clients |-> "none"]
  /\ conn = [a \in Clients |-> None]
  /\ cancelled = [t \in Tools |-> FALSE] /\ summary = [t \in Tools |-> FALSE]
  /\ late = [a \in Clients |-> 0]

\* The client function returned: wg.Done.
Ended(a) == loop[a] \in {"dropped", "done"}

\* A fault: the reads get a context that nobody cancels.
ReadNeverCancelled(a) == FALSE

\* The context of the reads: a child of ctx, cancelled when the loop is left.
ReadCancelled(a) == Cancelled(a) \/ loop[a] \in {"close", "join", "drop", "dropped", "done"}

\* totalSent, totalRecv or totalErr Add(1).
Count(a) == late' = [late EXCEPT ![a] = IF summary[ToolOf(a)] THEN @ + 1 ELSE @]

-----------------------------------------------------------------------------
(* The loop of a client. *)

Goto(a, l) == loop' = [loop EXCEPT ![a] = l]

\* A dial that failed: churntest waits and tries again, loadtest returns.
GiveUp(a) == Count(a) /\ Goto(a, IF a \in Churners THEN "retry" ELSE "done")

Fresh(a) == {c \in Conns : owner[c] = a /\ link[c] = "unused"}

\* websocket.Dial: the request is on its way. Or nobody answers.
Dial(a) ==
  /\ loop[a] = "start" /\ ~Cancelled(a) /\ Fresh(a) # {}
  /\ LET c == CHOOSE c \in Fresh(a) : TRUE IN
       /\ link' = [link EXCEPT ![c] = "asked"]
       /\ conn' = [conn EXCEPT ![a] = c]
  /\ Goto(a, "dialing")
  /\ UNCHANGED <<regVars, owner, broken, reader, mainVars, late>>

Unreachable(a) ==
  /\ loop[a] = "start" /\ ~Cancelled(a)
  /\ GiveUp(a)
  /\ UNCHANGED <<regVars, owner, link, broken, reader, conn, mainVars>>

\* Dial returns a connection, which may have failed since; the reader starts.
DialOK(a) ==
  /\ loop[a] = "dialing" /\ link[conn[a]] = "upgraded"
  /\ Goto(a, "online")
  /\ reader' = [reader EXCEPT ![a] = "read"]
  /\ UNCHANGED <<regVars, owner, link, broken, conn, mainVars, late>>

\* A fault: an attempt that is given up is left open.
DialFailOpen(a) ==
  /\ loop[a] = "dialing"
  /\ conn' = [conn EXCEPT ![a] = None]
  /\ GiveUp(a)
  /\ UNCHANGED <<regVars, owner, link, broken, reader, mainVars>>

\* The five seconds of dctx ran out, ctx was cancelled, or the server refused:
\* the attempt is closed, whatever the handler makes of it.
DialFail(a) ==
  /\ loop[a] = "dialing"
  /\ broken' = broken \cup {conn[a]}
  /\ conn' = [conn EXCEPT ![a] = None]
  /\ GiveUp(a)
  /\ UNCHANGED <<regVars, owner, link, reader, mainVars>>

\* The waits of churntest end with their timer, or with ctx: then it returns.
Wait(a) ==
  /\ loop[a] \in {"retry", "offline"}
  /\ Goto(a, "start") \/ (Cancelled(a) /\ Goto(a, "done"))
  /\ UNCHANGED <<regVars, owner, link, broken, reader, conn, mainVars, late>>

\* ctx is done before a dial.
Quit(a) ==
  /\ loop[a] = "start" /\ Cancelled(a)
  /\ Goto(a, "done")
  /\ UNCHANGED <<regVars, owner, link, broken, reader, conn, mainVars, late>>

\* conn.Write returned nil, and totalSent.Add.
Send(a) ==
  /\ loop[a] = "online" /\ conn[a] \notin broken
  /\ Count(a)
  /\ UNCHANGED <<regVars, owner, link, broken, clientVars, mainVars>>

\* conn.Write failed: churntest leaves the loop, loadtest returns at once.
SendFail(a) ==
  /\ loop[a] = "online" /\ (conn[a] \in broken \/ Cancelled(a))
  /\ Count(a)
  /\ Goto(a, IF a \in Churners THEN "close" ELSE "drop")
  /\ UNCHANGED <<regVars, owner, link, broken, reader, conn, mainVars>>

\* ctx is done, or churntest's time online is over: the reads are cancelled.
\* loadtest waits for its reader before it closes, churntest closes first.
Stop(a) ==
  /\ loop[a] = "online" /\ (a \in Churners \/ Cancelled(a))
  /\ Goto(a, IF a \in Churners THEN "close" ELSE "join")
  /\ UNCHANGED <<regVars, owner, link, broken, reader, conn, mainVars, late>>

\* A fault: churntest goes on without <-readDone.
CloseConnNoWait(a) ==
  /\ loop[a] \in {"close", "drop"}
  /\ broken' = broken \cup {conn[a]}
  /\ Goto(a, IF loop[a] = "drop" THEN "dropped" ELSE IF a \in Churners THEN "offline" ELSE "done")
  /\ UNCHANGED <<regVars, owner, link, reader, conn, mainVars, late>>

\* conn.Close. After a failed write loadtest does not wait for its reader.
CloseConn(a) ==
  /\ loop[a] \in {"close", "drop"}
  /\ broken' = broken \cup {conn[a]}
  /\ Goto(a, IF loop[a] = "drop" THEN "dropped" ELSE IF a \in Churners THEN "join" ELSE "done")
  /\ UNCHANGED <<regVars, owner, link, reader, conn, mainVars, late>>

\* <-readDone, wg.Wait.
Join(a) ==
  /\ loop[a] = "join" /\ reader[a] = "done"
  /\ Goto(a, IF a \in Churners THEN "offline" ELSE "close")
  /\ UNCHANGED <<regVars, owner, link, broken, reader, conn, mainVars, late>>

-----------------------------------------------------------------------------
(* Its read goroutine. *)

\* conn.Read returned a frame that passes the checks; totalRecv.Add follows.
ReadOK(a) ==
  /\ reader[a] = "read" /\ conn[a] \notin broken
  /\ reader' = [reader EXCEPT ![a] = "got"]
  /\ UNCHANGED <<regVars, owner, link, broken, loop, conn, mainVars, late>>

CountRecv(a) ==
  /\ reader[a] = "got"
  /\ Count(a)
  /\ reader' = [reader EXCEPT ![a] = "read"]
  /\ UNCHANGED <<regVars, owner, link, broken, loop, conn, mainVars>>

\* conn.Read failed; a read whose context is cancelled closes the connection.
ReadFail(a) ==
  /\ reader[a] = "read" /\ (conn[a] \in broken \/ ReadCancelled(a))
  /\ broken' = broken \cup {conn[a]}
  /\ reader' = [reader EXCEPT ![a] = IF a \in Churners THEN "done" ELSE "failed"]
  /\ UNCHANGED <<regVars, owner, link, loop, conn, mainVars, late>>

\* loadtest: an error after readCtx ended is none; the others are counted.
ReadCheck(a) ==
  /\ reader[a] = "failed"
  /\ reader' = [reader EXCEPT ![a] = IF ReadCancelled(a) THEN "done" ELSE "counting"]
  /\ UNCHANGED <<regVars, owner, link, broken, loop, conn, mainVars, late>>

CountError(a) ==
  /\ reader[a] = "counting"
  /\ Count(a)
  /\ reader' = [reader EXCEPT ![a] = "done"]
  /\ UNCHANGED <<regVars, owner, link, broken, loop, conn, mainVars>>

-----------------------------------------------------------------------------
(* The server's handler of a connection, and the network. *)

serverVars == <<owner, link, broken, clientVars, mainVars, late>>

\* websocket.Accept answers, also when the client no longer listens; it may
\* fail then, and the handler returns.
Upgrade(c) ==
  /\ link[c] = "asked"
  /\ link' = [link EXCEPT ![c] = "upgraded"]
  /\ UNCHANGED <<regVars, owner, broken, clientVars, mainVars, late>>

Refuse(c) ==
  /\ link[c] = "asked" /\ c \in broken
  /\ link' = [link EXCEPT ![c] = "refused"]
  /\ UNCHANGED <<regVars, owner, broken, clientVars, mainVars, late>>

Connect(c)      == link[c] = "upgraded" /\ OnConnectSwap(c) /\ UNCHANGED serverVars
ConnectCount(c) == OnConnectAdd(c) /\ UNCHANGED serverVars

\* The read loop ends when reading from the connection fails.
Disconnect(c)      == c \in broken /\ OnDisconnectDelete(c) /\ UNCHANGED serverVars
DisconnectCount(c) == OnDisconnectAdd(c) /\ UNCHANGED serverVars

\* The connection fails, or the server's write pump gave it up.
Break(c) ==
  /\ link[c] = "upgraded" /\ c \notin broken
  /\ broken' = broken \cup {c}
  /\ UNCHANGED <<regVars, owner, link, clientVars, mainVars, late>>

-----------------------------------------------------------------------------
(* main. *)

\* A signal, or the duration is over.
Cancel(t) ==
  /\ ~cancelled[t]
  /\ cancelled' = [cancelled EXCEPT ![t] = TRUE]
  /\ UNCHANGED <<regVars, owner, link, broken, clientVars, summary, late>>

\* wg.Wait returned: the totals are loaded and printed.
Summarise(t) ==
  /\ cancelled[t] /\ ~summary[t] /\ \A a \in Members(t) : Ended(a)
  /\ summary' = [summary EXCEPT ![t] = TRUE]
  /\ UNCHANGED <<regVars, owner, link, broken, clientVars, cancelled, late>>

-----------------------------------------------------------------------------
LoopStep(a) == \/ Dial(a) \/ Unreachable(a) \/ DialOK(a) \/ DialFail(a) \/ Wait(a) \/ Quit(a)
               \/ Send(a) \/ SendFail(a) \/ Stop(a) \/ CloseConn(a) \/ Join(a)

ReaderStep(a) == ReadOK(a) \/ CountRecv(a) \/ ReadFail(a) \/ ReadCheck(a) \/ CountError(a)

HandlerStep(c) == \/ Upgrade(c) \/ Refuse(c) \/ Connect(c) \/ ConnectCount(c)
                  \/ Disconnect(c) \/ DisconnectCount(c)

ClientsNext == \/ \E a \in Clients : LoopStep(a) \/ ReaderStep(a)
               \/ \E c \in Conns : HandlerStep(c) \/ Break(c)
               \/ \E t \in Tools : Cancel(t) \/ Summarise(t)

ClientsSpec == ClientsInit /\ [][ClientsNext]_vars

\* Goroutines that can run do, timers run out, Dial returns within its five
\* seconds. A select with ctx.Done ready takes it in the end, and a read with a
\* cancelled context, or from a closed connection, fails in the end. Nothing
\* makes anyone cancel, or the network fail.
LoopFairness    == \A a \in Clients : WF_vars(LoopStep(a)) /\ SF_vars(Stop(a))
ReaderFairness  == \A a \in Clients : WF_vars(ReaderStep(a)) /\ SF_vars(ReadFail(a))
HandlerFairness == \A c \in Conns : WF_vars(HandlerStep(c))
MainFairness    == \A t \in Tools : WF_vars(Summarise(t))

FairClients == ClientsSpec /\ LoopFairness /\ ReaderFairness /\ HandlerFairness /\ MainFairness

-----------------------------------------------------------------------------
\* Type invariant.
ClientsTypeOK ==
  /\ RegTypeOK
  /\ owner \in Casts
  /\ link \in [Conns -> Links] /\ broken \subseteq Conns
  /\ loop \in [Clients -> Loops] /\ reader \in [Clients -> Readers]
  /\ conn \in [Clients -> Conns \cup {None}]
  /\ cancelled \in [Tools -> BOOLEAN] /\ summary \in [Tools -> BOOLEAN]
  /\ late \in [Clients -> Nat]

\* The totals that main prints when all clients have returned are final, except
\* that a loadtest client which returned from a failed write has left its reader
\* running, and that reader may add one more: the frame it had in hand or the
\* error it had already looked at, never both.
LateCounts == \A a \in Clients : late[a] <= IF loop[a] = "dropped" THEN 1 ELSE 0

\* After a cancel every client returns, wherever it is in its cycle and whatever
\* the server does, and main gets to its summary.
CancelEnds == \A t \in Tools : cancelled[t] ~> summary[t]

\* When all clients have returned, the registry empties: no attempt that was
\* given up, accepted late or overtaken by the next stays in it, or in the count.
Drains == (\A t \in Tools : summary[t]) ~> (Registered = {} /\ connCount = 0)

\* Comunication.md says that a frame is delivered to its recipients if they are
\* online: a client whose connection is up on both sides would be registered.
OnlineIsReachable ==
  \A a \in Clients : loop[a] = "online" /\ conn[a] \notin broken /\ life[conn[a]] = "online"
                       => KeyOf[conn[a]] \in Registered
=============================================================================
