---------------------------- MODULE ClientsProofs ----------------------------
(***************************************************************************)
(* Theorems about Clients, for any finite set of connections, any clients   *)
(* of both programs and any assignment of the dials to them.                *)
(*                                                                         *)
(* Whatever the clients do, and whenever the server notices, the registry   *)
(* is changed only by its own operations, so the theorems of RegistryProofs *)
(* hold. The counts that come late need StageOK: where the reader may be at *)
(* each position of the loop, and that a reader left behind finds its       *)
(* connection closed. And what is left of the claim that online clients are *)
(* reachable: it holds for a client whose key nobody else takes.            *)
(***************************************************************************)
EXTENDS Clients, RegistryProofs

USE RegistryAssumption, ClientsAssumption

-----------------------------------------------------------------------------
(* The clients and the registry. *)

\* What is not a step of a handler leaves the registry alone.
LEMMA OthersSpareRegistry ==
  /\ \A a \in Clients : LoopStep(a) \/ ReaderStep(a) => UNCHANGED regVars
  /\ \A c \in Conns : Break(c) \/ Upgrade(c) \/ Refuse(c) => UNCHANGED regVars
  /\ \A t \in Tools : Cancel(t) \/ Summarise(t) => UNCHANGED regVars
  BY DEF LoopStep, ReaderStep, Dial, Unreachable, DialOK, DialFail, Wait, Quit, Send, SendFail,
     Stop, CloseConn, Join, ReadOK, CountRecv, ReadFail, ReadCheck, CountError, Break, Upgrade,
     Refuse, Cancel, Summarise

\* A step of clients and handlers is a step of the registry or leaves it alone.
LEMMA ClientsStepOfRegistry == [ClientsNext]_vars => [RegNext]_regVars
<1> SUFFICES ASSUME [ClientsNext]_vars PROVE [RegNext]_regVars
  OBVIOUS
<1>1. ASSUME NEW c \in Conns, Connect(c) \/ ConnectCount(c) \/ Disconnect(c) \/ DisconnectCount(c)
      PROVE  RegNext
  BY <1>1 DEF Connect, ConnectCount, Disconnect, DisconnectCount, RegNext
<1>2. CASE UNCHANGED vars
  BY <1>2 DEF vars
<1> QED
  BY <1>1, <1>2, OthersSpareRegistry DEF ClientsNext, HandlerStep

\* The load generators use the registry as Registry says.
THEOREM ClientsUseRegistry == ClientsSpec => RegSpec
<1>1. ClientsInit => RegInit
  BY DEF ClientsInit
<1> QED
  BY <1>1, ClientsStepOfRegistry, PTL DEF ClientsSpec, RegSpec

\* Dials given up, accepted late and overtaken leave no stale entry, do not make
\* the counter drift, and are seen as joining and leaving an atomic directory.
THEOREM ClientsRegistryCorrect ==
  ClientsSpec => [](NoStaleEntry /\ CountTracksRegistry) /\ ImplementsDirectory
  BY ClientsUseRegistry, RegistryNeverStale, CountIsExact, RegistryImplementsDirectory, PTL

-----------------------------------------------------------------------------
(* Type correctness and the late counts. *)

\* Where the reader may be while the loop is somewhere, which connection both
\* have, and what may have been counted late.
StageOK(a) ==
  /\ loop[a] \in {"start", "retry", "dialing", "offline", "done"} => reader[a] \in {"none", "done"}
  /\ loop[a] \in {"dialing", "online", "close", "join", "drop", "dropped"} => conn[a] \in Conns
  /\ loop[a] = "close" /\ a \notin Churners => reader[a] \in {"none", "done"}
  /\ loop[a] = "dropped" => conn[a] \in broken
  /\ summary[ToolOf(a)] => Ended(a)
  /\ late[a] # 0 => /\ late[a] = 1 /\ loop[a] = "dropped" /\ summary[ToolOf(a)]
                    /\ reader[a] \in {"read", "failed", "done"}

ClientsInv == ClientsTypeOK /\ \A a \in Clients : StageOK(a)

\* Two programs, and every client is of one of them.
LEMMA ToolKnown == \A a : ToolOf(a) \in Tools
  BY DEF ToolOf, Tools

\* At first nobody has dialled.
LEMMA ClientsInvInit == ClientsInit => ClientsInv
<1> SUFFICES ASSUME ClientsInit PROVE ClientsInv
  OBVIOUS
<1>1. ClientsTypeOK
  <2>1. RegTypeOK
    BY RegInitOK DEF ClientsInit
  <2>2. \A a \in Clients : loop[a] \in {"start", "done"}
    BY DEF ClientsInit
  <2> QED
    BY <2>1, <2>2 DEF ClientsInit, ClientsTypeOK, Links, Loops, Readers, Tools
<1>2. ASSUME NEW a \in Clients PROVE StageOK(a)
  BY ToolKnown DEF ClientsInit, StageOK
<1> QED
  BY <1>1, <1>2 DEF ClientsInv

\* What a step may do to the state of a client it does not take.
StandsBy(b) == /\ loop'[b] = loop[b] /\ reader'[b] = reader[b] /\ conn'[b] = conn[b]
               /\ late'[b] = late[b]
               /\ broken \subseteq broken'
               /\ summary'[ToolOf(b)] = summary[ToolOf(b)]

\* A client that stands by keeps its stage.
LEMMA StageStandsBy == \A b : StageOK(b) /\ StandsBy(b) => StageOK(b)'
  BY DEF StageOK, StandsBy, Ended, ToolOf

\* The parts of the type invariant that clients and handlers change.
ClientTypes ==
  /\ link \in [Conns -> Links] /\ broken \subseteq Conns
  /\ loop \in [Clients -> Loops] /\ reader \in [Clients -> Readers]
  /\ conn \in [Clients -> Conns \cup {None}]
  /\ late \in [Clients -> Nat]
MainTypes == cancelled \in [Tools -> BOOLEAN] /\ summary \in [Tools -> BOOLEAN]

\* A step of the loop of a client keeps its types and its stage, and the other
\* clients stand by.
LEMMA LoopStepKeeps ==
  ASSUME ClientTypes, MainTypes, NEW a \in Clients, StageOK(a), LoopStep(a)
  PROVE  ClientTypes' /\ StageOK(a)' /\ \A b \in Clients \ {a} : StandsBy(b)
<1> USE DEF ClientTypes, MainTypes, StageOK, StandsBy, Links, Loops, Readers, Ended
<1>1. CASE Dial(a)
  BY <1>1, ToolKnown DEF Dial, Goto, Fresh, clientVars, mainVars, ToolOf
<1>2. CASE Unreachable(a)
  BY <1>2, ToolKnown DEF Unreachable, GiveUp, Count, Goto, clientVars, mainVars, ToolOf
<1>3. CASE DialOK(a)
  BY <1>3, ToolKnown DEF DialOK, Goto, clientVars, mainVars, ToolOf
<1>4. CASE DialFail(a)
  BY <1>4, ToolKnown DEF DialFail, GiveUp, Count, Goto, clientVars, mainVars, ToolOf
<1>5. CASE Wait(a)
  BY <1>5, ToolKnown DEF Wait, Goto, clientVars, mainVars, ToolOf
<1>6. CASE Quit(a)
  BY <1>6, ToolKnown DEF Quit, Goto, clientVars, mainVars, ToolOf
<1>7. CASE Send(a)
  BY <1>7, ToolKnown DEF Send, Count, clientVars, mainVars, ToolOf
<1>8. CASE SendFail(a)
  BY <1>8, ToolKnown DEF SendFail, Count, Goto, clientVars, mainVars, ToolOf
<1>9. CASE Stop(a)
  BY <1>9, ToolKnown DEF Stop, Goto, clientVars, mainVars, ToolOf
<1>10. CASE CloseConn(a)
  BY <1>10, ToolKnown DEF CloseConn, Goto, clientVars, mainVars, ToolOf
<1>11. CASE Join(a)
  BY <1>11, ToolKnown DEF Join, Goto, clientVars, mainVars, ToolOf
<1> QED
  BY <1>1, <1>2, <1>3, <1>4, <1>5, <1>6, <1>7, <1>8, <1>9, <1>10, <1>11 DEF LoopStep

\* A step of its reader does, too.
LEMMA ReaderStepKeeps ==
  ASSUME ClientTypes, MainTypes, NEW a \in Clients, StageOK(a), ReaderStep(a)
  PROVE  ClientTypes' /\ StageOK(a)' /\ \A b \in Clients \ {a} : StandsBy(b)
<1> USE DEF ClientTypes, MainTypes, StageOK, StandsBy, Links, Loops, Readers, Ended
<1>1. CASE ReadOK(a)
  BY <1>1, ToolKnown DEF ReadOK, mainVars, ToolOf
<1>2. CASE CountRecv(a)
  BY <1>2, ToolKnown DEF CountRecv, Count, mainVars, ToolOf
<1>3. CASE ReadFail(a)
  BY <1>3, ToolKnown DEF ReadFail, mainVars, ToolOf
<1>4. CASE ReadCheck(a)
  BY <1>4, ToolKnown DEF ReadCheck, ReadCancelled, Cancelled, mainVars, ToolOf
<1>5. CASE CountError(a)
  BY <1>5, ToolKnown DEF CountError, Count, mainVars, ToolOf
<1> QED
  BY <1>1, <1>2, <1>3, <1>4, <1>5 DEF ReaderStep

\* In a step of a handler or of the network all clients stand by.
LEMMA HandlerStepKeeps ==
  ASSUME ClientTypes, NEW c \in Conns, HandlerStep(c) \/ Break(c)
  PROVE  ClientTypes' /\ \A b \in Clients : StandsBy(b)
<1> USE DEF ClientTypes, StandsBy, Links
<1>1. CASE Upgrade(c) \/ Refuse(c)
  BY <1>1 DEF Upgrade, Refuse, clientVars, mainVars
<1>2. CASE Connect(c) \/ ConnectCount(c) \/ Disconnect(c) \/ DisconnectCount(c)
  BY <1>2 DEF Connect, ConnectCount, Disconnect, DisconnectCount, serverVars, clientVars, mainVars
<1>3. CASE Break(c)
  BY <1>3 DEF Break, clientVars, mainVars
<1> QED
  BY <1>1, <1>2, <1>3 DEF HandlerStep

\* main sums up only when its clients have ended.
LEMMA MainStepKeeps ==
  ASSUME ClientTypes, MainTypes, NEW t \in Tools, Cancel(t) \/ Summarise(t),
         NEW b \in Clients, StageOK(b)
  PROVE  ClientTypes' /\ StageOK(b)'
<1>1. CASE Cancel(t)
  <2>1. StandsBy(b)
    BY <1>1 DEF Cancel, StandsBy, clientVars
  <2> QED
    BY <1>1, <2>1, StageStandsBy DEF Cancel, ClientTypes, clientVars
<1>2. CASE Summarise(t)
  <2>1. summary'[ToolOf(b)] => summary[ToolOf(b)] \/ Ended(b)
    BY <1>2 DEF Summarise, Members, MainTypes
  <2>2. summary[ToolOf(b)] => summary'[ToolOf(b)]
    BY <1>2, ToolKnown DEF Summarise, MainTypes
  <2>3. UNCHANGED <<link, broken, loop, reader, conn, late>>
    BY <1>2 DEF Summarise, clientVars
  <2> QED
    BY <2>1, <2>2, <2>3 DEF StageOK, Ended, ClientTypes, ToolOf
<1> QED
  BY <1>1, <1>2

\* The flags of the programs keep their type, and the assignment of dials stays.
LEMMA MainTypesStep ==
  MainTypes /\ [ClientsNext]_vars => MainTypes' /\ owner' = owner
  BY DEF MainTypes, ClientsNext, LoopStep, ReaderStep, HandlerStep, Dial, Unreachable, DialOK,
     DialFail, Wait, Quit, Send, SendFail, Stop, CloseConn, Join, ReadOK, CountRecv, ReadFail,
     ReadCheck, CountError, Upgrade, Refuse, Connect, ConnectCount, Disconnect, DisconnectCount,
     Break, Cancel, Summarise, serverVars, mainVars, vars

\* Every step keeps the invariant.
LEMMA ClientsInvStep == ClientsInv /\ [ClientsNext]_vars => ClientsInv'
<1> SUFFICES ASSUME ClientsInv, [ClientsNext]_vars PROVE ClientsInv'
  OBVIOUS
<1>1. /\ RegTypeOK /\ owner \in Casts /\ ClientTypes /\ MainTypes
      /\ \A a \in Clients : StageOK(a)
  BY DEF ClientsInv, ClientsTypeOK, ClientTypes, MainTypes
<1>2. RegTypeOK' /\ owner' \in Casts /\ MainTypes'
  BY <1>1, ClientsStepOfRegistry, RegTypeStep, MainTypesStep
<1>3. ClientTypes' /\ \A b \in Clients : StageOK(b)'
  <2>1. ASSUME NEW a \in Clients, LoopStep(a) \/ ReaderStep(a)
        PROVE  ClientTypes' /\ \A b \in Clients : StageOK(b)'
    BY <1>1, <2>1, LoopStepKeeps, ReaderStepKeeps, StageStandsBy
  <2>2. ASSUME NEW c \in Conns, HandlerStep(c) \/ Break(c)
        PROVE  ClientTypes' /\ \A b \in Clients : StageOK(b)'
    BY <1>1, <2>2, HandlerStepKeeps, StageStandsBy
  <2>3. ASSUME NEW t \in Tools, Cancel(t) \/ Summarise(t)
        PROVE  ClientTypes' /\ \A b \in Clients : StageOK(b)'
    <3>1. ClientTypes'
      BY <1>1, <2>3 DEF Cancel, Summarise, ClientTypes, clientVars
    <3> QED
      BY <1>1, <2>3, <3>1, MainStepKeeps
  <2>4. CASE UNCHANGED vars
    BY <1>1, <2>4 DEF vars, clientVars, mainVars, ClientTypes, StageOK, Ended, ToolOf
  <2> QED
    BY <2>1, <2>2, <2>3, <2>4 DEF ClientsNext
<1> QED
  BY <1>2, <1>3 DEF ClientsInv, ClientsTypeOK, ClientTypes, MainTypes

\* Clients, readers, handlers and the registry are well typed.
THEOREM ClientsTypeCorrect == ClientsSpec => []ClientsTypeOK
<1>1. ClientsInv => ClientsTypeOK
  BY DEF ClientsInv
<1> QED
  BY <1>1, ClientsInvInit, ClientsInvStep, PTL DEF ClientsSpec

\* The totals printed are final but for one count of a reader left behind.
THEOREM TotalsNearlyFinal == ClientsSpec => []LateCounts
<1>1. ClientsInv => LateCounts
  BY DEF ClientsInv, StageOK, LateCounts, ClientsTypeOK
<1> QED
  BY <1>1, ClientsInvInit, ClientsInvStep, PTL DEF ClientsSpec

\* Comunication.md's claim, with the condition under which it holds: a client that
\* is connected at both ends can be found under its key, if no other connector of
\* that key has connected.
SoleOnlineReachable ==
  \A a \in Clients :
    loop[a] = "online" /\ life[conn[a]] = "online" /\ Sole(conn[a])
      => GetConnectorByKey(KeyOf[conn[a]]) = conn[a] /\ KeyOf[conn[a]] \in Registered

\* So what OnlineIsReachable misses is the takeover of a key, and only that: a
\* client with a key of its own, that dials once, is found while it is connected.
THEOREM SoleClientIsReachable == ClientsSpec => []SoleOnlineReachable
<1>1. ClientsInv /\ SoleReachable => SoleOnlineReachable
  <2> SUFFICES ASSUME ClientsInv, SoleReachable, NEW a \in Clients, loop[a] = "online",
                      life[conn[a]] = "online", Sole(conn[a])
               PROVE  connectors[KeyOf[conn[a]]] = conn[a] /\ KeyOf[conn[a]] \in Registered
    BY DEF SoleOnlineReachable, GetConnectorByKey
  <2>1. conn[a] \in Conns
    BY DEF ClientsInv, StageOK
  <2>2. connectors[KeyOf[conn[a]]] = conn[a]
    BY <2>1 DEF SoleReachable
  <2>3. KeyOf[conn[a]] \in PubKeys /\ conn[a] # None
    BY <2>1, RegistryAssumption
  <2> QED
    BY <2>2, <2>3 DEF Registered, GetConnectorByKey
<1> QED
  BY <1>1, ClientsInvInit, ClientsInvStep, ClientsUseRegistry, SoleIsRegistered, PTL DEF ClientsSpec
=============================================================================
