----------------------------- MODULE RelayProofs -----------------------------
(***************************************************************************)
(* Theorems about Relay, for every finite set of connections and keys, any *)
(* frames, any capacity of the queues and any number of messages.          *)
(*                                                                         *)
(* First, the relay changes the registry only through the registry's own   *)
(* operations, so every theorem of RegistryProofs holds of the relay.      *)
(*                                                                         *)
(* Then three invariants, each of which needs the one before:              *)
(* ControlOK: at which positions a goroutine holds a message.              *)
(* AudienceOK: who has a message is of a key it was addressed to, and the  *)
(* list was erased before; OnlyToRecipients follows.                       *)
(* UniqueOK: one connection of a key has a message, at one place, and what *)
(* a read loop is about to push is with nobody of that key; OncePerKey     *)
(* follows, and RelayDeliveryProofs needs it.                              *)
(*                                                                         *)
(* Last, the relay uses its connectors as DropQueue allows: the abstraction *)
(* that Connector implements is the one that the relay is built on.        *)
(***************************************************************************)
EXTENDS Relay, RegistryProofs

USE RelayAssumption

-----------------------------------------------------------------------------
(* The relay and its registry. *)

\* A step of the relay is a step of the registry or leaves it alone.
LEMMA RelayStepOfRegistry == [RelayNext]_vars => [RegNext]_regVars
<1> SUFFICES ASSUME [RelayNext]_vars PROVE [RegNext]_regVars
  OBVIOUS
<1>1. ASSUME NEW c \in Conns, ReaderStep(c) PROVE [RegNext]_regVars
  BY <1>1 DEF ReaderStep, RegNext, AcceptCount, Leave, LeaveCount, StartLoop, Handle,
     Lookup, HandleDone, DeliverRetain, DeliverPush, DeliverUndo, ReleaseOwn,
     ReaderClose, ReaderHangup
<1>2. ASSUME NEW c \in Conns, PeerStep(c) PROVE [RegNext]_regVars
  BY <1>2 DEF PeerStep, RegNext, Accept, ReadFrame, ReadInvalid, ReadError
<1>3. ASSUME NEW c \in Conns, PumpStep(c) PROVE UNCHANGED regVars
  BY <1>3 DEF PumpStep, PumpRecv, PumpExit, PumpWriteOK, PumpWriteFail, PumpCountSuccess,
     PumpCountFailure, PumpClose, PumpHangup, PumpDrain
<1>4. CASE UNCHANGED vars
  BY <1>4 DEF vars
<1> QED
  BY <1>1, <1>2, <1>3, <1>4 DEF RelayNext

\* The relay, with all its connections, pumps and messages, behaves towards the
\* registry as Registry says.
THEOREM RelayImplementsRegistry == RelaySpec => RegSpec
<1>1. RelayInit => RegInit
  BY DEF RelayInit
<1> QED
  BY <1>1, RelayStepOfRegistry, PTL DEF RelaySpec, RegSpec

\* In the relay, too, a key resolves only to a connector of that key that has
\* not left, and the counter is exact up to the counts still to be made.
THEOREM RelayRegistryCorrect == RelaySpec => [](NoStaleEntry /\ CountTracksRegistry)
  BY RelayImplementsRegistry, RegistryNeverStale, CountIsExact, PTL

-----------------------------------------------------------------------------
(* Type correctness. *)

\* The positions at which a read loop owns a message, those at which it also
\* has the connector it looked up, and where a write pump owns one. Outside its
\* loop over the targets HandleMessage has no connector.
Routing   == {"handle", "lookup", "retain", "push", "undo", "release"}
Resolved  == {"retain", "push", "undo"}

ControlOK ==
  \A c \in Conns :
    /\ cur[c] # NoMsg <=> rpc[c] \in Routing
    /\ rpc[c] \in Resolved => dest[c] \in Conns
    /\ rpc[c] \notin {"lookup"} \cup Resolved => dest[c] = None
    /\ hand[c] # NoMsg <=> wpc[c] = "write"
    /\ rpc[c] = "idle" <=> wpc[c] = "none"

TypeInv == RelayTypeOK /\ ControlOK

\* The type invariant by groups of variables.
ReaderTypes == /\ rpc \in [Conns -> ReaderPCs] /\ cur \in [Conns -> Msgs \cup {NoMsg}]
               /\ targets \in [Conns -> SUBSET PubKeys]
               /\ dest \in [Conns -> Conns \cup {None}]
               /\ matched \in [Conns -> BOOLEAN]
PumpTypes   == /\ wpc \in [Conns -> PumpPCs] /\ hand \in [Conns -> Msgs \cup {NoMsg}]
               /\ wire \in [Conns -> Seq(Msgs)]
ConnTypes   == /\ isClosed \in [Conns -> BOOLEAN] /\ hungUp \in [Conns -> BOOLEAN]
               /\ outChan \in [Conns -> Seq(Msgs)]
BufTypes    == /\ received \in 0..MaxMsgs /\ refs \in [Msgs -> Int]
               /\ from \in [Msgs -> Conns \cup {None}] /\ to \in [Msgs -> SUBSET PubKeys]
               /\ stripped \in [Msgs -> BOOLEAN]
CountTypes  == processed \in Nat /\ delivered \in Nat /\ noRecip \in Nat

\* The parts make up the type invariant, before and after a step.
LEMMA TypeParts ==
  RelayTypeOK <=> /\ RegTypeOK /\ ReaderTypes /\ PumpTypes /\ ConnTypes
                  /\ BufTypes /\ CountTypes
  BY DEF RelayTypeOK, ReaderTypes, PumpTypes, ConnTypes, BufTypes, CountTypes

\* The same, after a step.
LEMMA TypePartsNext ==
  RelayTypeOK' <=> /\ RegTypeOK' /\ ReaderTypes' /\ PumpTypes' /\ ConnTypes'
                   /\ BufTypes' /\ CountTypes'
  BY DEF RelayTypeOK, ReaderTypes, PumpTypes, ConnTypes, BufTypes, CountTypes

\* The initial relay is well typed.
LEMMA TypeInvInit == RelayInit => TypeInv
  BY RegInitOK DEF RelayInit, TypeInv, RelayTypeOK, ControlOK, ReaderPCs, PumpPCs,
     Routing, Resolved, NoMsg, Msgs

\* The variables of the read loops keep their types.
LEMMA ReaderTypesStep ==
  ASSUME RegTypeOK, ReaderTypes, PumpTypes, ConnTypes, BufTypes, CountTypes, ControlOK,
         [RelayNext]_vars
  PROVE  ReaderTypes'
<1> USE DEF ReaderTypes
<1>0. ASSUME UNCHANGED readerVars PROVE ReaderTypes'
  BY <1>0 DEF readerVars
<1>1. ASSUME NEW c \in Conns, StartLoop(c) \/ ReadInvalid(c) \/ ReadError(c) PROVE ReaderTypes'
  <2>1. CASE StartLoop(c)
    BY <2>1 DEF StartLoop, ReaderPCs
  <2>2. CASE ReadInvalid(c)
    BY <2>2 DEF ReadInvalid, ReaderPCs
  <2>3. CASE ReadError(c)
    BY <2>3 DEF ReadError, ReaderPCs
  <2> QED
    BY <1>1, <2>1, <2>2, <2>3
<1>2. ASSUME NEW c \in Conns, ReadFrame(c) PROVE ReaderTypes'
  <2>1. received + 1 \in Msgs
    BY <1>2 DEF ReadFrame, BufTypes, Msgs
  <2>2. /\ rpc' = [rpc EXCEPT ![c] = "handle"] /\ cur' = [cur EXCEPT ![c] = received + 1]
        /\ UNCHANGED <<targets, dest, matched>>
    BY <1>2 DEF ReadFrame
  <2> QED
    BY <2>1, <2>2 DEF ReaderPCs
<1>3. ASSUME NEW c \in Conns, Handle(c) PROVE ReaderTypes'
  <2>1. CASE to[cur[c]] \ {KeyOf[c]} = {}
    BY <1>3, <2>1 DEF Handle, ReaderPCs
  <2>2. CASE to[cur[c]] \ {KeyOf[c]} # {}
    <3>1. /\ targets' = [targets EXCEPT ![c] = to[cur[c]] \ {KeyOf[c]}]
          /\ matched' = [matched EXCEPT ![c] = FALSE]
          /\ rpc' = [rpc EXCEPT ![c] = "lookup"]
          /\ UNCHANGED <<cur, dest>>
      BY <1>3, <2>2 DEF Handle
    <3>2. to[cur[c]] \ {KeyOf[c]} \in SUBSET PubKeys
      <4>1. rpc[c] = "handle"
        BY <1>3 DEF Handle
      <4>2. cur[c] \in Msgs
        BY <4>1 DEF ControlOK, Routing
      <4> QED
        BY <4>2 DEF BufTypes
    <3>3. targets' \in [Conns -> SUBSET PubKeys]
      BY <3>1, <3>2
    <3> QED
      BY <3>1, <3>3 DEF ReaderPCs
  <2> QED
    BY <2>1, <2>2
<1>4. ASSUME NEW c \in Conns, Lookup(c) PROVE ReaderTypes'
  <2>1. PICK k \in targets[c] :
          /\ targets' = [targets EXCEPT ![c] = @ \ {k}]
          /\ dest' = [dest EXCEPT ![c] = connectors[k]]
          /\ rpc' = [rpc EXCEPT ![c] = IF connectors[k] # None THEN "retain" ELSE "lookup"]
    BY <1>4 DEF Lookup, GetConnectorByKey, Registered
  <2>2. connectors[k] \in Conns \cup {None} /\ targets[c] \ {k} \in SUBSET PubKeys
    BY <2>1 DEF RegTypeOK
  <2>3. cur' = cur /\ matched' = matched
    BY <1>4 DEF Lookup
  <2> QED
    BY <2>1, <2>2, <2>3 DEF ReaderPCs
<1>5. ASSUME NEW c \in Conns, HandleDone(c) \/ DeliverRetain(c) \/ DeliverUndo(c) PROVE ReaderTypes'
  <2>1. CASE HandleDone(c)
    BY <2>1 DEF HandleDone, ReaderPCs
  <2>2. CASE DeliverRetain(c)
    BY <2>2 DEF DeliverRetain, Retain, ReaderPCs
  <2>3. CASE DeliverUndo(c)
    BY <2>3 DEF DeliverUndo, Release, ReaderPCs
  <2> QED
    BY <1>5, <2>1, <2>2, <2>3
<1>6. ASSUME NEW c \in Conns, DeliverPush(c) PROVE ReaderTypes'
  <2>1. UNCHANGED <<cur, targets, dest>>
    BY <1>6 DEF DeliverPush
  <2>2. /\ rpc' = [rpc EXCEPT ![c] = "lookup"] \/ rpc' = [rpc EXCEPT ![c] = "undo"]
        /\ matched' = [matched EXCEPT ![c] = TRUE] \/ matched' = matched
    BY <1>6 DEF DeliverPush
  <2> QED
    BY <2>1, <2>2 DEF ReaderPCs
<1>7. ASSUME NEW c \in Conns, ReleaseOwn(c) PROVE ReaderTypes'
  BY <1>7 DEF ReleaseOwn, Release, ReaderPCs
<1>8. ASSUME NEW c \in Conns, ReaderClose(c) \/ ReaderHangup(c) PROVE ReaderTypes'
  <2>1. CASE ReaderClose(c)
    BY <2>1 DEF ReaderClose, ReaderPCs
  <2>2. CASE ReaderHangup(c)
    BY <2>2 DEF ReaderHangup, ReaderPCs
  <2> QED
    BY <1>8, <2>1, <2>2
<1>9. ASSUME NEW c \in Conns, ReaderStep(c) \/ PeerStep(c),
             ~(StartLoop(c) \/ ReadInvalid(c) \/ ReadError(c) \/ ReadFrame(c) \/ Handle(c) \/ Lookup(c)
                \/ HandleDone(c) \/ DeliverRetain(c) \/ DeliverUndo(c) \/ DeliverPush(c)
                \/ ReleaseOwn(c) \/ ReaderClose(c) \/ ReaderHangup(c))
      PROVE  UNCHANGED readerVars
  BY <1>9 DEF ReaderStep, PeerStep, relayVars, Accept, AcceptCount, Leave, LeaveCount,
     readerVars
<1>10. ASSUME NEW c \in Conns, PumpStep(c)
      PROVE  UNCHANGED readerVars
  BY <1>10 DEF PumpStep, PumpRecv, PumpExit, PumpWriteOK, PumpWriteFail, PumpCountSuccess,
     PumpCountFailure, PumpClose, PumpHangup, PumpDrain, readerVars
<1>11. CASE UNCHANGED vars
  BY <1>0, <1>11 DEF vars, relayVars
<1> QED
  BY <1>0, <1>1, <1>2, <1>3, <1>4, <1>5, <1>6, <1>7, <1>8, <1>9, <1>10, <1>11
     DEF RelayNext

\* The variables of the write pumps keep their types.
LEMMA PumpTypesStep ==
  ASSUME RegTypeOK, ReaderTypes, PumpTypes, ConnTypes, BufTypes, CountTypes, ControlOK,
         [RelayNext]_vars
  PROVE  PumpTypes'
<1> USE DEF PumpTypes
<1>0. ASSUME UNCHANGED pumpVars PROVE PumpTypes'
  BY <1>0 DEF pumpVars
<1>1. ASSUME NEW c \in Conns, StartLoop(c) PROVE PumpTypes'
  BY <1>1 DEF StartLoop, PumpPCs, NoMsg
<1>2. ASSUME NEW c \in Conns, PumpRecv(c) PROVE PumpTypes'
  <2>1. /\ hand' = [hand EXCEPT ![c] = Head(outChan[c])] /\ wire' = wire
        /\ wpc' = [wpc EXCEPT ![c] = "write"] /\ outChan[c] # <<>>
    BY <1>2 DEF PumpRecv
  <2>2. Head(outChan[c]) \in Msgs
    BY <2>1 DEF ConnTypes
  <2> QED
    BY <2>1, <2>2 DEF PumpPCs
<1>3. ASSUME NEW c \in Conns, PumpWriteOK(c) PROVE PumpTypes'
  <2>1. /\ wire' = [wire EXCEPT ![c] = Append(@, hand[c])]
        /\ hand' = [hand EXCEPT ![c] = NoMsg] /\ wpc' = [wpc EXCEPT ![c] = "sent"]
        /\ wpc[c] = "write"
    BY <1>3 DEF PumpWriteOK
  <2>2. hand[c] \in Msgs
    BY <2>1 DEF ControlOK
  <2>3. Append(wire[c], hand[c]) \in Seq(Msgs)
    BY <2>2
  <2> QED
    BY <2>1, <2>3 DEF PumpPCs
<1>4. ASSUME NEW c \in Conns, PumpWriteFail(c) PROVE PumpTypes'
  BY <1>4 DEF PumpWriteFail, Release, PumpPCs, NoMsg
<1>5. ASSUME NEW c \in Conns, \/ PumpExit(c) \/ PumpClose(c) \/ PumpHangup(c)
                              \/ PumpCountSuccess(c) \/ PumpCountFailure(c)
      PROVE  PumpTypes'
  <2>1. CASE PumpExit(c)
    BY <2>1 DEF PumpExit, PumpPCs, NoMsg
  <2>2. CASE PumpClose(c)
    BY <2>2 DEF PumpClose, PumpPCs, NoMsg
  <2>3. CASE PumpHangup(c)
    BY <2>3 DEF PumpHangup, PumpPCs, NoMsg
  <2>4. CASE PumpCountSuccess(c)
    BY <2>4 DEF PumpCountSuccess, PumpPCs
  <2>5. CASE PumpCountFailure(c)
    BY <2>5 DEF PumpCountFailure, PumpPCs
  <2> QED
    BY <1>5, <2>1, <2>2, <2>3, <2>4, <2>5
<1>6. ASSUME NEW c \in Conns, ReaderStep(c) \/ PeerStep(c),
             ~(StartLoop(c))
      PROVE  UNCHANGED pumpVars
  BY <1>6 DEF ReaderStep, PeerStep, relayVars, ReadFrame, ReadInvalid, ReadError, Accept,
     AcceptCount, Handle, Lookup, HandleDone, DeliverRetain, DeliverPush, DeliverUndo,
     ReleaseOwn, Leave, LeaveCount, ReaderClose, ReaderHangup, pumpVars
<1>7. ASSUME NEW c \in Conns, PumpDrain(c) PROVE UNCHANGED pumpVars
  BY <1>7 DEF PumpDrain
<1>8. CASE UNCHANGED vars
  BY <1>0, <1>8 DEF vars, relayVars
<1> QED
  BY <1>0, <1>1, <1>2, <1>3, <1>4, <1>5, <1>6, <1>7, <1>8
     DEF RelayNext, PumpStep

\* The variables of the connections keep their types.
LEMMA ConnTypesStep ==
  ASSUME RegTypeOK, ReaderTypes, PumpTypes, ConnTypes, BufTypes, CountTypes, ControlOK,
         [RelayNext]_vars
  PROVE  ConnTypes'
<1> USE DEF ConnTypes
<1>0. ASSUME UNCHANGED connVars PROVE ConnTypes'
  BY <1>0 DEF connVars
<1>1. ASSUME NEW c \in Conns, DeliverPush(c) PROVE ConnTypes'
  <2>1. /\ outChan' = outChan \/ outChan' = [outChan EXCEPT ![dest[c]] = Append(@, cur[c])]
        /\ UNCHANGED <<isClosed, hungUp>> /\ rpc[c] = "push"
    BY <1>1 DEF DeliverPush
  <2>2. dest[c] \in Conns /\ cur[c] \in Msgs
    BY <2>1 DEF ControlOK, Resolved, Routing, ReaderTypes
  <2>3. Append(outChan[dest[c]], cur[c]) \in Seq(Msgs)
    BY <2>2
  <2> QED
    BY <2>1, <2>3
<1>2. ASSUME NEW c \in Conns, PumpRecv(c) \/ PumpDrain(c) PROVE ConnTypes'
  <2>1. /\ outChan' = [outChan EXCEPT ![c] = Tail(@)] /\ outChan[c] # <<>>
        /\ UNCHANGED <<isClosed, hungUp>>
    BY <1>2 DEF PumpRecv, PumpDrain, pumpVars
  <2>2. Tail(outChan[c]) \in Seq(Msgs)
    BY <2>1
  <2> QED
    BY <2>1, <2>2
<1>3. ASSUME NEW c \in Conns, ReadInvalid(c) \/ ReaderClose(c) \/ ReaderHangup(c) PROVE ConnTypes'
  <2>1. CASE ReadInvalid(c)
    BY <2>1 DEF ReadInvalid
  <2>2. CASE ReaderClose(c)
    BY <2>2 DEF ReaderClose
  <2>3. CASE ReaderHangup(c)
    BY <2>3 DEF ReaderHangup
  <2> QED
    BY <1>3, <2>1, <2>2, <2>3
<1>4. ASSUME NEW c \in Conns, PumpClose(c) \/ PumpHangup(c) PROVE ConnTypes'
  <2>1. CASE PumpClose(c)
    BY <2>1 DEF PumpClose
  <2>2. CASE PumpHangup(c)
    BY <2>2 DEF PumpHangup
  <2> QED
    BY <1>4, <2>1, <2>2
<1>5. ASSUME NEW c \in Conns, ReaderStep(c) \/ PeerStep(c),
             ~(DeliverPush(c) \/ ReadInvalid(c) \/ ReaderClose(c) \/ ReaderHangup(c))
      PROVE  UNCHANGED connVars
  BY <1>5 DEF ReaderStep, PeerStep, relayVars, ReadFrame, ReadError, Accept, AcceptCount,
     StartLoop, Handle, Lookup, HandleDone, DeliverRetain, DeliverUndo, ReleaseOwn, Leave,
     LeaveCount, connVars
<1>6. ASSUME NEW c \in Conns, PumpStep(c), ~(PumpRecv(c) \/ PumpDrain(c) \/ PumpClose(c) \/ PumpHangup(c))
      PROVE  UNCHANGED connVars
  BY <1>6 DEF PumpStep, PumpExit, PumpWriteOK, PumpWriteFail, PumpCountSuccess,
     PumpCountFailure, connVars
<1>7. CASE UNCHANGED vars
  BY <1>0, <1>7 DEF vars, relayVars
<1> QED
  BY <1>0, <1>1, <1>2, <1>3, <1>4, <1>5, <1>6, <1>7
     DEF RelayNext

\* A reference counter goes up or down by one and stays an integer.
LEMMA OneMore == ASSUME NEW f \in [Msgs -> Int], NEW m
                 PROVE  [f EXCEPT ![m] = @ + 1] \in [Msgs -> Int]
<1>1. CASE m \in Msgs
  <2>1. f[m] + 1 \in Int
    BY <1>1
  <2> QED
    BY <2>1
<1>2. CASE m \notin Msgs
  BY <1>2
<1> QED
  BY <1>1, <1>2

\* The same, down.
LEMMA OneLess == ASSUME NEW f \in [Msgs -> Int], NEW m
                 PROVE  [f EXCEPT ![m] = @ - 1] \in [Msgs -> Int]
<1>1. CASE m \in Msgs
  <2>1. f[m] - 1 \in Int
    BY <1>1
  <2> QED
    BY <2>1
<1>2. CASE m \notin Msgs
  BY <1>2
<1> QED
  BY <1>1, <1>2

\* The buffers keep their types.
LEMMA BufTypesStep ==
  ASSUME RegTypeOK, ReaderTypes, PumpTypes, ConnTypes, BufTypes, CountTypes, ControlOK,
         [RelayNext]_vars
  PROVE  BufTypes'
<1> USE DEF BufTypes
<1>0. ASSUME UNCHANGED bufVars PROVE BufTypes'
  BY <1>0 DEF bufVars
<1>1. ASSUME NEW c \in Conns, ReadFrame(c) PROVE BufTypes'
  <2>0. PICK n \in Msgs : n = received + 1
    BY <1>1 DEF ReadFrame, Msgs
  <2>1. /\ received' = received + 1 /\ refs' = [refs EXCEPT ![n] = 1]
        /\ from' = [from EXCEPT ![n] = c] /\ stripped' = stripped
        /\ \E ids \in Frames : to' = [to EXCEPT ![n] = ids]
        /\ received < MaxMsgs
    BY <1>1, <2>0 DEF ReadFrame
  <2>2. PICK ids \in Frames : to' = [to EXCEPT ![n] = ids]
    BY <2>1
  <2>3. ids \in SUBSET PubKeys
    OBVIOUS
  <2>4. received + 1 \in 0..MaxMsgs
    BY <2>1
  <2>5. refs' \in [Msgs -> Int]
    BY <2>1
  <2>7. from' \in [Msgs -> Conns \cup {None}]
    BY <2>1
  <2>6. to' \in [Msgs -> SUBSET PubKeys]
    BY <2>2, <2>3
  <2> QED
    BY <2>1, <2>4, <2>5, <2>6, <2>7
<1>2. ASSUME NEW c \in Conns, Handle(c) PROVE BufTypes'
  <2>1. /\ stripped' = stripped \/ stripped' = [stripped EXCEPT ![cur[c]] = TRUE]
        /\ UNCHANGED <<received, refs, from, to>>
    BY <1>2 DEF Handle
  <2> QED
    BY <2>1
<1>3. ASSUME NEW c \in Conns, DeliverRetain(c) \/ DeliverUndo(c) PROVE BufTypes'
  <2>1. /\ refs' = [refs EXCEPT ![cur[c]] = @ + 1] \/ refs' = [refs EXCEPT ![cur[c]] = @ - 1]
        /\ UNCHANGED <<received, from, to, stripped>>
    <3>1. CASE DeliverRetain(c)
      BY <3>1 DEF DeliverRetain, Retain
    <3>2. CASE DeliverUndo(c)
      BY <3>2 DEF DeliverUndo, Release
    <3> QED
      BY <1>3, <3>1, <3>2
  <2> QED
    BY <2>1, OneMore, OneLess
<1>4. ASSUME NEW c \in Conns, ReleaseOwn(c) PROVE BufTypes'
  <2>1. /\ refs' = [refs EXCEPT ![cur[c]] = @ - 1] /\ UNCHANGED <<received, from, to, stripped>>
    BY <1>4 DEF ReleaseOwn, Release
  <2> QED
    BY <2>1, OneLess
<1>5. ASSUME NEW c \in Conns, PumpWriteOK(c) \/ PumpWriteFail(c) PROVE BufTypes'
  <2>1. /\ refs' = [refs EXCEPT ![hand[c]] = @ - 1] /\ UNCHANGED <<received, from, to, stripped>>
    BY <1>5 DEF PumpWriteOK, PumpWriteFail, Release
  <2> QED
    BY <2>1, OneLess
<1>6. ASSUME NEW c \in Conns, PumpDrain(c) PROVE BufTypes'
  <2>1. /\ refs' = [refs EXCEPT ![Head(outChan[c])] = @ - 1]
        /\ UNCHANGED <<received, from, to, stripped>>
    BY <1>6 DEF PumpDrain, Release
  <2> QED
    BY <2>1, OneLess
<1>7. ASSUME NEW c \in Conns, ReaderStep(c) \/ PeerStep(c),
             ~(ReadFrame(c) \/ Handle(c) \/ DeliverRetain(c) \/ DeliverUndo(c) \/ ReleaseOwn(c))
      PROVE  UNCHANGED bufVars
  BY <1>7 DEF ReaderStep, PeerStep, relayVars, ReadInvalid, ReadError, Accept, AcceptCount,
     StartLoop, Lookup, HandleDone, DeliverPush, Leave, LeaveCount, ReaderClose, ReaderHangup,
     bufVars
<1>8. ASSUME NEW c \in Conns, PumpStep(c), ~(PumpWriteOK(c) \/ PumpWriteFail(c) \/ PumpDrain(c))
      PROVE  UNCHANGED bufVars
  BY <1>8 DEF PumpStep, PumpRecv, PumpExit, PumpCountSuccess, PumpCountFailure, PumpClose,
     PumpHangup, bufVars
<1>9. CASE UNCHANGED vars
  BY <1>0, <1>9 DEF vars, relayVars
<1> QED
  BY <1>0, <1>1, <1>2, <1>3, <1>4, <1>5, <1>6, <1>7, <1>8, <1>9
     DEF RelayNext

\* The counters keep their types.
LEMMA CountTypesStep ==
  ASSUME RegTypeOK, ReaderTypes, PumpTypes, ConnTypes, BufTypes, CountTypes, ControlOK,
         [RelayNext]_vars
  PROVE  CountTypes'
<1> USE DEF CountTypes
<1>0. ASSUME UNCHANGED countVars PROVE CountTypes'
  BY <1>0 DEF countVars
<1>1. ASSUME NEW c \in Conns, Handle(c) PROVE CountTypes'
  BY <1>1 DEF Handle
<1>2. ASSUME NEW c \in Conns, HandleDone(c) \/ DeliverUndo(c) PROVE CountTypes'
  <2>1. CASE HandleDone(c)
    BY <2>1 DEF HandleDone
  <2>2. CASE DeliverUndo(c)
    BY <2>2 DEF DeliverUndo, Release
  <2> QED
    BY <1>2, <2>1, <2>2
<1>3. ASSUME NEW c \in Conns, PumpCountSuccess(c) \/ PumpCountFailure(c) PROVE CountTypes'
  <2>1. CASE PumpCountSuccess(c)
    BY <2>1 DEF PumpCountSuccess
  <2>2. CASE PumpCountFailure(c)
    BY <2>2 DEF PumpCountFailure
  <2> QED
    BY <1>3, <2>1, <2>2
<1>4. ASSUME NEW c \in Conns, ReaderStep(c) \/ PeerStep(c),
             ~(Handle(c) \/ HandleDone(c) \/ DeliverUndo(c))
      PROVE  UNCHANGED countVars
  BY <1>4 DEF ReaderStep, PeerStep, relayVars, ReadFrame, ReadInvalid, ReadError, Accept,
     AcceptCount, StartLoop, Lookup, DeliverRetain, DeliverPush, ReleaseOwn, Leave, LeaveCount,
     ReaderClose, ReaderHangup, countVars
<1>5. ASSUME NEW c \in Conns, PumpStep(c), ~(PumpCountSuccess(c) \/ PumpCountFailure(c))
      PROVE  UNCHANGED countVars
  BY <1>5 DEF PumpStep, PumpRecv, PumpExit, PumpWriteOK, PumpWriteFail, PumpClose, PumpHangup,
     PumpDrain, countVars
<1>6. CASE UNCHANGED vars
  BY <1>0, <1>6 DEF vars, relayVars
<1> QED
  BY <1>0, <1>1, <1>2, <1>3, <1>4, <1>5, <1>6
     DEF RelayNext

\* Where goroutines hold messages and connectors stays as ControlOK says.
LEMMA ControlStep ==
  ASSUME RegTypeOK, ReaderTypes, PumpTypes, ConnTypes, BufTypes, CountTypes, ControlOK,
         [RelayNext]_vars
  PROVE  ControlOK'
<1> USE DEF ControlOK
<1>0. ASSUME UNCHANGED <<rpc, cur, dest, wpc, hand>> PROVE ControlOK'
  BY <1>0
<1>1. ASSUME NEW c \in Conns, StartLoop(c) PROVE ControlOK'
  <2>1. /\ rpc' = [rpc EXCEPT ![c] = "read"] /\ wpc' = [wpc EXCEPT ![c] = "recv"]
        /\ UNCHANGED <<cur, dest, hand>> /\ rpc[c] = "idle"
    BY <1>1 DEF StartLoop
  <2>2. cur[c] = NoMsg /\ hand[c] = NoMsg
    BY <2>1 DEF Routing
  <2> QED
    BY <2>1, <2>2 DEF Routing, Resolved, ReaderTypes, PumpTypes
<1>2. ASSUME NEW c \in Conns, ReadFrame(c) PROVE ControlOK'
  <2>1. /\ rpc' = [rpc EXCEPT ![c] = "handle"] /\ cur' = [cur EXCEPT ![c] = received + 1]
        /\ UNCHANGED <<dest, wpc, hand>> /\ rpc[c] = "read"
    BY <1>2 DEF ReadFrame, pumpVars
  <2>2. received + 1 # NoMsg
    BY DEF BufTypes, NoMsg
  <2> QED
    BY <2>1, <2>2 DEF Routing, Resolved, ReaderTypes
<1>3. ASSUME NEW c \in Conns, NEW x, rpc' = [rpc EXCEPT ![c] = x], x # "idle", rpc[c] # "idle",
             x \in Routing <=> rpc[c] \in Routing, x \in Resolved => rpc[c] \in Resolved,
             \/ dest' = dest /\ (x \in {"lookup"} \cup Resolved \/ rpc[c] \notin {"lookup"} \cup Resolved)
             \/ dest' = [dest EXCEPT ![c] = None] /\ x \notin Resolved,
             UNCHANGED <<cur, wpc, hand>>
      PROVE  ControlOK'
  <2>1. \A d \in Conns : d # c => rpc'[d] = rpc[d] /\ dest'[d] = dest[d]
    BY <1>3 DEF ReaderTypes
  <2>2. rpc'[c] = x
    BY <1>3 DEF ReaderTypes
  <2>3. dest'[c] = dest[c] \/ dest'[c] = None
    BY <1>3 DEF ReaderTypes
  <2>4. x \in Resolved => dest'[c] \in Conns
    BY <1>3
  <2>5. x \notin {"lookup"} \cup Resolved => dest'[c] = None
    BY <1>3 DEF ReaderTypes
  <2>6. /\ cur'[c] # NoMsg <=> x \in Routing
        /\ hand'[c] # NoMsg <=> wpc'[c] = "write"
        /\ x = "idle" <=> wpc'[c] = "none"
    BY <1>3
  <2> QED
    BY <1>3, <2>1, <2>2, <2>4, <2>5, <2>6
<1>4. ASSUME NEW c \in Conns, ReadInvalid(c) \/ ReadError(c) PROVE ControlOK'
  <2>1. /\ rpc' = [rpc EXCEPT ![c] = "leave"] /\ rpc[c] = "read"
        /\ UNCHANGED <<cur, dest, wpc, hand>>
    BY <1>4 DEF ReadInvalid, ReadError, pumpVars
  <2> QED
    BY <2>1, <1>3 DEF Routing, Resolved
<1>5. ASSUME NEW c \in Conns, Handle(c) PROVE ControlOK'
  <2>1. /\ rpc' = [rpc EXCEPT ![c] = "release"] \/ rpc' = [rpc EXCEPT ![c] = "lookup"]
        /\ UNCHANGED <<cur, dest, wpc, hand>> /\ rpc[c] = "handle"
    BY <1>5 DEF Handle, pumpVars
  <2> QED
    BY <2>1, <1>3 DEF Routing, Resolved
<1>6. ASSUME NEW c \in Conns, Lookup(c) PROVE ControlOK'
  <2>1. PICK k \in targets[c] :
          /\ dest' = [dest EXCEPT ![c] = connectors[k]]
          /\ rpc' = [rpc EXCEPT ![c] = IF connectors[k] # None THEN "retain" ELSE "lookup"]
    BY <1>6 DEF Lookup, GetConnectorByKey, Registered, ReaderTypes
  <2>2. connectors[k] \in Conns \cup {None}
    BY DEF RegTypeOK, ReaderTypes
  <2>3. rpc[c] = "lookup" /\ UNCHANGED <<cur, wpc, hand>>
    BY <1>6 DEF Lookup, pumpVars
  <2>4. CASE connectors[k] = None
    BY <2>1, <2>3, <2>4 DEF Routing, Resolved, ReaderTypes
  <2>5. CASE connectors[k] # None
    BY <2>1, <2>2, <2>3, <2>5 DEF Routing, Resolved, ReaderTypes
  <2> QED
    BY <2>4, <2>5
<1>7. ASSUME NEW c \in Conns, HandleDone(c) \/ DeliverRetain(c) \/ DeliverUndo(c)
      PROVE  ControlOK'
  <2>1. /\ \/ rpc[c] = "lookup" /\ rpc' = [rpc EXCEPT ![c] = "release"] /\ dest' = [dest EXCEPT ![c] = None]
           \/ rpc[c] = "retain" /\ rpc' = [rpc EXCEPT ![c] = "push"] /\ dest' = dest
           \/ rpc[c] = "undo" /\ rpc' = [rpc EXCEPT ![c] = "lookup"] /\ dest' = [dest EXCEPT ![c] = None]
        /\ UNCHANGED <<cur, wpc, hand>>
    BY <1>7 DEF HandleDone, DeliverRetain, DeliverUndo, pumpVars
  <2> QED
    BY <2>1, <1>3 DEF Routing, Resolved
<1>8. ASSUME NEW c \in Conns, DeliverPush(c) PROVE ControlOK'
  <2>1. /\ rpc' = [rpc EXCEPT ![c] = "lookup"] \/ rpc' = [rpc EXCEPT ![c] = "undo"]
        /\ UNCHANGED <<cur, dest, wpc, hand>> /\ rpc[c] = "push"
    BY <1>8 DEF DeliverPush, pumpVars
  <2> QED
    BY <2>1, <1>3 DEF Routing, Resolved
<1>9. ASSUME NEW c \in Conns, ReleaseOwn(c) PROVE ControlOK'
  <2>1. /\ rpc' = [rpc EXCEPT ![c] = "read"] /\ cur' = [cur EXCEPT ![c] = NoMsg]
        /\ UNCHANGED <<dest, wpc, hand>> /\ rpc[c] = "release"
    BY <1>9 DEF ReleaseOwn, pumpVars
  <2> QED
    BY <2>1 DEF Routing, Resolved, ReaderTypes
<1>10. ASSUME NEW c \in Conns, ReaderClose(c) \/ ReaderHangup(c) PROVE ControlOK'
  <2>1. /\ rpc' = [rpc EXCEPT ![c] = "done"] \/ rpc' = [rpc EXCEPT ![c] = "hangup"]
        /\ UNCHANGED <<cur, dest, wpc, hand>> /\ rpc[c] \in {"leave", "hangup"}
    BY <1>10 DEF ReaderClose, ReaderHangup, pumpVars
  <2> QED
    BY <2>1, <1>3 DEF Routing, Resolved
<1>11. ASSUME NEW c \in Conns, PumpRecv(c) PROVE ControlOK'
  <2>1. /\ hand' = [hand EXCEPT ![c] = Head(outChan[c])] /\ wpc' = [wpc EXCEPT ![c] = "write"]
        /\ UNCHANGED <<rpc, cur, dest>> /\ outChan[c] # <<>> /\ wpc[c] = "recv"
    BY <1>11 DEF PumpRecv, readerVars
  <2>2. Head(outChan[c]) \in Msgs /\ NoMsg \notin Msgs
    BY <2>1 DEF ConnTypes, NoMsg, Msgs
  <2> QED
    BY <2>1, <2>2 DEF PumpTypes
<1>12. ASSUME NEW c \in Conns, PumpWriteOK(c) \/ PumpWriteFail(c) PROVE ControlOK'
  <2>1. /\ hand' = [hand EXCEPT ![c] = NoMsg]
        /\ wpc' = [wpc EXCEPT ![c] = "sent"] \/ wpc' = [wpc EXCEPT ![c] = "failed"]
        /\ UNCHANGED <<rpc, cur, dest>> /\ wpc[c] = "write"
    BY <1>12 DEF PumpWriteOK, PumpWriteFail, readerVars
  <2> QED
    BY <2>1 DEF PumpTypes
<1>13. ASSUME NEW c \in Conns, \/ PumpExit(c) \/ PumpClose(c) \/ PumpHangup(c)
                               \/ PumpCountSuccess(c) \/ PumpCountFailure(c)
       PROVE  ControlOK'
  <2>1. /\ \/ wpc' = [wpc EXCEPT ![c] = "done"] \/ wpc' = [wpc EXCEPT ![c] = "drain"]
           \/ wpc' = [wpc EXCEPT ![c] = "hangup"] \/ wpc' = [wpc EXCEPT ![c] = "recv"]
           \/ wpc' = [wpc EXCEPT ![c] = "close"]
        /\ UNCHANGED <<rpc, cur, dest, hand>> /\ wpc[c] \notin {"write", "none"}
    BY <1>13 DEF PumpExit, PumpCountSuccess, PumpCountFailure, PumpClose, PumpHangup,
       readerVars
  <2> QED
    BY <2>1 DEF PumpTypes
<1>14. ASSUME NEW c \in Conns, Accept(c) \/ AcceptCount(c) \/ Leave(c) \/ LeaveCount(c)
                              \/ PumpDrain(c)
       PROVE  ControlOK'
  <2>1. UNCHANGED <<rpc, cur, dest, wpc, hand>>
    BY <1>14 DEF Accept, AcceptCount, Leave, LeaveCount, PumpDrain, relayVars, readerVars, pumpVars
  <2> QED
    BY <2>1, <1>0
<1>15. CASE UNCHANGED vars
  BY <1>0, <1>15 DEF vars, relayVars, readerVars, pumpVars
<1> QED
  BY <1>1, <1>2, <1>4, <1>5, <1>6, <1>7, <1>8, <1>9, <1>10, <1>11, <1>12, <1>13, <1>14, <1>15
     DEF RelayNext, ReaderStep, PeerStep, PumpStep

\* Every action of the relay preserves the type invariant.
LEMMA TypeInvStep == TypeInv /\ [RelayNext]_vars => TypeInv'
<1> SUFFICES ASSUME TypeInv, [RelayNext]_vars PROVE TypeInv'
  OBVIOUS
<1>1. RegTypeOK'
  BY RelayStepOfRegistry, RegTypeStep DEF TypeInv, RelayTypeOK
<1>2. /\ RegTypeOK /\ ReaderTypes /\ PumpTypes /\ ConnTypes /\ BufTypes /\ CountTypes
      /\ ControlOK
  BY TypeParts DEF TypeInv
<1> QED
  BY <1>1, <1>2, TypePartsNext, ReaderTypesStep, PumpTypesStep, ConnTypesStep, BufTypesStep,
     CountTypesStep, ControlStep DEF TypeInv

\* Types, and where read loops and write pumps hold messages and connectors.
THEOREM RelayTypeCorrect == RelaySpec => []RelayTypeOK
<1>1. TypeInv => RelayTypeOK
  BY DEF TypeInv
<1> QED
  BY <1>1, TypeInvInit, TypeInvStep, PTL DEF RelaySpec

\* What is known of every state so far.
LEMMA TypeInvHolds == RelaySpec => [](TypeInv /\ NoStaleEntry)
  BY TypeInvInit, TypeInvStep, RelayRegistryCorrect, PTL DEF RelaySpec

\* A write pump that ended has emptied its queue, and no push fills it again.
THEOREM EndedPumpLeavesNothing == RelaySpec => []NothingStranded
<1>1. RelayInit => NothingStranded
  BY DEF RelayInit, NothingStranded
<1>2. TypeInv /\ NothingStranded /\ [RelayNext]_vars => NothingStranded'
  <2> SUFFICES ASSUME TypeInv, NothingStranded, [RelayNext]_vars, NEW d \in Conns, wpc'[d] = "done"
               PROVE  outChan'[d] = <<>> /\ isClosed'[d]
    BY DEF NothingStranded
  <2> USE DEF TypeInv, RelayTypeOK, ControlOK, NothingStranded
  <2>1. ASSUME NEW c \in Conns, ReaderStep(c) PROVE outChan'[d] = <<>> /\ isClosed'[d]
    <3>1. wpc'[d] = wpc[d] \/ wpc'[d] = "recv"
      BY <2>1 DEF ReaderStep, AcceptCount, StartLoop, Handle, Lookup, HandleDone, DeliverRetain,
         DeliverPush, DeliverUndo, ReleaseOwn, Leave, LeaveCount, ReaderClose, ReaderHangup,
         relayVars, pumpVars
    <3>2. outChan[d] = <<>> /\ isClosed[d]
      BY <3>1
    <3>3. CASE DeliverPush(c)
      BY <3>2, <3>3 DEF DeliverPush, Accepts, Resolved
    <3>4. CASE ReaderClose(c)
      BY <3>2, <3>4 DEF ReaderClose
    <3>5. CASE ~DeliverPush(c) /\ ~ReaderClose(c)
      BY <2>1, <3>2, <3>5 DEF ReaderStep, AcceptCount, StartLoop, Handle, Lookup, HandleDone,
         DeliverRetain, DeliverUndo, ReleaseOwn, Leave, LeaveCount, ReaderHangup, relayVars,
         connVars
    <3> QED
      BY <3>3, <3>4, <3>5
  <2>2. ASSUME NEW c \in Conns, PeerStep(c) PROVE outChan'[d] = <<>> /\ isClosed'[d]
    BY <2>2 DEF PeerStep, Accept, ReadFrame, ReadInvalid, ReadError, relayVars, pumpVars, connVars
  <2>3. ASSUME NEW c \in Conns, PumpStep(c) PROVE outChan'[d] = <<>> /\ isClosed'[d]
    <3>1. CASE PumpExit(c)
      BY <3>1 DEF PumpExit, connVars
    <3>2. CASE PumpClose(c) \/ PumpHangup(c)
      BY <3>2 DEF PumpClose, PumpHangup
    <3>3. CASE \/ PumpWriteOK(c) \/ PumpWriteFail(c)
               \/ PumpCountSuccess(c) \/ PumpCountFailure(c)
      BY <3>3 DEF PumpWriteOK, PumpWriteFail, PumpCountSuccess, PumpCountFailure, connVars
    <3>4. CASE PumpRecv(c) \/ PumpDrain(c)
      BY <3>4 DEF PumpRecv, PumpDrain, pumpVars
    <3> QED
      BY <2>3, <3>1, <3>2, <3>3, <3>4 DEF PumpStep
  <2>4. CASE UNCHANGED vars
    BY <2>4 DEF vars, relayVars, pumpVars, connVars
  <2> QED
    BY <2>1, <2>2, <2>3, <2>4 DEF RelayNext
<1> QED
  BY <1>1, <1>2, TypeInvHolds, PTL DEF RelaySpec

-----------------------------------------------------------------------------
(* Who gets a message. *)

\* What an element of a sequence is after Append and after Tail.
LEMMA InAppend ==
  ASSUME NEW s \in Seq(Msgs), NEW e \in Msgs, NEW x
  PROVE  (\E i \in DOMAIN Append(s, e) : Append(s, e)[i] = x)
           <=> (\E i \in DOMAIN s : s[i] = x) \/ x = e
<1>1. /\ DOMAIN Append(s, e) = 1..(Len(s) + 1) /\ DOMAIN s = 1..Len(s) /\ Len(s) \in Nat
      /\ Append(s, e)[Len(s) + 1] = e
      /\ \A i \in 1..Len(s) : Append(s, e)[i] = s[i]
  OBVIOUS
<1> QED
  BY <1>1

\* What is an element of a sequence before Tail.
LEMMA InTail ==
  ASSUME NEW s \in Seq(Msgs), s # <<>>, NEW x
  PROVE  (\E i \in DOMAIN s : s[i] = x)
           <=> x = Head(s) \/ (\E i \in DOMAIN Tail(s) : Tail(s)[i] = x)
<1>1. /\ DOMAIN s = 1..Len(s) /\ DOMAIN Tail(s) = 1..(Len(s) - 1)
      /\ Len(s) \in Nat \ {0} /\ Head(s) = s[1]
      /\ \A i \in 1..(Len(s) - 1) : Tail(s)[i] = s[i + 1]
  OBVIOUS
<1>2. ASSUME NEW i \in DOMAIN s, s[i] = x, i # 1
      PROVE  \E j \in DOMAIN Tail(s) : Tail(s)[j] = x
  <2>1. i - 1 \in DOMAIN Tail(s) /\ Tail(s)[i - 1] = x
    BY <1>1, <1>2
  <2> QED
    BY <2>1
<1>3. ASSUME NEW j \in DOMAIN Tail(s), Tail(s)[j] = x
      PROVE  \E i \in DOMAIN s : s[i] = x
  <2>1. j + 1 \in DOMAIN s /\ s[j + 1] = x
    BY <1>1, <1>3
  <2> QED
    BY <2>1
<1> QED
  BY <1>1, <1>2, <1>3

InWire(c, m) == \E i \in DOMAIN wire[c] : wire[c][i] = m

\* Connection c was given m: it is queued for c, being written or written.
Has(c, m) == InQueue(c, m) \/ hand[c] = m \/ InWire(c, m)

\* How taking a message out of a queue, pushing and writing change what the
\* connections have.
LEMMA TakeEffect ==
  ASSUME TypeInv, NEW c \in Conns, outChan[c] # <<>>,
         outChan' = [outChan EXCEPT ![c] = Tail(@)], NEW d \in Conns, NEW m \in Msgs
  PROVE  InQueue(d, m) <=> InQueue(d, m)' \/ (d = c /\ m = Head(outChan[c]))
<1> USE DEF TypeInv, RelayTypeOK, InQueue
<1>1. CASE d # c
  BY <1>1
<1>2. CASE d = c
  <2>1. outChan'[d] = Tail(outChan[c]) /\ outChan[c] \in Seq(Msgs)
    BY <1>2
  <2>2. (\E i \in DOMAIN outChan[c] : outChan[c][i] = m)
           <=> m = Head(outChan[c]) \/ (\E i \in DOMAIN Tail(outChan[c]) : Tail(outChan[c])[i] = m)
    BY <2>1, InTail
  <2> QED
    BY <1>2, <2>1, <2>2
<1> QED
  BY <1>1, <1>2

\* A push or a write adds one message to one connection.
LEMMA AppendEffect ==
  ASSUME NEW f \in [Conns -> Seq(Msgs)], NEW c \in Conns, NEW e \in Msgs, NEW g,
         g = [f EXCEPT ![c] = Append(@, e)], NEW d \in Conns, NEW m \in Msgs
  PROVE  (\E i \in DOMAIN g[d] : g[d][i] = m)
           <=> (\E i \in DOMAIN f[d] : f[d][i] = m) \/ (d = c /\ m = e)
<1>1. CASE d # c
  BY <1>1
<1>2. CASE d = c
  <2>1. g[d] = Append(f[c], e) /\ f[c] \in Seq(Msgs) /\ f[d] = f[c]
    BY <1>2
  <2> DEFINE s == f[c]
  <2>2. (\E i \in DOMAIN Append(s, e) : Append(s, e)[i] = m)
           <=> (\E i \in DOMAIN s : s[i] = m) \/ m = e
    <3>1. s \in Seq(Msgs)
      BY <2>1
    <3> HIDE DEF s
    <3> QED
      BY <3>1, InAppend
  <2> QED
    BY <1>2, <2>1, <2>2
<1> QED
  BY <1>1, <1>2

\* A connection comes to have a message only by a push to it.
Pushed(d, m) == \E c \in Conns : /\ DeliverPush(c) /\ Accepts(dest[c])
                                 /\ d = dest[c] /\ m = cur[c]

\* In a step, a connection comes to have a message by a push and by nothing else.
LEMMA HasStep ==
  ASSUME TypeInv, [RelayNext]_vars, NEW d \in Conns, NEW m \in Msgs, Has(d, m)'
  PROVE  Has(d, m) \/ Pushed(d, m)
<1> USE DEF Has
<1>1. CASE outChan' = outChan /\ hand' = hand /\ wire' = wire
  BY <1>1 DEF InQueue, InWire
<1>2. ASSUME NEW c \in Conns, DeliverPush(c) PROVE Has(d, m) \/ Pushed(d, m)
  <2>1. CASE Accepts(dest[c])
    <3>1. dest[c] \in Conns /\ cur[c] \in Msgs
      BY <1>2 DEF DeliverPush, TypeInv, ControlOK, RelayTypeOK, Resolved, Routing
    <3>2. /\ outChan' = [outChan EXCEPT ![dest[c]] = Append(@, cur[c])]
          /\ outChan \in [Conns -> Seq(Msgs)]
      BY <1>2, <2>1 DEF DeliverPush, TypeInv, RelayTypeOK
    <3>3. InQueue(d, m)' => InQueue(d, m) \/ (d = dest[c] /\ m = cur[c])
      BY <3>1, <3>2, AppendEffect DEF InQueue
    <3> QED
      BY <1>2, <2>1, <3>3 DEF Pushed, DeliverPush, pumpVars, InWire
  <2>2. CASE ~Accepts(dest[c])
    BY <1>1, <1>2, <2>2 DEF DeliverPush, pumpVars
  <2> QED
    BY <2>1, <2>2
<1>3. ASSUME NEW c \in Conns, PumpRecv(c) PROVE Has(d, m)
  <2>1. InQueue(d, m) <=> InQueue(d, m)' \/ (d = c /\ m = Head(outChan[c]))
    BY <1>3, TakeEffect DEF PumpRecv
  <2>2. hand' = [hand EXCEPT ![c] = Head(outChan[c])] /\ wire' = wire
    BY <1>3 DEF PumpRecv
  <2> QED
    BY <2>1, <2>2 DEF TypeInv, RelayTypeOK, InWire
<1>4. ASSUME NEW c \in Conns, PumpWriteOK(c) PROVE Has(d, m)
  <2>1. hand[c] \in Msgs
    BY <1>4 DEF PumpWriteOK, TypeInv, ControlOK, RelayTypeOK
  <2>2. InWire(d, m)' => InWire(d, m) \/ (d = c /\ m = hand[c])
    BY <1>4, <2>1, AppendEffect DEF PumpWriteOK, TypeInv, RelayTypeOK, InWire
  <2>3. InQueue(d, m)' = InQueue(d, m) /\ (hand[d]' = m => hand[d] = m)
    BY <1>4 DEF PumpWriteOK, connVars, InQueue, TypeInv, RelayTypeOK, NoMsg, Msgs
  <2> QED
    BY <2>2, <2>3
<1>5. ASSUME NEW c \in Conns, PumpWriteFail(c) PROVE Has(d, m)
  BY <1>5 DEF PumpWriteFail, connVars, InQueue, InWire, TypeInv, RelayTypeOK, NoMsg, Msgs
<1>6. ASSUME NEW c \in Conns, PumpDrain(c) PROVE Has(d, m)
  <2>1. InQueue(d, m) <=> InQueue(d, m)' \/ (d = c /\ m = Head(outChan[c]))
    BY <1>6, TakeEffect DEF PumpDrain
  <2> QED
    BY <1>6, <2>1 DEF PumpDrain, pumpVars, InWire
<1>7. ASSUME NEW c \in Conns, ReaderStep(c), ~DeliverPush(c)
      PROVE  outChan' = outChan /\ hand' = hand /\ wire' = wire
  BY <1>7 DEF ReaderStep, AcceptCount, StartLoop, Handle, Lookup, HandleDone, DeliverRetain,
     DeliverUndo, ReleaseOwn, Leave, LeaveCount, ReaderClose, ReaderHangup, relayVars,
     readerVars, pumpVars, connVars
<1>8. ASSUME NEW c \in Conns, PeerStep(c)
      PROVE  outChan' = outChan /\ hand' = hand /\ wire' = wire
  BY <1>8 DEF PeerStep, Accept, ReadFrame, ReadInvalid, ReadError, relayVars, pumpVars, connVars
<1>9. ASSUME NEW c \in Conns, \/ PumpExit(c) \/ PumpClose(c) \/ PumpHangup(c)
                              \/ PumpCountSuccess(c) \/ PumpCountFailure(c)
      PROVE  outChan' = outChan /\ hand' = hand /\ wire' = wire
  BY <1>9 DEF PumpExit, PumpCountSuccess, PumpCountFailure, PumpClose, PumpHangup,
     pumpVars, connVars
<1>10. CASE UNCHANGED vars
  BY <1>1, <1>10 DEF vars, relayVars, pumpVars, connVars
<1> QED
  BY <1>1, <1>2, <1>3, <1>4, <1>5, <1>6, <1>7, <1>8, <1>9, <1>10 DEF RelayNext, PumpStep

\* The header of a message that was received does not change any more, but for
\* the recipients, which are erased.
LEMMA HeaderStep ==
  ASSUME TypeInv, [RelayNext]_vars
  PROVE  /\ received <= received' /\ received' \in Nat
         /\ \A m \in Msgs : m <= received =>
              to'[m] = to[m] /\ from'[m] = from[m] /\ (stripped[m] => stripped'[m])
<1> USE DEF TypeInv, RelayTypeOK, Msgs
<1>1. ASSUME NEW c \in Conns, ReadFrame(c)
      PROVE  /\ received' = received + 1 /\ stripped' = stripped
             /\ \A m \in Msgs : m <= received => to'[m] = to[m] /\ from'[m] = from[m]
  BY <1>1 DEF ReadFrame
<1>2. ASSUME NEW c \in Conns, Handle(c)
      PROVE  /\ received' = received /\ to' = to /\ from' = from
             /\ \A m \in Msgs : stripped[m] => stripped'[m]
  BY <1>2 DEF Handle
<1>3. ASSUME NEW c \in Conns, ReaderStep(c), ~Handle(c)
      PROVE  UNCHANGED <<received, to, from, stripped>>
  BY <1>3 DEF ReaderStep, AcceptCount, StartLoop, Lookup, HandleDone, DeliverRetain, DeliverPush,
     DeliverUndo, ReleaseOwn, Leave, LeaveCount, ReaderClose, ReaderHangup, relayVars, bufVars
<1>4. ASSUME NEW c \in Conns, PeerStep(c), ~ReadFrame(c)
      PROVE  UNCHANGED <<received, to, from, stripped>>
  BY <1>4 DEF PeerStep, Accept, ReadInvalid, ReadError, relayVars, bufVars
<1>5. ASSUME NEW c \in Conns, PumpStep(c)
      PROVE  UNCHANGED <<received, to, from, stripped>>
  BY <1>5 DEF PumpStep, PumpRecv, PumpExit, PumpWriteOK, PumpWriteFail, PumpCountSuccess,
     PumpCountFailure, PumpClose, PumpHangup, PumpDrain, bufVars
<1>6. CASE UNCHANGED vars
  BY <1>6 DEF vars, relayVars, bufVars
<1>7. received <= received + 1 /\ received + 1 \in Nat /\ received <= received
  OBVIOUS
<1>8. CASE \E c \in Conns : ReadFrame(c)
  BY <1>1, <1>7, <1>8
<1>9. CASE \E c \in Conns : Handle(c)
  BY <1>2, <1>7, <1>9
<1> QED
  BY <1>3, <1>4, <1>5, <1>6, <1>7, <1>8, <1>9 DEF RelayNext

\* What a read loop knows while it routes is changed by its own steps only.
LocalsOf(d) == <<rpc[d], cur[d], targets[d], dest[d]>>

\* A connection keeps what it knows in the steps of the others and of the pumps.
LEMMA BystanderStep ==
  ASSUME TypeInv, NEW c \in Conns, NEW d \in Conns,
         \/ c # d /\ (ReaderStep(c) \/ PeerStep(c))
         \/ PumpStep(c)
         \/ UNCHANGED vars
  PROVE  UNCHANGED LocalsOf(d)
<1> USE DEF LocalsOf, TypeInv, RelayTypeOK
<1>1. CASE c # d /\ ReaderStep(c)
  BY <1>1 DEF ReaderStep, AcceptCount, StartLoop, Handle, Lookup, HandleDone, DeliverRetain,
     DeliverPush, DeliverUndo, ReleaseOwn, Leave, LeaveCount, ReaderClose, ReaderHangup,
     relayVars, readerVars
<1>2. CASE c # d /\ PeerStep(c)
  BY <1>2 DEF PeerStep, Accept, ReadFrame, ReadInvalid, ReadError, relayVars, readerVars
<1>3. CASE PumpStep(c)
  BY <1>3 DEF PumpStep, PumpRecv, PumpExit, PumpWriteOK, PumpWriteFail, PumpCountSuccess,
     PumpCountFailure, PumpClose, PumpHangup, PumpDrain, readerVars
<1>4. CASE UNCHANGED vars
  BY <1>4 DEF vars, relayVars, readerVars
<1> QED
  BY <1>1, <1>2, <1>3, <1>4

\* While a connection routes a message: it is the one it received, its list is
\* erased before anybody else has it, and the targets are recipients other than
\* the sender's key.
RouteOK(c) ==
  /\ cur[c] # NoMsg => cur[c] <= received /\ from[cur[c]] = c
  /\ rpc[c] \in {"lookup"} \cup Resolved =>
       stripped[cur[c]] /\ targets[c] \subseteq to[cur[c]] \ {KeyOf[c]}
  /\ rpc[c] \in Resolved => KeyOf[dest[c]] \in to[cur[c]] \ {KeyOf[c]}

AudienceOK ==
  /\ \A c \in Conns : RouteOK(c)
  /\ \A d \in Conns, m \in Msgs : Has(d, m) =>
       /\ m <= received /\ stripped[m]
       /\ KeyOf[d] \in to[m] /\ KeyOf[d] # KeyOf[from[m]]

\* At first nobody has a message and nobody routes one.
LEMMA AudienceInit == RelayInit => AudienceOK
  BY DEF RelayInit, AudienceOK, RouteOK, Has, InQueue, InWire, Resolved, NoMsg, Msgs

\* A connection that stands by keeps what it knows.
LEMMA RouteBystander ==
  ASSUME TypeInv, TypeInv', [RelayNext]_vars, NEW d \in Conns, RouteOK(d), UNCHANGED LocalsOf(d)
  PROVE  RouteOK(d)'
<1>1. CASE cur[d] = NoMsg
  BY <1>1 DEF RouteOK, LocalsOf, TypeInv, ControlOK, Routing, Resolved
<1>2. CASE cur[d] # NoMsg
  <2>1. cur[d] \in Msgs /\ cur[d] <= received
    BY <1>2 DEF RouteOK, TypeInv, RelayTypeOK
  <2>2. /\ to'[cur[d]] = to[cur[d]] /\ from'[cur[d]] = from[cur[d]]
        /\ stripped[cur[d]] => stripped'[cur[d]]
        /\ received \in Nat /\ received' \in Nat /\ received <= received'
    BY <2>1, HeaderStep DEF TypeInv, RelayTypeOK
  <2>3. cur[d] \in Nat /\ cur[d] <= received'
    BY <2>1, <2>2 DEF Msgs
  <2> QED
    BY <2>2, <2>3 DEF RouteOK, LocalsOf
<1> QED
  BY <1>1, <1>2

\* A connection's own steps.
LEMMA RouteOwnStep ==
  ASSUME TypeInv, NoStaleEntry, NEW c \in Conns, RouteOK(c), ReaderStep(c) \/ PeerStep(c)
  PROVE  RouteOK(c)'
<1> USE DEF RouteOK, TypeInv, RelayTypeOK, ControlOK, Routing, Resolved, NoMsg, Msgs
<1>1. CASE StartLoop(c) \/ ReadInvalid(c) \/ ReadError(c) \/ ReaderClose(c) \/ ReaderHangup(c)
  BY <1>1 DEF StartLoop, ReadInvalid, ReadError, ReaderClose, ReaderHangup
<1>2. CASE Accept(c) \/ AcceptCount(c) \/ Leave(c) \/ LeaveCount(c)
  BY <1>2 DEF Accept, AcceptCount, Leave, LeaveCount, relayVars, readerVars, bufVars
<1>3. CASE ReadFrame(c)
  BY <1>3 DEF ReadFrame
<1>4. CASE Handle(c)
  BY <1>4 DEF Handle
<1>5. CASE Lookup(c)
  BY <1>5 DEF Lookup, NoStaleEntry, GetConnectorByKey, Registered, bufVars
<1>6. CASE HandleDone(c)
  BY <1>6 DEF HandleDone, bufVars
<1>7. CASE DeliverRetain(c)
  BY <1>7 DEF DeliverRetain
<1>8. CASE DeliverPush(c)
  BY <1>8 DEF DeliverPush, bufVars
<1>9. CASE DeliverUndo(c)
  BY <1>9 DEF DeliverUndo
<1>10. CASE ReleaseOwn(c)
  BY <1>10 DEF ReleaseOwn
<1> QED
  BY <1>1, <1>2, <1>3, <1>4, <1>5, <1>6, <1>7, <1>8, <1>9, <1>10 DEF ReaderStep, PeerStep

\* RouteOK is kept by every step.
LEMMA RouteStep ==
  ASSUME TypeInv, NoStaleEntry, [RelayNext]_vars, NEW d \in Conns, RouteOK(d)
  PROVE  RouteOK(d)'
<1>0. TypeInv'
  BY TypeInvStep
<1>1. CASE UNCHANGED LocalsOf(d)
  BY <1>0, <1>1, RouteBystander
<1>2. CASE ReaderStep(d) \/ PeerStep(d)
  BY <1>2, RouteOwnStep
<1>3. ASSUME ~(ReaderStep(d) \/ PeerStep(d)) PROVE UNCHANGED LocalsOf(d)
  BY <1>3, BystanderStep DEF RelayNext
<1> QED
  BY <1>1, <1>2, <1>3

\* AudienceOK is inductive, given that the registry is never stale.
LEMMA AudienceStep ==
  TypeInv /\ NoStaleEntry /\ AudienceOK /\ [RelayNext]_vars => AudienceOK'
<1> SUFFICES ASSUME TypeInv, NoStaleEntry, AudienceOK, [RelayNext]_vars PROVE AudienceOK'
  OBVIOUS
<1>1. ASSUME NEW d \in Conns PROVE RouteOK(d)'
  BY RouteStep DEF AudienceOK
<1>2. ASSUME NEW d \in Conns, NEW m \in Msgs, Has(d, m)'
      PROVE  /\ m <= received' /\ stripped'[m]
             /\ KeyOf[d] \in to'[m] /\ KeyOf[d] # KeyOf[from'[m]]
  <2>1. CASE Has(d, m)
    BY <2>1, HeaderStep DEF AudienceOK, TypeInv, RelayTypeOK, Msgs
  <2>2. CASE Pushed(d, m)
    <3>1. PICK c \in Conns : rpc[c] = "push" /\ d = dest[c] /\ m = cur[c]
      BY <2>2 DEF Pushed, DeliverPush
    <3>2. /\ m <= received /\ stripped[m] /\ from[m] = c
          /\ KeyOf[d] \in to[m] \ {KeyOf[c]}
      BY <3>1 DEF AudienceOK, RouteOK, Resolved, NoMsg, Msgs
    <3>3. /\ to'[m] = to[m] /\ from'[m] = from[m] /\ stripped'[m]
          /\ received <= received' /\ received \in Nat /\ received' \in Nat
      BY <3>2, HeaderStep DEF TypeInv, RelayTypeOK
    <3>4. m <= received'
      BY <3>2, <3>3 DEF Msgs
    <3> QED
      BY <3>2, <3>3, <3>4
  <2> QED
    BY <1>2, <2>1, <2>2, HasStep
<1> QED
  BY <1>1, <1>2 DEF AudienceOK

\* AudienceOK holds in every reachable state.
LEMMA AudienceHolds == RelaySpec => [](TypeInv /\ NoStaleEntry /\ AudienceOK)
<1>1. RelaySpec => []AudienceOK
  BY TypeInvHolds, AudienceInit, AudienceStep, PTL DEF RelaySpec
<1> QED
  BY <1>1, TypeInvHolds, PTL

\* An element of a concatenation is one of its parts.
LEMMA InConcat ==
  ASSUME NEW S, NEW s \in Seq(S), NEW t \in Seq(S), NEW i \in DOMAIN (s \o t)
  PROVE  \/ \E j \in DOMAIN s : s[j] = (s \o t)[i]
         \/ \E j \in DOMAIN t : t[j] = (s \o t)[i]
<1>1. /\ Len(s) \in Nat /\ Len(t) \in Nat
      /\ DOMAIN s = 1..Len(s) /\ DOMAIN t = 1..Len(t)
      /\ i \in 1..(Len(s) + Len(t))
  OBVIOUS
<1>2. CASE i <= Len(s)
  <2>1. i \in DOMAIN s /\ (s \o t)[i] = s[i]
    BY <1>1, <1>2
  <2> QED
    BY <2>1
<1>3. CASE i > Len(s)
  <2>1. i - Len(s) \in DOMAIN t /\ (s \o t)[i] = t[i - Len(s)]
    BY <1>1, <1>3
  <2> QED
    BY <2>1
<1> QED
  BY <1>1, <1>2, <1>3

\* What a connection was given is what it has.
LEMMA GivenIsHad ==
  ASSUME TypeInv, NEW c \in Conns, NEW m \in Msgs, NEW i \in DOMAIN Given(c), Given(c)[i] = m
  PROVE  Has(c, m)
<1>1. wire[c] \in Seq(Msgs) /\ outChan[c] \in Seq(Msgs)
  BY DEF TypeInv, RelayTypeOK
<1>2. InHand(c) \in Seq(Msgs) /\ (\A j \in DOMAIN InHand(c) : InHand(c)[j] = hand[c])
  <2>1. CASE hand[c] = NoMsg
    BY <2>1 DEF InHand
  <2>2. CASE hand[c] # NoMsg
    <3>1. hand[c] \in Msgs /\ InHand(c) = <<hand[c]>>
      BY <2>2 DEF InHand, TypeInv, RelayTypeOK
    <3> QED
      BY <3>1
  <2> QED
    BY <2>1, <2>2
<1>3. wire[c] \o InHand(c) \in Seq(Msgs) /\ Given(c) = (wire[c] \o InHand(c)) \o outChan[c]
  BY <1>1, <1>2 DEF Given
<1>4. \/ \E j \in DOMAIN (wire[c] \o InHand(c)) : (wire[c] \o InHand(c))[j] = m
      \/ \E j \in DOMAIN outChan[c] : outChan[c][j] = m
  <2> DEFINE s == wire[c] \o InHand(c)
  <2>1. s \in Seq(Msgs) /\ i \in DOMAIN (s \o outChan[c]) /\ (s \o outChan[c])[i] = m
    BY <1>3
  <2> HIDE DEF s
  <2>2. \/ \E j \in DOMAIN s : s[j] = m
        \/ \E j \in DOMAIN outChan[c] : outChan[c][j] = m
    BY <1>1, <2>1, InConcat
  <2> QED
    BY <2>2 DEF s
<1>5. ASSUME NEW j \in DOMAIN (wire[c] \o InHand(c)), (wire[c] \o InHand(c))[j] = m
      PROVE  Has(c, m)
  BY <1>1, <1>2, <1>5, InConcat DEF Has, InWire
<1> QED
  BY <1>4, <1>5 DEF Has, InQueue

\* Only connections of a recipient key get a message, none of the sender's key,
\* and they get it with the recipient list erased.
THEOREM OnlyRecipientsGet == RelaySpec => []OnlyToRecipients
<1>1. TypeInv /\ AudienceOK => OnlyToRecipients
  BY GivenIsHad DEF OnlyToRecipients, GetsAt, AudienceOK
<1> QED
  BY <1>1, AudienceHolds, PTL

-----------------------------------------------------------------------------
(* Nobody gets a message twice. *)

NoRepeat(s) == \A i, j \in DOMAIN s : s[i] = s[j] => i = j

\* Appending a new element repeats nothing.
LEMMA NoRepeatAppend ==
  ASSUME NEW S, NEW s \in Seq(S), NEW e \in S, NoRepeat(s), \A i \in DOMAIN s : s[i] # e
  PROVE  NoRepeat(Append(s, e))
<1>1. /\ DOMAIN Append(s, e) = 1..(Len(s) + 1) /\ DOMAIN s = 1..Len(s) /\ Len(s) \in Nat
      /\ Append(s, e)[Len(s) + 1] = e
      /\ \A i \in 1..Len(s) : Append(s, e)[i] = s[i]
  OBVIOUS
<1> QED
  BY <1>1 DEF NoRepeat

\* Taking the head of a sequence without repetition leaves none, and not the head.
LEMMA NoRepeatTail ==
  ASSUME NEW S, NEW s \in Seq(S), s # <<>>, NoRepeat(s)
  PROVE  NoRepeat(Tail(s)) /\ (\A i \in DOMAIN Tail(s) : Tail(s)[i] # Head(s))
<1>1. /\ DOMAIN s = 1..Len(s) /\ DOMAIN Tail(s) = 1..(Len(s) - 1)
      /\ Len(s) \in Nat \ {0} /\ Head(s) = s[1]
      /\ \A i \in 1..(Len(s) - 1) : Tail(s)[i] = s[i + 1]
  OBVIOUS
<1>2. \A i \in DOMAIN Tail(s) : i + 1 \in DOMAIN s /\ 1 \in DOMAIN s /\ i + 1 # 1
  BY <1>1
<1> QED
  BY <1>1, <1>2 DEF NoRepeat

\* Disjoint sequences without repetition have a concatenation without one.
LEMMA NoRepeatConcat ==
  ASSUME NEW S, NEW s \in Seq(S), NEW t \in Seq(S), NoRepeat(s), NoRepeat(t),
         \A i \in DOMAIN s, j \in DOMAIN t : s[i] # t[j]
  PROVE  NoRepeat(s \o t)
<1>1. /\ Len(s) \in Nat /\ Len(t) \in Nat
      /\ DOMAIN s = 1..Len(s) /\ DOMAIN t = 1..Len(t)
      /\ DOMAIN (s \o t) = 1..(Len(s) + Len(t))
  OBVIOUS
<1>2. \A i \in DOMAIN (s \o t) :
        (s \o t)[i] = IF i <= Len(s) THEN s[i] ELSE t[i - Len(s)]
  OBVIOUS
<1>3. \A i \in DOMAIN (s \o t) :
        IF i <= Len(s) THEN i \in DOMAIN s ELSE i - Len(s) \in DOMAIN t
  BY <1>1
<1> SUFFICES ASSUME NEW i \in DOMAIN (s \o t), NEW j \in DOMAIN (s \o t),
                    (s \o t)[i] = (s \o t)[j]
             PROVE  i = j
  BY DEF NoRepeat
<1>4. CASE i <= Len(s) /\ j <= Len(s)
  BY <1>2, <1>3, <1>4 DEF NoRepeat
<1>5. CASE ~(i <= Len(s)) /\ ~(j <= Len(s))
  <2>1. i - Len(s) = j - Len(s)
    BY <1>2, <1>3, <1>5 DEF NoRepeat
  <2> QED
    BY <1>1, <2>1
<1>6. CASE i <= Len(s) /\ ~(j <= Len(s))
  BY <1>2, <1>3, <1>6
<1>7. CASE ~(i <= Len(s)) /\ j <= Len(s)
  BY <1>2, <1>3, <1>7
<1> QED
  BY <1>4, <1>5, <1>6, <1>7

\* What a read loop must not push again: a new message is with nobody, and
\* nobody of a key still to be served has the message that is being routed.
PendingOK(c) ==
  /\ rpc[c] = "handle" => \A d \in Conns : ~Has(d, cur[c])
  /\ rpc[c] \in {"lookup"} \cup Resolved =>
       \A d \in Conns : Has(d, cur[c]) => KeyOf[d] \notin targets[c]
  /\ rpc[c] \in Resolved => KeyOf[dest[c]] \notin targets[c]
  /\ rpc[c] \in Resolved =>
       \A d \in Conns : Has(d, cur[c]) => KeyOf[d] # KeyOf[dest[c]]

\* One connection of a key has a message, at one place.
PlacesOK(d) ==
  /\ NoRepeat(outChan[d]) /\ NoRepeat(wire[d])
  /\ \A m \in Msgs : InQueue(d, m) => hand[d] # m /\ ~InWire(d, m)
  /\ \A m \in Msgs : hand[d] = m => ~InWire(d, m)

UniqueOK ==
  /\ \A c \in Conns : PendingOK(c) /\ PlacesOK(c)
  /\ \A d, e \in Conns, m \in Msgs :
       KeyOf[d] = KeyOf[e] /\ Has(d, m) /\ Has(e, m) => d = e

\* At first nobody has a message.
LEMMA UniqueInit == RelayInit => UniqueOK
  BY DEF RelayInit, UniqueOK, PendingOK, PlacesOK, NoRepeat, Has, InQueue, InWire, Resolved,
     NoMsg, Msgs

\* Nobody who has a message is pushed it again.
LEMMA PushedIsNew ==
  ASSUME TypeInv, UniqueOK, NEW d \in Conns, NEW e \in Conns, NEW m \in Msgs,
         Pushed(d, m), KeyOf[d] = KeyOf[e]
  PROVE  ~Has(e, m)
<1>1. PICK c \in Conns : rpc[c] = "push" /\ d = dest[c] /\ m = cur[c]
  BY DEF Pushed, DeliverPush
<1> QED
  BY <1>1 DEF UniqueOK, PendingOK, Resolved

\* A connection never has a message at two places.
LEMMA PlacesStep ==
  ASSUME TypeInv, UniqueOK, [RelayNext]_vars, NEW d \in Conns
  PROVE  PlacesOK(d)'
<1>0. PlacesOK(d) /\ outChan \in [Conns -> Seq(Msgs)] /\ wire \in [Conns -> Seq(Msgs)]
      /\ hand \in [Conns -> Msgs \cup {NoMsg}] /\ NoMsg \notin Msgs
  BY DEF UniqueOK, TypeInv, RelayTypeOK, NoMsg, Msgs
<1>1. CASE outChan' = outChan /\ hand' = hand /\ wire' = wire
  BY <1>0, <1>1 DEF PlacesOK, InQueue, InWire
<1>2. ASSUME NEW c \in Conns, DeliverPush(c), Accepts(dest[c]) PROVE PlacesOK(d)'
  <2>1. /\ dest[c] \in Conns /\ cur[c] \in Msgs
        /\ outChan' = [outChan EXCEPT ![dest[c]] = Append(@, cur[c])]
        /\ hand' = hand /\ wire' = wire
    BY <1>2 DEF DeliverPush, TypeInv, ControlOK, RelayTypeOK, Resolved, Routing, pumpVars
  <2>2. CASE d # dest[c]
    <3>1. outChan'[d] = outChan[d]
      BY <1>0, <2>1, <2>2
    <3> QED
      BY <1>0, <2>1, <3>1 DEF PlacesOK, InQueue, InWire
  <2>3. CASE d = dest[c]
    <3>1. Pushed(d, cur[c])
      BY <1>2, <2>3 DEF Pushed
    <3>2. ~Has(d, cur[c])
      BY <2>1, <3>1, PushedIsNew
    <3>3. outChan'[d] = Append(outChan[d], cur[c]) /\ outChan[d] \in Seq(Msgs)
      BY <1>0, <2>1, <2>3
    <3>4. NoRepeat(outChan'[d])
      BY <1>0, <2>1, <3>2, <3>3, NoRepeatAppend DEF PlacesOK, Has, InQueue
    <3>5. \A m \in Msgs : InQueue(d, m)' => InQueue(d, m) \/ m = cur[c]
      BY <1>0, <2>1, AppendEffect DEF InQueue
    <3> QED
      BY <1>0, <2>1, <3>2, <3>4, <3>5 DEF PlacesOK, Has, InWire, NoRepeat
  <2> QED
    BY <2>2, <2>3
<1>3. ASSUME NEW c \in Conns, outChan[c] # <<>>, outChan' = [outChan EXCEPT ![c] = Tail(@)],
             wire' = wire, hand' = hand \/ hand' = [hand EXCEPT ![c] = Head(outChan[c])]
      PROVE  PlacesOK(d)'
  <2>1. CASE d # c
    <3>1. outChan'[d] = outChan[d] /\ hand'[d] = hand[d]
      BY <1>0, <1>3, <2>1
    <3> QED
      BY <1>0, <1>3, <3>1 DEF PlacesOK, InQueue, InWire
  <2>2. CASE d = c
    <3>1. outChan'[d] = Tail(outChan[d]) /\ outChan[d] \in Seq(Msgs) /\ outChan[d] # <<>>
      BY <1>0, <1>3, <2>2
    <3>2. /\ NoRepeat(outChan'[d])
          /\ \A i \in DOMAIN outChan'[d] : outChan'[d][i] # Head(outChan[d])
      BY <1>0, <3>1, NoRepeatTail DEF PlacesOK
    <3>3. PICK h \in Msgs : h = Head(outChan[d])
      BY <3>1
    <3>4. \A m \in Msgs : InQueue(d, m) <=> InQueue(d, m)' \/ m = h
      BY <1>3, <2>2, <3>3, TakeEffect
    <3>5. ~InQueue(d, h)'
      BY <3>2, <3>3 DEF InQueue
    <3>6. hand'[d] = hand[d] \/ hand'[d] = h
      BY <1>0, <1>3, <2>2, <3>3
    <3>7. InQueue(d, h)
      BY <3>4
    <3> QED
      BY <1>0, <1>3, <3>2, <3>4, <3>5, <3>6, <3>7 DEF PlacesOK, InWire, NoRepeat
  <2> QED
    BY <2>1, <2>2
<1>4. ASSUME NEW c \in Conns, PumpWriteOK(c) PROVE PlacesOK(d)'
  <2>1. /\ hand[c] \in Msgs /\ outChan' = outChan
        /\ wire' = [wire EXCEPT ![c] = Append(@, hand[c])]
        /\ hand' = [hand EXCEPT ![c] = NoMsg]
    BY <1>4 DEF PumpWriteOK, connVars, TypeInv, ControlOK, RelayTypeOK
  <2>2. CASE d # c
    <3>1. wire'[d] = wire[d] /\ hand'[d] = hand[d]
      BY <1>0, <2>1, <2>2
    <3> QED
      BY <1>0, <2>1, <3>1 DEF PlacesOK, InQueue, InWire
  <2>3. CASE d = c
    <3>1. wire'[d] = Append(wire[d], hand[d]) /\ wire[d] \in Seq(Msgs) /\ hand'[d] = NoMsg
          /\ hand[d] \in Msgs
      BY <1>0, <2>1, <2>3
    <3>2. NoRepeat(wire'[d])
      BY <1>0, <3>1, NoRepeatAppend DEF PlacesOK, InWire
    <3>3. \A m \in Msgs : InWire(d, m)' => InWire(d, m) \/ m = hand[d]
      BY <1>0, <2>1, <2>3, AppendEffect DEF InWire
    <3> QED
      BY <1>0, <2>1, <3>1, <3>2, <3>3 DEF PlacesOK, InQueue, NoRepeat
  <2> QED
    BY <2>2, <2>3
<1>5. ASSUME NEW c \in Conns, PumpWriteFail(c) PROVE PlacesOK(d)'
  BY <1>0, <1>5 DEF PumpWriteFail, connVars, PlacesOK, InQueue, InWire
<1>6. ASSUME NEW c \in Conns, PumpRecv(c) \/ PumpDrain(c) PROVE PlacesOK(d)'
  BY <1>3, <1>6 DEF PumpRecv, PumpDrain, pumpVars
<1>7. ASSUME NEW c \in Conns, \/ ReaderStep(c) /\ ~(DeliverPush(c) /\ Accepts(dest[c]))
                              \/ PeerStep(c)
                              \/ PumpExit(c) \/ PumpClose(c) \/ PumpHangup(c)
                              \/ PumpCountSuccess(c) \/ PumpCountFailure(c)
      PROVE  outChan' = outChan /\ hand' = hand /\ wire' = wire
  <2>1. CASE ReaderStep(c) /\ ~(DeliverPush(c) /\ Accepts(dest[c]))
    BY <2>1 DEF ReaderStep, AcceptCount, StartLoop, Handle, Lookup, HandleDone, DeliverRetain,
       DeliverPush, DeliverUndo, ReleaseOwn, Leave, LeaveCount, ReaderClose, ReaderHangup,
       relayVars, readerVars, pumpVars, connVars
  <2>2. CASE PeerStep(c)
    BY <2>2 DEF PeerStep, Accept, ReadFrame, ReadInvalid, ReadError, relayVars, pumpVars, connVars
  <2>3. CASE \/ PumpExit(c) \/ PumpClose(c) \/ PumpHangup(c)
             \/ PumpCountSuccess(c) \/ PumpCountFailure(c)
    BY <2>3 DEF PumpExit, PumpCountSuccess, PumpCountFailure, PumpClose, PumpHangup,
       pumpVars, connVars
  <2> QED
    BY <1>7, <2>1, <2>2, <2>3
<1>8. CASE UNCHANGED vars
  BY <1>1, <1>8 DEF vars, relayVars, pumpVars, connVars
<1> QED
  BY <1>1, <1>2, <1>4, <1>5, <1>6, <1>7, <1>8 DEF RelayNext, PumpStep, ReaderStep

\* A message is pushed by the read loop that owns it, and by no other.
LEMMA PushedByOwner ==
  ASSUME TypeInv, AudienceOK, NEW c \in Conns, NEW e \in Conns, cur[c] # NoMsg,
         Pushed(e, cur[c])
  PROVE  DeliverPush(c) /\ Accepts(dest[c]) /\ e = dest[c]
<1>1. PICK b \in Conns : DeliverPush(b) /\ Accepts(dest[b]) /\ e = dest[b] /\ cur[c] = cur[b]
  BY DEF Pushed
<1>2. from[cur[c]] = c /\ from[cur[b]] = b
  BY <1>1 DEF AudienceOK, RouteOK
<1> QED
  BY <1>1, <1>2

\* A connection that stands by keeps its promise about the message it routes.
LEMMA PendingBystander ==
  ASSUME TypeInv, AudienceOK, [RelayNext]_vars, NEW d \in Conns, PendingOK(d),
         UNCHANGED LocalsOf(d)
  PROVE  PendingOK(d)'
<1>1. CASE cur[d] = NoMsg
  BY <1>1 DEF PendingOK, LocalsOf, TypeInv, ControlOK, Routing, Resolved
<1>2. CASE cur[d] # NoMsg
  <2>0. cur[d] \in Msgs
    BY <1>2 DEF TypeInv, RelayTypeOK
  <2>1. \A e \in Conns : ~Pushed(e, cur[d])
    BY <1>2, PushedByOwner DEF DeliverPush, LocalsOf, TypeInv, RelayTypeOK
  <2>2. PICK m \in Msgs : m = cur[d]
    BY <2>0
  <2>3. \A e \in Conns : Has(e, m)' => Has(e, m)
    BY <2>1, <2>2, HasStep
  <2> QED
    BY <2>2, <2>3 DEF PendingOK, LocalsOf
<1> QED
  BY <1>1, <1>2

\* A connection's own steps keep it.
LEMMA PendingOwnStep ==
  ASSUME TypeInv, NoStaleEntry, AudienceOK, NEW c \in Conns, PendingOK(c),
         ReaderStep(c) \/ PeerStep(c)
  PROVE  PendingOK(c)'
<1>1. CASE DeliverPush(c)
  <2>0. cur[c] \in Msgs /\ cur[c] # NoMsg
    BY <1>1 DEF DeliverPush, TypeInv, ControlOK, RelayTypeOK, Routing
  <2>1. PICK m \in Msgs : m = cur[c]
    BY <2>0
  <2>2. [RelayNext]_vars
    BY <1>1 DEF RelayNext, ReaderStep
  <2>3. \A e \in Conns : Has(e, m)' => Has(e, m) \/ (Accepts(dest[c]) /\ e = dest[c])
    BY <2>0, <2>1, <2>2, HasStep, PushedByOwner
  <2> QED
    BY <1>1, <2>0, <2>1, <2>3 DEF DeliverPush, PendingOK, Resolved, TypeInv, RelayTypeOK
<1>2. CASE ~DeliverPush(c)
  <2>1. outChan' = outChan /\ hand' = hand /\ wire' = wire
    <3>1. CASE ReaderStep(c)
      BY <1>2, <3>1 DEF ReaderStep, AcceptCount, StartLoop, Handle, Lookup, HandleDone,
         DeliverRetain, DeliverUndo, ReleaseOwn, Leave, LeaveCount, ReaderClose,
         ReaderHangup, relayVars, pumpVars, connVars
    <3>2. CASE PeerStep(c)
      BY <3>2 DEF PeerStep, Accept, ReadFrame, ReadInvalid, ReadError, relayVars, pumpVars, connVars
    <3> QED
      BY <3>1, <3>2
  <2>2. \A e \in Conns, m \in Msgs : Has(e, m)' = Has(e, m)
    BY <2>1 DEF Has, InQueue, InWire
  <2> USE DEF PendingOK, Resolved, TypeInv, RelayTypeOK, ControlOK, Routing, NoMsg, Msgs
  <2>3. CASE StartLoop(c) \/ ReadInvalid(c) \/ ReadError(c) \/ HandleDone(c) \/ ReleaseOwn(c)
             \/ ReaderClose(c) \/ ReaderHangup(c)
    BY <2>3 DEF StartLoop, ReadInvalid, ReadError, HandleDone, ReleaseOwn, ReaderClose, ReaderHangup
  <2>4. CASE Accept(c) \/ AcceptCount(c) \/ Leave(c) \/ LeaveCount(c)
    BY <2>2, <2>4 DEF Accept, AcceptCount, Leave, LeaveCount, relayVars, readerVars
  <2>5. CASE ReadFrame(c)
    <3>1. \A e \in Conns : ~Has(e, received + 1)
      BY <2>5 DEF ReadFrame, AudienceOK
    <3>2. received + 1 \in Msgs
      BY <2>5 DEF ReadFrame
    <3> QED
      BY <2>2, <2>5, <3>1, <3>2 DEF ReadFrame
  <2>6. CASE Handle(c)
    BY <2>2, <2>6 DEF Handle
  <2>7. CASE Lookup(c)
    BY <2>2, <2>7 DEF Lookup, NoStaleEntry, GetConnectorByKey, Registered, RegTypeOK
  <2>8. CASE DeliverRetain(c)
    BY <2>2, <2>8 DEF DeliverRetain
  <2>9. CASE DeliverUndo(c)
    BY <2>2, <2>9 DEF DeliverUndo
  <2> QED
    BY <1>2, <2>3, <2>4, <2>5, <2>6, <2>7, <2>8, <2>9 DEF ReaderStep, PeerStep
<1> QED
  BY <1>1, <1>2

\* UniqueOK is inductive, given AudienceOK.
LEMMA UniqueStep ==
  TypeInv /\ NoStaleEntry /\ AudienceOK /\ UniqueOK /\ [RelayNext]_vars => UniqueOK'
<1> SUFFICES ASSUME TypeInv, NoStaleEntry, AudienceOK, UniqueOK, [RelayNext]_vars
             PROVE  UniqueOK'
  OBVIOUS
<1>1. ASSUME NEW c \in Conns PROVE PendingOK(c)'
  <2>0. PendingOK(c)
    BY DEF UniqueOK
  <2>1. CASE UNCHANGED LocalsOf(c)
    BY <2>0, <2>1, PendingBystander
  <2>2. CASE ReaderStep(c) \/ PeerStep(c)
    BY <2>0, <2>2, PendingOwnStep
  <2>3. ASSUME ~(ReaderStep(c) \/ PeerStep(c)) PROVE UNCHANGED LocalsOf(c)
    BY <2>3, BystanderStep DEF RelayNext
  <2> QED
    BY <2>1, <2>2, <2>3
<1>2. ASSUME NEW d \in Conns, NEW e \in Conns, NEW m \in Msgs,
             KeyOf[d] = KeyOf[e], Has(d, m)', Has(e, m)'
      PROVE  d = e
  <2>1. CASE Has(d, m) /\ Has(e, m)
    BY <1>2, <2>1 DEF UniqueOK
  <2>2. CASE Pushed(d, m) /\ Pushed(e, m)
    <3>1. PICK c \in Conns : DeliverPush(c) /\ d = dest[c] /\ m = cur[c]
      BY <2>2 DEF Pushed
    <3>2. cur[c] # NoMsg
      BY <3>1 DEF NoMsg, Msgs
    <3> QED
      BY <2>2, <3>1, <3>2, PushedByOwner
  <2>3. CASE Pushed(d, m) /\ Has(e, m)
    BY <1>2, <2>3, PushedIsNew
  <2>4. CASE Has(d, m) /\ Pushed(e, m)
    BY <1>2, <2>4, PushedIsNew
  <2> QED
    BY <1>2, <2>1, <2>2, <2>3, <2>4, HasStep
<1> QED
  BY <1>1, <1>2, PlacesStep DEF UniqueOK

\* UniqueOK holds in every reachable state.
LEMMA UniqueHolds == RelaySpec => [](TypeInv /\ UniqueOK)
<1>1. RelaySpec => []UniqueOK
  BY AudienceHolds, UniqueInit, UniqueStep, PTL DEF RelaySpec
<1> QED
  BY <1>1, AudienceHolds, PTL

\* What a connection was given has no repetition.
LEMMA GivenNoRepeat ==
  ASSUME TypeInv, UniqueOK, NEW c \in Conns
  PROVE  NoRepeat(Given(c))
<1> DEFINE w == wire[c]  h == InHand(c)  q == outChan[c]
<1>1. w \in Seq(Msgs) /\ q \in Seq(Msgs) /\ PlacesOK(c)
  BY DEF TypeInv, RelayTypeOK, UniqueOK
<1>2. /\ h \in Seq(Msgs) /\ NoRepeat(h)
      /\ \A i \in DOMAIN h : h[i] = hand[c] /\ hand[c] \in Msgs
  <2>1. CASE hand[c] = NoMsg
    BY <2>1 DEF InHand, NoRepeat
  <2>2. CASE hand[c] # NoMsg
    <3>1. hand[c] \in Msgs /\ h = <<hand[c]>>
      BY <2>2 DEF InHand, TypeInv, RelayTypeOK
    <3>2. DOMAIN h = {1} /\ h[1] = hand[c] /\ h \in Seq(Msgs)
      BY <3>1
    <3> QED
      BY <3>1, <3>2 DEF NoRepeat
  <2> QED
    BY <2>1, <2>2
<1>3. /\ \A i \in DOMAIN w : w[i] \in Msgs /\ InWire(c, w[i])
      /\ \A j \in DOMAIN q : q[j] \in Msgs /\ InQueue(c, q[j])
  BY <1>1 DEF InWire, InQueue
<1>4. /\ NoRepeat(w) /\ NoRepeat(q)
      /\ \A i \in DOMAIN w : hand[c] # w[i]
      /\ \A i \in DOMAIN q : hand[c] # q[i]
      /\ \A i \in DOMAIN w, j \in DOMAIN q : w[i] # q[j]
  BY <1>1, <1>3 DEF PlacesOK
<1> HIDE DEF w, h, q
<1>5. NoRepeat(w \o h) /\ w \o h \in Seq(Msgs)
  <2>1. \A i \in DOMAIN w, j \in DOMAIN h : w[i] # h[j]
    BY <1>2, <1>4
  <2> QED
    BY <1>1, <1>2, <1>4, <2>1, NoRepeatConcat
<1>6. \A i \in DOMAIN (w \o h), j \in DOMAIN q : (w \o h)[i] # q[j]
  BY <1>1, <1>2, <1>4, InConcat
<1>7. NoRepeat((w \o h) \o q)
  BY <1>1, <1>4, <1>5, <1>6, NoRepeatConcat
<1> QED
  BY <1>7 DEF Given, w, h, q

\* The connections of a key together get every message at most once, also while
\* they replace each other.
THEOREM AtMostOnce == RelaySpec => []OncePerKey
<1>1. ASSUME TypeInv, UniqueOK PROVE OncePerKey
  <2> SUFFICES ASSUME NEW c \in Conns, NEW d \in Conns, KeyOf[c] = KeyOf[d], NEW m \in Msgs,
                      NEW i \in DOMAIN Given(c), NEW j \in DOMAIN Given(d),
                      GetsAt(c, i, m), GetsAt(d, j, m)
               PROVE  c = d /\ i = j
    BY DEF OncePerKey
  <2>1. Given(c)[i] = m /\ Given(d)[j] = m
    BY DEF GetsAt
  <2>2. c = d
    BY <1>1, <2>1, GivenIsHad DEF UniqueOK
  <2>3. NoRepeat(Given(c))
    BY <1>1, GivenNoRepeat
  <2> QED
    BY <2>1, <2>2, <2>3 DEF NoRepeat
<1>2. TypeInv /\ UniqueOK => OncePerKey
  BY <1>1
<1> QED
  BY <1>2, UniqueHolds, PTL

-----------------------------------------------------------------------------
(* The queues. *)

\* The calls of SafePush on connection d as its queue sees them.
CallsOf(d) == [c \in Conns |-> PushState(c, d)]
ArgsOf(d)  == [c \in Conns |-> PushArg(c, d)]

\* A step of one connection's goroutines changes no call of another's.
LEMMA OthersCalls ==
  ASSUME TypeInv, NEW c \in Conns, NEW d \in Conns, ReaderStep(c) \/ PeerStep(c)
  PROVE  \A b \in Conns \ {c} : PushState(b, d)' = PushState(b, d) /\ PushArg(b, d)' = PushArg(b, d)
<1>1. ASSUME NEW b \in Conns, b # c
      PROVE  PushState(b, d)' = PushState(b, d) /\ PushArg(b, d)' = PushArg(b, d)
  <2>1. UNCHANGED <<rpc[b], cur[b], dest[b]>>
    BY <1>1, BystanderStep DEF LocalsOf
  <2> QED
    BY <2>1 DEF PushState, PushArg
<1> QED
  BY <1>1

\* So the step is that of one caller.
LEMMA OneCaller ==
  ASSUME TypeInv, NEW c \in Conns, NEW d \in Conns, ReaderStep(c) \/ PeerStep(c)
  PROVE  /\ CallsOf(d)' = [CallsOf(d) EXCEPT ![c] = PushState(c, d)']
         /\ ArgsOf(d)'  = [ArgsOf(d) EXCEPT ![c] = PushArg(c, d)']
BY OthersCalls DEF CallsOf, ArgsOf

\* A step that leaves a call as it is changes none.
LEMMA NoCall ==
  ASSUME TypeInv, NEW c \in Conns, NEW d \in Conns, ReaderStep(c) \/ PeerStep(c),
         PushArg(c, d)' = PushArg(c, d)
  PROVE  /\ ArgsOf(d)' = ArgsOf(d)
         /\ PushState(c, d)' = PushState(c, d) => CallsOf(d)' = CallsOf(d)
<1>1. \A b \in Conns : PushArg(b, d)' = PushArg(b, d)
  BY OthersCalls
<1>2. ASSUME PushState(c, d)' = PushState(c, d)
      PROVE  \A b \in Conns : PushState(b, d)' = PushState(b, d)
  BY <1>2, OthersCalls
<1> QED
  BY <1>1, <1>2 DEF CallsOf, ArgsOf

\* A step that leaves a call and the connector as they are is invisible.
LEMMA InvisibleStep ==
  ASSUME TypeInv, NEW c \in Conns, NEW d \in Conns, ReaderStep(c) \/ PeerStep(c),
         PushState(c, d)' = PushState(c, d), PushArg(c, d)' = PushArg(c, d),
         outChan'[d] = outChan[d], isClosed'[d] = isClosed[d]
  PROVE  UNCHANGED Queue(d)!queueVars
<1>1. CallsOf(d)' = CallsOf(d) /\ ArgsOf(d)' = ArgsOf(d)
  BY NoCall
<1> QED
  BY <1>1 DEF Queue!queueVars, CallsOf, ArgsOf

\* DeliverTo up to its test and send: the call of SafePush, and its outcome.
LEMMA DeliverIsPush ==
  ASSUME TypeInv, NEW c \in Conns, NEW d \in Conns, DeliverRetain(c) \/ DeliverPush(c)
  PROVE  [Queue(d)!QueueNext]_(Queue(d)!queueVars)
<1>0. /\ cur[c] \in Msgs /\ dest[c] \in Conns /\ ReaderStep(c)
      /\ outChan \in [Conns -> Seq(Msgs)] /\ rpc \in [Conns -> ReaderPCs]
  BY DEF DeliverRetain, DeliverPush, ReaderStep, TypeInv, RelayTypeOK, ControlOK, Resolved,
     Routing, NoMsg, Msgs
<1>1. CASE dest[c] # d
  <2>1. dest' = dest /\ isClosed' = isClosed /\ outChan'[d] = outChan[d]
    BY <1>0, <1>1 DEF DeliverRetain, DeliverPush, connVars
  <2>2. /\ PushState(c, d)' = PushState(c, d)
        /\ PushArg(c, d)' = PushArg(c, d)
    BY <1>1, <2>1 DEF PushState, PushArg
  <2> QED
    BY <1>0, <2>1, <2>2, InvisibleStep
<1>2. CASE dest[c] = d /\ DeliverRetain(c)
  <2>1. /\ rpc[c] = "retain" /\ rpc' = [rpc EXCEPT ![c] = "push"] /\ cur' = cur /\ dest' = dest
        /\ outChan' = outChan /\ isClosed' = isClosed
    BY <1>2 DEF DeliverRetain, connVars
  <2>2. /\ PushState(c, d) = "none" /\ PushState(c, d)' = "pending"
        /\ PushArg(c, d)' = cur[c]
    BY <1>0, <1>2, <2>1 DEF PushState, PushArg
  <2>3. Queue(d)!Invoke(c, cur[c])
    BY <1>0, <2>1, <2>2, OneCaller DEF Queue!Invoke, CallsOf, ArgsOf
  <2> QED
    BY <1>0, <2>3 DEF Queue!QueueNext
<1>3. CASE dest[c] = d /\ DeliverPush(c)
  <2>1. /\ rpc[c] = "push" /\ cur' = cur /\ dest' = dest /\ isClosed' = isClosed
        /\ rpc' = [rpc EXCEPT ![c] = IF Accepts(d) THEN "lookup" ELSE "undo"]
        /\ outChan'[d] = IF Accepts(d) THEN Append(outChan[d], cur[c]) ELSE outChan[d]
    BY <1>0, <1>3 DEF DeliverPush
  <2>2. /\ PushState(c, d) = "pending" /\ PushArg(c, d) = cur[c]
        /\ PushState(c, d)' = IF Accepts(d) THEN "accepted" ELSE "refused"
        /\ PushArg(c, d)' = PushArg(c, d)
    BY <1>0, <1>3, <2>1 DEF PushState, PushArg
  <2>3. ArgsOf(d)' = ArgsOf(d)
    BY <1>0, <2>2, NoCall
  <2>4. /\ CallsOf(d)[c] = "pending" /\ ArgsOf(d)[c] = cur[c]
        /\ CallsOf(d)' = [CallsOf(d) EXCEPT ![c] = IF Accepts(d) THEN "accepted" ELSE "refused"]
    BY <1>0, <2>2, OneCaller DEF CallsOf, ArgsOf
  <2>5. CASE Accepts(d)
    <3>1. Queue(d)!Decide(c)
      BY <2>1, <2>3, <2>4, <2>5 DEF Queue!Decide, CallsOf, ArgsOf, Accepts
    <3> QED
      BY <3>1 DEF Queue!QueueNext
  <2>6. CASE ~Accepts(d)
    <3>1. Queue(d)!Decide(c)
      BY <2>1, <2>3, <2>4, <2>6 DEF Queue!Decide, CallsOf, ArgsOf, Accepts
    <3> QED
      BY <3>1 DEF Queue!QueueNext
  <2> QED
    BY <2>5, <2>6
<1> QED
  BY <1>1, <1>2, <1>3

\* The end of a target's turn: the call returns.
LEMMA TurnEndIsReturn ==
  ASSUME TypeInv, NEW c \in Conns, NEW d \in Conns,
         Lookup(c) \/ HandleDone(c) \/ DeliverUndo(c)
  PROVE  [Queue(d)!QueueNext]_(Queue(d)!queueVars)
<1>0. /\ ReaderStep(c) /\ None \notin Conns /\ rpc \in [Conns -> ReaderPCs]
      /\ dest \in [Conns -> Conns \cup {None}]
  <2>1. ReaderStep(c)
    BY DEF ReaderStep
  <2>2. None \notin Conns
    BY RegistryAssumption
  <2> QED
    BY <2>1, <2>2 DEF TypeInv, RelayTypeOK
<1>1. outChan' = outChan /\ isClosed' = isClosed /\ rpc[c] \in {"lookup", "undo"}
  BY DEF Lookup, HandleDone, DeliverUndo, connVars
<1>2. PushState(c, d)' = "none" /\ PushArg(c, d)' = NoMsg
  <2>1. CASE Lookup(c)
    <3>1. PICK k \in targets[c] :
            /\ dest' = [dest EXCEPT ![c] = connectors[k]]
            /\ rpc' = [rpc EXCEPT ![c] = IF connectors[k] # None THEN "retain" ELSE "lookup"]
      BY <2>1 DEF Lookup, GetConnectorByKey, Registered, TypeInv, RelayTypeOK
    <3>2. dest'[c] = None \/ rpc'[c] = "retain"
      BY <1>0, <3>1
    <3> QED
      BY <1>0, <3>2 DEF PushState, PushArg
  <2>2. CASE HandleDone(c) \/ DeliverUndo(c)
    <3>1. dest'[c] = None
      BY <1>0, <2>2 DEF HandleDone, DeliverUndo
    <3> QED
      BY <1>0, <3>1 DEF PushState, PushArg
  <2> QED
    BY <2>1, <2>2
<1>3. CASE dest[c] = d
  <2>1. PushState(c, d) \in {"accepted", "refused"}
    BY <1>1, <1>3 DEF PushState
  <2>2. Queue(d)!Return(c)
    BY <1>0, <1>1, <1>2, <2>1, OneCaller DEF Queue!Return, CallsOf, ArgsOf
  <2> QED
    BY <2>2 DEF Queue!QueueNext
<1>4. CASE dest[c] # d
  <2>1. PushState(c, d) = "none" /\ PushArg(c, d) = NoMsg
    BY <1>4 DEF PushState, PushArg
  <2> QED
    BY <1>0, <1>1, <1>2, <2>1, InvisibleStep
<1> QED
  BY <1>3, <1>4

\* The other steps of a connection call nothing; a Close shuts its own queue.
LEMMA OtherIsShut ==
  ASSUME TypeInv, NEW c \in Conns, NEW d \in Conns, ReaderStep(c) \/ PeerStep(c),
         ~(\/ Lookup(c) \/ HandleDone(c) \/ DeliverUndo(c) \/ DeliverRetain(c) \/ DeliverPush(c))
  PROVE  [Queue(d)!QueueNext]_(Queue(d)!queueVars)
<1>0. /\ isClosed \in [Conns -> BOOLEAN] /\ rpc \in [Conns -> ReaderPCs] /\ None \notin Conns
  <2>1. None \notin Conns
    BY RegistryAssumption
  <2> QED
    BY <2>1 DEF TypeInv, RelayTypeOK
<1>1. PushState(c, d)' = PushState(c, d) /\ PushArg(c, d)' = PushArg(c, d)
  <2>1. CASE Accept(c) \/ AcceptCount(c) \/ Leave(c) \/ LeaveCount(c)
    BY <2>1 DEF Accept, AcceptCount, Leave, LeaveCount, relayVars, readerVars, PushState, PushArg
  <2>2. CASE ~(Accept(c) \/ AcceptCount(c) \/ Leave(c) \/ LeaveCount(c))
    <3>1. rpc[c] \notin {"lookup"} \cup Resolved /\ dest' = dest
      BY <2>2 DEF ReaderStep, PeerStep, StartLoop, ReadFrame, ReadInvalid, ReadError, Handle,
         ReleaseOwn, ReaderClose, ReaderHangup, Resolved
    <3>2. dest[c] # d /\ dest'[c] # d
      BY <1>0, <3>1 DEF TypeInv, ControlOK
    <3> QED
      BY <3>2 DEF PushState, PushArg
  <2> QED
    BY <2>1, <2>2
<1>2. outChan' = outChan /\ (isClosed'[d] = isClosed[d] \/ isClosed'[d] = TRUE)
  BY <1>0 DEF ReaderStep, PeerStep, Accept, AcceptCount, Leave, LeaveCount, StartLoop, ReadFrame,
     ReadInvalid, ReadError, Handle, ReleaseOwn, ReaderClose, ReaderHangup, relayVars, connVars
<1>3. CASE isClosed'[d] = isClosed[d]
  BY <1>1, <1>2, <1>3, InvisibleStep
<1>4. CASE isClosed'[d] = TRUE
  <2>1. CallsOf(d)' = CallsOf(d) /\ ArgsOf(d)' = ArgsOf(d)
    BY <1>1, NoCall
  <2>2. Queue(d)!Shut
    BY <1>2, <1>4, <2>1 DEF Queue!Shut, CallsOf, ArgsOf
  <2> QED
    BY <2>2 DEF Queue!QueueNext
<1> QED
  BY <1>2, <1>3, <1>4

\* The write pump receives, drains and closes its own queue.
LEMMA PumpIsReceive ==
  ASSUME TypeInv, NEW c \in Conns, NEW d \in Conns, PumpStep(c)
  PROVE  [Queue(d)!QueueNext]_(Queue(d)!queueVars)
<1>0. isClosed \in [Conns -> BOOLEAN] /\ outChan \in [Conns -> Seq(Msgs)]
  BY DEF TypeInv, RelayTypeOK
<1>1. CallsOf(d)' = CallsOf(d) /\ ArgsOf(d)' = ArgsOf(d)
  <2>1. UNCHANGED <<rpc, cur, dest>>
    BY DEF PumpStep, PumpRecv, PumpExit, PumpWriteOK, PumpWriteFail, PumpCountSuccess,
       PumpCountFailure, PumpClose, PumpHangup, PumpDrain, readerVars
  <2> QED
    BY <2>1 DEF CallsOf, ArgsOf, PushState, PushArg
<1>2. CASE PumpRecv(c) \/ PumpDrain(c)
  <2>1. /\ outChan[c] # <<>> /\ outChan' = [outChan EXCEPT ![c] = Tail(@)] /\ isClosed' = isClosed
    BY <1>2 DEF PumpRecv, PumpDrain
  <2>2. CASE c = d
    <3>1. Queue(d)!Receive
      BY <1>0, <1>1, <2>1, <2>2 DEF Queue!Receive, CallsOf, ArgsOf
    <3> QED
      BY <3>1 DEF Queue!QueueNext
  <2>3. CASE c # d
    <3>1. outChan'[d] = outChan[d]
      BY <1>0, <2>1, <2>3
    <3> QED
      BY <1>1, <2>1, <3>1 DEF Queue!queueVars, CallsOf, ArgsOf
  <2> QED
    BY <2>2, <2>3
<1>3. CASE PumpClose(c)
  <2>1. outChan' = outChan /\ isClosed' = [isClosed EXCEPT ![c] = TRUE]
    BY <1>3 DEF PumpClose
  <2>2. CASE c = d
    <3>1. Queue(d)!Shut
      BY <1>0, <1>1, <2>1, <2>2 DEF Queue!Shut, CallsOf, ArgsOf
    <3> QED
      BY <3>1 DEF Queue!QueueNext
  <2>3. CASE c # d
    <3>1. isClosed'[d] = isClosed[d]
      BY <1>0, <2>1, <2>3
    <3> QED
      BY <1>1, <2>1, <3>1 DEF Queue!queueVars, CallsOf, ArgsOf
  <2> QED
    BY <2>2, <2>3
<1>4. CASE \/ PumpExit(c) \/ PumpWriteOK(c) \/ PumpWriteFail(c) \/ PumpHangup(c)
           \/ PumpCountSuccess(c) \/ PumpCountFailure(c)
  <2>1. outChan' = outChan /\ isClosed' = isClosed
    BY <1>4 DEF PumpExit, PumpWriteOK, PumpWriteFail, PumpCountSuccess, PumpCountFailure,
       PumpHangup, connVars
  <2> QED
    BY <1>1, <2>1 DEF Queue!queueVars, CallsOf, ArgsOf
<1> QED
  BY <1>2, <1>3, <1>4 DEF PumpStep

\* Relay and Connector fit together: every connection's outChan and isClosed, with
\* the DeliverTo calls of all read loops on it, behave as the DropQueue that
\* SafePush and Close implement under their lock.
THEOREM RelayUsesDropQueues == RelaySpec => UsesDropQueues
<1>1. RelayInit => \A d \in Conns : Queue(d)!QueueInit
  <2> SUFFICES ASSUME RelayInit, NEW d \in Conns PROVE Queue(d)!QueueInit
    OBVIOUS
  <2>1. \A c \in Conns : PushState(c, d) = "none" /\ PushArg(c, d) = NoMsg
    BY DEF RelayInit, PushState, PushArg
  <2> QED
    BY <2>1 DEF RelayInit, Queue!QueueInit
<1>2. TypeInv /\ [RelayNext]_vars
        => [\A d \in Conns : [Queue(d)!QueueNext]_(Queue(d)!queueVars)]_vars
  <2> SUFFICES ASSUME TypeInv, RelayNext, NEW d \in Conns
               PROVE  [Queue(d)!QueueNext]_(Queue(d)!queueVars)
    OBVIOUS
  <2> QED
    BY DeliverIsPush, TurnEndIsReturn, OtherIsShut, PumpIsReceive DEF RelayNext
<1> QED
  BY <1>1, <1>2, TypeInvHolds, PTL DEF RelaySpec, UsesDropQueues
=============================================================================
