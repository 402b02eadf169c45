------------------------- MODULE RelayDeliveryProofs -------------------------
(***************************************************************************)
(* What the relay promises of the messages it holds and delivers, for every *)
(* finite set of connections, any frames, any capacity of the queues and    *)
(* any number of messages, from the invariants of RelayProofs.              *)
(*                                                                         *)
(* The reference counts of the buffers are exact: nobody reads or releases  *)
(* a buffer that was freed, and a buffer that nobody holds has been freed.  *)
(* And what was processed is counted or still held while no connection is   *)
(* closed. Each step is one of four kinds as far as a message is concerned: *)
(* its holders stay the same, one joins, one leaves, or one hands over to   *)
(* another; and the count follows. That a holder that joins is new, and     *)
(* that one that leaves is gone, is where RelayProofs is needed: a message  *)
(* is at one place of a connection only (PlacesOK), is not pushed to who    *)
(* has it (PendingOK), and is held by nobody before it is received          *)
(* (AudienceOK).                                                            *)
(*                                                                         *)
(* The relay implements the lossy multicast. A frame that was read is a     *)
(* submission and a write that succeeded is a delivery; all else is         *)
(* invisible. That the key written to is of the audience is AudienceOK, and *)
(* that it did not have the message is UniqueOK, over all the connections   *)
(* that the key had.                                                        *)
(*                                                                         *)
(* And the messages of one sender keep their order on the way to a          *)
(* recipient. LinkFIFO speaks of what a connection was given as one         *)
(* sequence; OrderOK takes it apart into WebSocket, pump and queue, and     *)
(* LatestOK adds that a read loop routes its latest message, so that what   *)
(* it pushes is behind all it has pushed before. That the very same message *)
(* is not pushed twice is PendingOK of RelayProofs.                         *)
(*                                                                         *)
(* Nothing is counted twice: a delivery or a failure uses up one pair of a  *)
(* message and a recipient key, or the message itself when it reached       *)
(* nobody. And a connection whose goroutines have returned leaves nothing   *)
(* behind, so that the relay ends as it began.                              *)
(***************************************************************************)
EXTENDS RelayProofs

\* What is known of the states of the relay.
KnownOK == TypeInv /\ NoStaleEntry /\ AudienceOK /\ UniqueOK

\* The invariants of RelayProofs hold together.
LEMMA KnownHolds == RelaySpec => []KnownOK
<1>1. TypeInv /\ NoStaleEntry /\ AudienceOK /\ UniqueOK => KnownOK
  BY DEF KnownOK
<1> QED
  BY <1>1, AudienceHolds, UniqueHolds, PTL

-----------------------------------------------------------------------------
(* How a step changes the holders of a message. *)

Stay(m) == \A d \in Conns, s \in Roles : Holds(d, s, m)' <=> Holds(d, s, m)

Join(c, r, m) ==
  /\ c \in Conns /\ r \in Roles /\ ~Holds(c, r, m)
  /\ \A d \in Conns, s \in Roles :
       Holds(d, s, m)' <=> Holds(d, s, m) \/ (d = c /\ s = r)

Part(c, r, m) ==
  /\ c \in Conns /\ r \in Roles /\ Holds(c, r, m)
  /\ \A d \in Conns, s \in Roles :
       Holds(d, s, m)' <=> Holds(d, s, m) /\ ~(d = c /\ s = r)

HandOver(c, r, b, q, m) ==
  /\ c \in Conns /\ r \in Roles /\ Holds(c, r, m)
  /\ b \in Conns /\ q \in Roles /\ ~Holds(b, q, m)
  /\ \A d \in Conns, s \in Roles :
       Holds(d, s, m)' <=> (Holds(d, s, m) /\ ~(d = c /\ s = r)) \/ (d = b /\ s = q)

\* A holder joins a message that is new or that somebody holds.
Balanced(m) ==
  \/ Stay(m) /\ refs'[m] = refs[m]
  \/ /\ \E c \in Conns, r \in Roles : Join(c, r, m)
     /\ refs'[m] = refs[m] + 1
     /\ m > received \/ \E d \in Conns, s \in Roles : Holds(d, s, m)
  \/ (\E c \in Conns, r \in Roles : Part(c, r, m)) /\ refs'[m] = refs[m] - 1
  \/ /\ \E c, b \in Conns, r, q \in Roles : HandOver(c, r, b, q, m)
     /\ refs'[m] = refs[m]

\* The four ways to hold a message, before and after a step.
LEMMA HoldsBy ==
  ASSUME NEW c, NEW m
  PROVE  /\ Holds(c, "reader", m) <=> cur[c] = m
         /\ Holds(c, "deliver", m) <=> cur[c] = m /\ rpc[c] \in {"push", "undo"}
         /\ Holds(c, "queue", m) <=> InQueue(c, m)
         /\ Holds(c, "pump", m) <=> hand[c] = m
  BY DEF Holds

\* The same, after a step.
LEMMA HoldsByNext ==
  ASSUME NEW c, NEW m
  PROVE  /\ Holds(c, "reader", m)' <=> cur'[c] = m
         /\ Holds(c, "deliver", m)' <=> cur'[c] = m /\ rpc'[c] \in {"push", "undo"}
         /\ Holds(c, "queue", m)' <=> InQueue(c, m)'
         /\ Holds(c, "pump", m)' <=> hand'[c] = m
  BY DEF Holds

\* There are finitely many holders.
LEMMA HoldersFinite ==
  ASSUME NEW m
  PROVE  IsFiniteSet(Holders(m)) /\ Cardinality(Holders(m)) \in Nat
<1>1. IsFiniteSet(Roles)
  <2>1. Roles = (({} \cup {"reader"}) \cup {"deliver"}) \cup {"queue"} \cup {"pump"}
    BY DEF Roles
  <2> QED
    BY <2>1, FS_EmptySet, FS_AddElement
<1>2. IsFiniteSet(Conns \X Roles)
  BY <1>1, RegistryAssumption, FS_Product
<1>3. Holders(m) \in SUBSET (Conns \X Roles)
  BY DEF Holders
<1> QED
  BY <1>2, <1>3, FS_Subset, FS_CardinalityType

\* The count of a message whose holders and references change together stays exact.
LEMMA BalancedCounts ==
  ASSUME NEW m \in Msgs, refs[m] \in Int, Balanced(m), refs[m] = Cardinality(Holders(m))
  PROVE  refs'[m] = Cardinality(Holders(m)')
<1>0. /\ Holders(m)  = {h \in Conns \X Roles : Holds(h[1], h[2], m)}
      /\ Holders(m)' = {h \in Conns \X Roles : Holds(h[1], h[2], m)'}
  BY DEF Holders
<1>1. CASE Stay(m) /\ refs'[m] = refs[m]
  <2>1. Holders(m)' = Holders(m)
    BY <1>0, <1>1 DEF Stay
  <2> QED
    BY <1>1, <2>1
<1>2. CASE (\E c \in Conns, r \in Roles : Join(c, r, m)) /\ refs'[m] = refs[m] + 1
  <2>1. PICK c \in Conns, r \in Roles : Join(c, r, m)
    BY <1>2
  <2>2. Holders(m)' = Holders(m) \cup {<<c, r>>} /\ <<c, r>> \notin Holders(m)
    BY <1>0, <2>1 DEF Join
  <2> QED
    BY <1>2, <2>2, HoldersFinite, FS_AddElement
<1>3. CASE (\E c \in Conns, r \in Roles : Part(c, r, m)) /\ refs'[m] = refs[m] - 1
  <2>1. PICK c \in Conns, r \in Roles : Part(c, r, m)
    BY <1>3
  <2>2. Holders(m)' = Holders(m) \ {<<c, r>>} /\ <<c, r>> \in Holders(m)
    BY <1>0, <2>1 DEF Part
  <2> QED
    <3>1. Cardinality(Holders(m)') = Cardinality(Holders(m)) - 1
      BY <2>2, HoldersFinite, FS_RemoveElement
    <3> QED
      BY <1>3, <3>1
<1>4. CASE /\ \E c, b \in Conns, r, q \in Roles : HandOver(c, r, b, q, m)
           /\ refs'[m] = refs[m]
  <2>1. PICK c \in Conns, b \in Conns, r \in Roles, q \in Roles : HandOver(c, r, b, q, m)
    BY <1>4
  <2>2. /\ Holders(m)' = (Holders(m) \ {<<c, r>>}) \cup {<<b, q>>}
        /\ <<c, r>> \in Holders(m) /\ <<b, q>> \notin Holders(m)
    BY <1>0, <2>1 DEF HandOver
  <2>3. /\ IsFiniteSet(Holders(m) \ {<<c, r>>})
        /\ Cardinality(Holders(m) \ {<<c, r>>}) = Cardinality(Holders(m)) - 1
    BY <2>2, HoldersFinite, FS_RemoveElement
  <2>4. <<b, q>> \notin Holders(m) \ {<<c, r>>}
    BY <2>2
  <2>5. Cardinality(Holders(m)') = Cardinality(Holders(m)) - 1 + 1
    BY <2>2, <2>3, <2>4, FS_AddElement
  <2> QED
    BY <1>4, <2>5, HoldersFinite
<1> QED
  BY <1>1, <1>2, <1>3, <1>4 DEF Balanced

-----------------------------------------------------------------------------
(* Every step keeps holders and references in balance. *)

\* Steps that leave the references and the places of messages alone.
LEMMA BalancedIdle ==
  ASSUME TypeInv, NEW m \in Msgs,
         UNCHANGED <<refs, cur, outChan, hand>>,
         \A c \in Conns : cur[c] # NoMsg =>
            (rpc'[c] \in {"push", "undo"} <=> rpc[c] \in {"push", "undo"})
  PROVE  Balanced(m)
<1>1. \A d \in Conns : (cur[d] = m => cur[d] # NoMsg) /\ InQueue(d, m)' = InQueue(d, m)
  BY DEF InQueue, NoMsg, Msgs
<1>2. Stay(m)
  BY <1>1, HoldsBy, HoldsByNext DEF Stay, Roles
<1> QED
  BY <1>2 DEF Balanced

\* A message that is received: it had no holder, and gets the read loop as its first.
LEMMA BalancedReadFrame ==
  ASSUME KnownOK, NEW m \in Msgs, refs[m] = Cardinality(Holders(m)),
         NEW c \in Conns, ReadFrame(c)
  PROVE  Balanced(m)
<1> USE DEF KnownOK, TypeInv, RelayTypeOK, ControlOK
<1>1. /\ cur' = [cur EXCEPT ![c] = received + 1] /\ rpc' = [rpc EXCEPT ![c] = "handle"]
      /\ refs' = [refs EXCEPT ![received + 1] = 1]
      /\ hand' = hand /\ outChan' = outChan /\ rpc[c] = "read"
  BY DEF ReadFrame, pumpVars, connVars
<1>2. \A d \in Conns : InQueue(d, m)' = InQueue(d, m)
  BY <1>1 DEF InQueue
<1>3. /\ cur \in [Conns -> Msgs \cup {NoMsg}] /\ rpc \in [Conns -> ReaderPCs]
      /\ received \in Nat
  OBVIOUS
<1>4. cur[c] = NoMsg /\ NoMsg # m /\ received + 1 # NoMsg
  <2>1. cur[c] = NoMsg
    BY <1>1 DEF Routing
  <2> QED
    BY <2>1, <1>3 DEF NoMsg, Msgs
<1>5. CASE m = received + 1
  <2>1. \A d \in Conns, s \in Roles : ~Holds(d, s, m)
    BY <1>1, <1>5, HoldsBy DEF Roles, AudienceOK, RouteOK, Has, NoMsg, Msgs
  <2>2. refs[m] = 0
    <3>1. Holders(m) = {}
      BY <2>1 DEF Holders
    <3> QED
      BY <3>1, FS_EmptySet
  <2>3. Join(c, "reader", m)
    BY <1>1, <1>2, <1>3, <1>4, <1>5, <2>1, HoldsBy, HoldsByNext DEF Join, Roles
  <2> QED
    BY <1>1, <1>5, <2>2, <2>3 DEF Balanced, Roles, Msgs
<1>6. CASE m # received + 1
  <2>1. Stay(m)
    BY <1>1, <1>2, <1>3, <1>4, <1>6, HoldsBy, HoldsByNext DEF Stay, Roles
  <2> QED
    BY <1>1, <1>6, <2>1 DEF Balanced
<1> QED
  BY <1>5, <1>6

\* The other references that a read loop takes and gives up: DeliverTo retains the
\* message and releases it after a refused push; the loop itself releases it last.
LEMMA BalancedReader ==
  ASSUME KnownOK, NEW m \in Msgs, NEW c \in Conns,
         DeliverRetain(c) \/ DeliverUndo(c) \/ ReleaseOwn(c)
  PROVE  Balanced(m)
<1>1. hand' = hand /\ outChan' = outChan
  BY DEF DeliverRetain, DeliverUndo, ReleaseOwn, pumpVars, connVars
<1>2. /\ \A d \in Conns : InQueue(d, m)' = InQueue(d, m)
      /\ cur \in [Conns -> Msgs \cup {NoMsg}] /\ rpc \in [Conns -> ReaderPCs]
      /\ refs \in [Msgs -> Int] /\ NoMsg # m
  BY <1>1 DEF InQueue, KnownOK, TypeInv, RelayTypeOK, NoMsg, Msgs
<1>3. CASE DeliverRetain(c)
  <2>1. /\ rpc[c] = "retain" /\ rpc' = [rpc EXCEPT ![c] = "push"] /\ cur' = cur
        /\ refs' = [refs EXCEPT ![cur[c]] = @ + 1]
    BY <1>3 DEF DeliverRetain, Retain
  <2>2. cur[c] = m => Join(c, "deliver", m) /\ Holds(c, "reader", m)
    BY <1>1, <1>2, <2>1, HoldsBy, HoldsByNext DEF Join, Roles
  <2>3. cur[c] # m => Stay(m)
    BY <1>1, <1>2, <2>1, HoldsBy, HoldsByNext DEF Stay, Roles
  <2> QED
    BY <1>2, <2>1, <2>2, <2>3 DEF Balanced, Roles
<1>4. CASE DeliverUndo(c)
  <2>1. /\ rpc[c] = "undo" /\ rpc' = [rpc EXCEPT ![c] = "lookup"] /\ cur' = cur
        /\ refs' = [refs EXCEPT ![cur[c]] = @ - 1]
    BY <1>4 DEF DeliverUndo, Release
  <2>2. cur[c] = m => Part(c, "deliver", m)
    BY <1>1, <1>2, <2>1, HoldsBy, HoldsByNext DEF Part, Roles
  <2>3. cur[c] # m => Stay(m)
    BY <1>1, <1>2, <2>1, HoldsBy, HoldsByNext DEF Stay, Roles
  <2> QED
    BY <1>2, <2>1, <2>2, <2>3 DEF Balanced, Roles
<1>5. CASE ReleaseOwn(c)
  <2>1. /\ rpc[c] = "release" /\ rpc' = [rpc EXCEPT ![c] = "read"]
        /\ cur' = [cur EXCEPT ![c] = NoMsg] /\ refs' = [refs EXCEPT ![cur[c]] = @ - 1]
    BY <1>5 DEF ReleaseOwn, Release
  <2>2. cur[c] = m => Part(c, "reader", m)
    BY <1>1, <1>2, <2>1, HoldsBy, HoldsByNext DEF Part, Roles
  <2>3. cur[c] # m => Stay(m)
    BY <1>1, <1>2, <2>1, HoldsBy, HoldsByNext DEF Stay, Roles
  <2> QED
    BY <1>2, <2>1, <2>2, <2>3 DEF Balanced, Roles
<1> QED
  BY <1>3, <1>4, <1>5

\* A push that is accepted hands the reference of DeliverTo over to the queue.
LEMMA BalancedPush ==
  ASSUME KnownOK, NEW m \in Msgs, NEW c \in Conns, DeliverPush(c)
  PROVE  Balanced(m)
<1>1. /\ dest[c] \in Conns /\ cur[c] \in Msgs /\ NoMsg # m /\ rpc[c] = "push"
      /\ cur' = cur /\ hand' = hand /\ refs' = refs
      /\ outChan \in [Conns -> Seq(Msgs)] /\ rpc \in [Conns -> ReaderPCs]
  BY DEF DeliverPush, pumpVars, bufVars, NoMsg, Msgs, Routing, Resolved, KnownOK, TypeInv,
     RelayTypeOK, ControlOK
<1>2. CASE Accepts(dest[c])
  <2>1. /\ outChan' = [outChan EXCEPT ![dest[c]] = Append(@, cur[c])]
        /\ rpc' = [rpc EXCEPT ![c] = "lookup"]
    BY <1>2 DEF DeliverPush
  <2>2. \A d \in Conns : InQueue(d, m)' <=> InQueue(d, m) \/ (d = dest[c] /\ m = cur[c])
    <3>1. PICK e \in Msgs, b \in Conns : e = cur[c] /\ b = dest[c]
      BY <1>1
    <3>2. outChan' = [outChan EXCEPT ![b] = Append(@, e)]
      BY <2>1, <3>1
    <3>3. ASSUME NEW d \in Conns
          PROVE  InQueue(d, m)' <=> InQueue(d, m) \/ (d = b /\ m = e)
      <4>1. CASE d # b
        BY <1>1, <3>2, <4>1 DEF InQueue
      <4>2. CASE d = b
        <5>1. outChan'[d] = Append(outChan[d], e) /\ outChan[d] \in Seq(Msgs)
          BY <1>1, <3>2, <4>2
        <5> QED
          BY <4>2, <5>1, InAppend DEF InQueue
      <4> QED
        BY <4>1, <4>2
    <3> QED
      BY <3>1, <3>3
  <2>3. CASE cur[c] = m
    <3>1. ~InQueue(dest[c], m)
      <4>1. Pushed(dest[c], m)
        BY <1>2, <2>3 DEF Pushed
      <4> QED
        BY <1>1, <4>1, PushedIsNew DEF Has, KnownOK
    <3>2. HandOver(c, "deliver", dest[c], "queue", m)
      <4>1. Holds(c, "deliver", m) /\ ~Holds(dest[c], "queue", m)
        BY <1>1, <2>3, <3>1, HoldsBy
      <4>2. ASSUME NEW d \in Conns
            PROVE  /\ Holds(d, "reader", m)' <=> Holds(d, "reader", m)
                   /\ Holds(d, "deliver", m)' <=> Holds(d, "deliver", m) /\ d # c
                   /\ Holds(d, "queue", m)' <=> Holds(d, "queue", m) \/ d = dest[c]
                   /\ Holds(d, "pump", m)' <=> Holds(d, "pump", m)
        BY <1>1, <2>1, <2>2, <2>3, HoldsBy, HoldsByNext
      <4> QED
        BY <1>1, <4>1, <4>2 DEF HandOver, Roles
    <3> QED
      BY <1>1, <3>2 DEF Balanced, Roles
  <2>4. CASE cur[c] # m
    <3>1. Stay(m)
      <4>1. ASSUME NEW d \in Conns
            PROVE  /\ Holds(d, "reader", m)' <=> Holds(d, "reader", m)
                   /\ Holds(d, "deliver", m)' <=> Holds(d, "deliver", m)
                   /\ Holds(d, "queue", m)' <=> Holds(d, "queue", m)
                   /\ Holds(d, "pump", m)' <=> Holds(d, "pump", m)
        BY <1>1, <2>1, <2>2, <2>4, HoldsBy, HoldsByNext
      <4> QED
        BY <4>1 DEF Stay, Roles
    <3> QED
      BY <1>1, <3>1 DEF Balanced
  <2> QED
    BY <2>3, <2>4
<1>3. CASE ~Accepts(dest[c])
  BY <1>1, <1>3, BalancedIdle DEF DeliverPush, KnownOK
<1> QED
  BY <1>2, <1>3

\* The write pump takes a message over from the queue, and releases the ones that
\* it wrote, could not write, or drains.
LEMMA BalancedPump ==
  ASSUME KnownOK, NEW m \in Msgs, NEW c \in Conns,
         PumpRecv(c) \/ PumpWriteOK(c) \/ PumpWriteFail(c) \/ PumpDrain(c)
  PROVE  Balanced(m)
<1> USE DEF KnownOK, TypeInv, RelayTypeOK, ControlOK
<1>1. cur' = cur /\ rpc' = rpc /\ NoMsg # m
  BY DEF PumpRecv, PumpWriteOK, PumpWriteFail, PumpDrain, readerVars, NoMsg, Msgs
<1>2. CASE PumpRecv(c) \/ PumpDrain(c)
  <2>1. PICK h \in Msgs : h = Head(outChan[c])
    BY <1>2 DEF PumpRecv, PumpDrain
  <2>2. outChan[c] # <<>> /\ outChan' = [outChan EXCEPT ![c] = Tail(@)]
    BY <1>2 DEF PumpRecv, PumpDrain
  <2>3. \A d \in Conns : InQueue(d, m) <=> InQueue(d, m)' \/ (d = c /\ m = h)
    BY <2>1, <2>2, TakeEffect
  <2>4. ~InQueue(c, h)' /\ InQueue(c, h) /\ hand[c] # h
    <3>1. outChan'[c] = Tail(outChan[c]) /\ outChan[c] \in Seq(Msgs) /\ NoRepeat(outChan[c])
      BY <2>2 DEF UniqueOK, PlacesOK
    <3>2. \A i \in DOMAIN outChan'[c] : outChan'[c][i] # h
      BY <2>1, <2>2, <3>1, NoRepeatTail
    <3>3. InQueue(c, h)
      BY <2>1, <2>2, TakeEffect
    <3> QED
      BY <3>2, <3>3 DEF InQueue, UniqueOK, PlacesOK
  <2>5. CASE PumpRecv(c)
    <3>1. hand' = [hand EXCEPT ![c] = h] /\ hand[c] = NoMsg /\ refs' = refs
      BY <2>1, <2>5 DEF PumpRecv, bufVars
    <3>2. m = h => HandOver(c, "queue", c, "pump", m)
      BY <1>1, <2>3, <2>4, <3>1, HoldsBy, HoldsByNext DEF HandOver, Roles
    <3>3. m # h => Stay(m)
      BY <1>1, <2>3, <3>1, HoldsBy, HoldsByNext DEF Stay, Roles
    <3> QED
      BY <3>1, <3>2, <3>3 DEF Balanced, Roles
  <2>6. CASE PumpDrain(c)
    <3>1. hand' = hand /\ refs' = [refs EXCEPT ![h] = @ - 1]
      BY <2>1, <2>6 DEF PumpDrain, Release, pumpVars
    <3>2. m = h => Part(c, "queue", m)
      BY <1>1, <2>3, <2>4, <3>1, HoldsBy, HoldsByNext DEF Part, Roles
    <3>3. m # h => Stay(m)
      BY <1>1, <2>3, <3>1, HoldsBy, HoldsByNext DEF Stay, Roles
    <3> QED
      BY <3>1, <3>2, <3>3 DEF Balanced, Roles
  <2> QED
    BY <1>2, <2>5, <2>6
<1>3. CASE PumpWriteOK(c) \/ PumpWriteFail(c)
  <2>1. /\ hand' = [hand EXCEPT ![c] = NoMsg] /\ refs' = [refs EXCEPT ![hand[c]] = @ - 1]
        /\ hand[c] \in Msgs
        /\ \A d \in Conns : InQueue(d, m)' = InQueue(d, m)
    BY <1>3 DEF PumpWriteOK, PumpWriteFail, Release, connVars, InQueue
  <2>2. m = hand[c] => Part(c, "pump", m)
    BY <1>1, <2>1, HoldsBy, HoldsByNext DEF Part, Roles
  <2>3. m # hand[c] => Stay(m)
    BY <1>1, <2>1, HoldsBy, HoldsByNext DEF Stay, Roles
  <2> QED
    BY <2>1, <2>2, <2>3 DEF Balanced, Roles
<1> QED
  BY <1>2, <1>3

\* Every step of the relay.
LEMMA BalancedStep ==
  ASSUME KnownOK, [RelayNext]_vars, NEW m \in Msgs, refs[m] = Cardinality(Holders(m))
  PROVE  Balanced(m)
<1> USE DEF KnownOK, TypeInv, RelayTypeOK, ControlOK, Routing
<1>1. ASSUME NEW c \in Conns, Handle(c) \/ Lookup(c) \/ HandleDone(c)
      PROVE  Balanced(m)
  <2>1. UNCHANGED <<refs, cur, outChan, hand>>
    BY <1>1 DEF Handle, Lookup, HandleDone, pumpVars, connVars, bufVars
  <2>2. \A d \in Conns : rpc'[d] \in {"push", "undo"} <=> rpc[d] \in {"push", "undo"}
    BY <1>1 DEF Handle, Lookup, HandleDone
  <2> QED
    BY <2>1, <2>2, BalancedIdle
<1>2. ASSUME NEW c \in Conns, \/ Accept(c) \/ AcceptCount(c) \/ Leave(c) \/ LeaveCount(c)
                              \/ PumpExit(c) \/ PumpClose(c) \/ PumpHangup(c)
                              \/ PumpCountSuccess(c) \/ PumpCountFailure(c)
      PROVE  Balanced(m)
  <2>1. UNCHANGED <<refs, cur, outChan, hand, rpc>>
    BY <1>2 DEF Accept, AcceptCount, Leave, LeaveCount, PumpExit, PumpCountSuccess,
       PumpCountFailure, PumpClose, PumpHangup, relayVars, readerVars, pumpVars,
       connVars, bufVars
  <2> QED
    BY <2>1, BalancedIdle
<1>3. ASSUME NEW c \in Conns, \/ StartLoop(c) \/ ReadInvalid(c) \/ ReadError(c)
                              \/ ReaderClose(c) \/ ReaderHangup(c)
      PROVE  Balanced(m)
  <2>1. UNCHANGED <<refs, cur, outChan, hand>>
    BY <1>3 DEF StartLoop, ReadInvalid, ReadError, ReaderClose, ReaderHangup, pumpVars,
       connVars, bufVars
  <2>2. \A d \in Conns : rpc'[d] \in {"push", "undo"} <=> rpc[d] \in {"push", "undo"}
    BY <1>3 DEF StartLoop, ReadInvalid, ReadError, ReaderClose, ReaderHangup
  <2> QED
    BY <2>1, <2>2, BalancedIdle
<1>4. CASE UNCHANGED vars
  BY <1>4, BalancedIdle DEF vars, relayVars, readerVars, pumpVars, connVars, bufVars
<1> QED
  BY <1>1, <1>2, <1>3, <1>4, BalancedReadFrame, BalancedReader, BalancedPush, BalancedPump
     DEF RelayNext, ReaderStep, PeerStep, PumpStep

-----------------------------------------------------------------------------
\* The reference count of every buffer is the number of its holders.
THEOREM ReferencesExact == RelaySpec => []RefsExact
<1>1. RelayInit => RefsExact
  <2> SUFFICES ASSUME RelayInit, NEW m \in Msgs PROVE refs[m] = Cardinality(Holders(m))
    BY DEF RefsExact
  <2>1. \A d \in Conns, s \in Roles : ~Holds(d, s, m)
    BY HoldsBy DEF RelayInit, Roles, InQueue, NoMsg, Msgs
  <2>2. Holders(m) = {}
    BY <2>1 DEF Holders
  <2> QED
    BY <2>2, FS_EmptySet DEF RelayInit
<1>2. KnownOK /\ RefsExact /\ [RelayNext]_vars => RefsExact'
  <2> SUFFICES ASSUME KnownOK, RefsExact, [RelayNext]_vars, NEW m \in Msgs
               PROVE  refs'[m] = Cardinality(Holders(m)')
    BY DEF RefsExact
  <2> QED
    BY BalancedStep, BalancedCounts DEF RefsExact, KnownOK, TypeInv, RelayTypeOK
<1> QED
  BY <1>1, <1>2, KnownHolds, PTL DEF RelaySpec

\* A buffer that was freed is not retained any more.
THEOREM FreedForGood == RelaySpec => NeverRevived
<1>1. ASSUME KnownOK, RefsExact, [RelayNext]_vars, NEW m \in Msgs, m <= received, refs[m] = 0
      PROVE  refs'[m] = 0
  <2>1. Holders(m) = {}
    BY <1>1, HoldersFinite, FS_EmptySet DEF RefsExact
  <2>2. \A d \in Conns, s \in Roles : ~Holds(d, s, m)
    <3>1. ASSUME NEW d \in Conns, NEW s \in Roles, Holds(d, s, m) PROVE FALSE
      <4>1. <<d, s>> \in Holders(m)
        BY <3>1 DEF Holders
      <4> QED
        BY <2>1, <4>1
    <3> QED
      BY <3>1
  <2>3. Balanced(m)
    BY <1>1, BalancedStep DEF RefsExact
  <2>4. ~(m > received)
    BY <1>1 DEF Msgs, KnownOK, TypeInv, RelayTypeOK
  <2> QED
    BY <1>1, <2>2, <2>3, <2>4 DEF Balanced, Part, HandOver
<1>2. KnownOK /\ RefsExact /\ [RelayNext]_vars
        => [\A m \in Msgs : m <= received /\ refs[m] = 0 => refs'[m] = 0]_vars
  BY <1>1
<1> QED
  BY <1>2, KnownHolds, ReferencesExact, PTL DEF RelaySpec, NeverRevived
-----------------------------------------------------------------------------
(* Nothing is lost silently. A message is open as long as it is queued, being *)
(* written, or being routed with no push done; it is settled once it is not.  *)

Unresolved(c, m) == /\ cur[c] = m /\ ~matched[c]
                    /\ rpc[c] \in {"lookup", "retain", "push", "undo"}
Open(m)     == \E c \in Conns : InQueue(c, m) \/ hand[c] = m \/ Unresolved(c, m)
Processed   == {m \in Msgs : stripped[m]}
Settled     == {m \in Msgs : stripped[m] /\ ~Open(m)}
Undisturbed == \A c \in Conns : ~isClosed[c]

\* What is processed is counted once, when the list is erased.
ProcessedOK == /\ \A m \in Msgs : stripped[m] => m <= received
               /\ \A c \in Conns : rpc[c] = "handle" => ~stripped[cur[c]]
               /\ processed = Cardinality(Processed)

\* A pump drains only a connector that is closed.
DrainOK == \A c \in Conns : wpc[c] \in {"hangup", "drain"} => isClosed[c]

\* What was counted, and what a write pump is about to count.
Ledger == delivered + noRecip + Cardinality(Uncounted)

\* What is settled is counted at least once.
AccountOK == Undisturbed => Cardinality(Settled) <= Ledger

\* A step settles nothing, or one message, which it counts or is about to.
Accounted ==
  \/ Settled' \subseteq Settled /\ Ledger <= Ledger'
  \/ \E m \in Msgs : /\ Settled' \subseteq Settled \cup {m}
                     /\ Ledger' = Ledger + 1

\* The write pumps that are about to count are finitely many.
LEMMA UncountedFinite ==
  /\ IsFiniteSet(Uncounted) /\ Cardinality(Uncounted) \in Nat
  /\ IsFiniteSet(Sent) /\ Cardinality(Sent) \in Nat
<1>1. Uncounted \in SUBSET Conns /\ Sent \in SUBSET Conns
  BY DEF Uncounted, Sent
<1> QED
  BY <1>1, RegistryAssumption, FS_Subset, FS_CardinalityType

\* The same, after a step.
LEMMA LedgerNext ==
  ASSUME KnownOK'
  PROVE  Ledger' \in Nat
<1>1. Uncounted' \in SUBSET Conns
  BY DEF Uncounted
<1>2. Cardinality(Uncounted') \in Nat
  BY <1>1, RegistryAssumption, FS_Subset, FS_CardinalityType
<1> QED
  BY <1>2 DEF Ledger, KnownOK, TypeInv, RelayTypeOK

\* The read loops and the peers leave the write pumps where they are, but for
\* the one that is started.
LEMMA ReaderLeavesPumps ==
  ASSUME TypeInv, NEW c \in Conns, ReaderStep(c) \/ PeerStep(c)
  PROVE  Uncounted' = Uncounted /\ Sent' = Sent
<1>1. CASE StartLoop(c)
  <2>1. wpc[c] = "none" /\ wpc' = [wpc EXCEPT ![c] = "recv"] /\ wpc \in [Conns -> PumpPCs]
    BY <1>1 DEF StartLoop, TypeInv, RelayTypeOK, ControlOK
  <2> QED
    BY <2>1 DEF Uncounted, Sent
<1>2. CASE ~StartLoop(c)
  <2>1. wpc' = wpc
    BY <1>2 DEF ReaderStep, PeerStep, AcceptCount, Handle, Lookup, HandleDone, DeliverRetain,
       DeliverPush, DeliverUndo, ReleaseOwn, Leave, LeaveCount, ReaderClose, ReaderHangup,
       Accept, ReadFrame, ReadInvalid, ReadError, relayVars, pumpVars
  <2> QED
    BY <2>1 DEF Uncounted, Sent
<1> QED
  BY <1>1, <1>2

\* A read loop counts at once what it counts.
LEMMA ReaderLedger ==
  ASSUME TypeInv, NEW c \in Conns, ReaderStep(c) \/ PeerStep(c)
  PROVE  /\ Ledger \in Nat
         /\ UNCHANGED <<delivered, noRecip>> => Ledger' = Ledger
         /\ delivered' = delivered /\ noRecip' = noRecip + 1 => Ledger' = Ledger + 1
<1> DEFINE u == Cardinality(Uncounted)
<1>1. u \in Nat /\ delivered \in Nat /\ noRecip \in Nat
  BY UncountedFinite DEF TypeInv, RelayTypeOK
<1>2. Ledger = delivered + noRecip + u /\ Ledger' = delivered' + noRecip' + u
  BY ReaderLeavesPumps DEF Ledger
<1> HIDE DEF u
<1> QED
  BY <1>1, <1>2

\* A write pump that gives a message up will count it; counting changes nothing.
LEMMA PumpLedger ==
  ASSUME TypeInv, NEW c \in Conns, PumpStep(c)
  PROVE  /\ Ledger \in Nat
         /\ PumpWriteOK(c) \/ PumpWriteFail(c) => Ledger' = Ledger + 1
         /\ ~PumpWriteOK(c) /\ ~PumpWriteFail(c) => Ledger' = Ledger
<1> DEFINE u == Cardinality(Uncounted)
           v == Cardinality(Uncounted')
<1>1. u \in Nat /\ delivered \in Nat /\ noRecip \in Nat /\ IsFiniteSet(Uncounted)
  BY UncountedFinite DEF TypeInv, RelayTypeOK
<1>2. Ledger = delivered + noRecip + u /\ Ledger' = delivered' + noRecip' + v
  BY DEF Ledger
<1>3. wpc \in [Conns -> PumpPCs]
  BY DEF TypeInv, RelayTypeOK
<1>4. CASE PumpWriteOK(c) \/ PumpWriteFail(c)
  <2>1. /\ wpc[c] = "write" /\ UNCHANGED <<delivered, noRecip>>
        /\ wpc' = [wpc EXCEPT ![c] = "sent"] \/ wpc' = [wpc EXCEPT ![c] = "failed"]
    BY <1>4 DEF PumpWriteOK, PumpWriteFail, countVars
  <2>2. Uncounted' = Uncounted \cup {c} /\ c \notin Uncounted
    BY <1>3, <2>1 DEF Uncounted
  <2>3. v = u + 1
    BY <1>1, <2>2, FS_AddElement
  <2> HIDE DEF u, v
  <2> QED
    BY <1>1, <1>2, <1>4, <2>1, <2>3
<1>5. CASE PumpCountSuccess(c) \/ PumpCountFailure(c)
  <2>1. /\ wpc[c] \in {"sent", "failed"}
        /\ wpc' = [wpc EXCEPT ![c] = "recv"] \/ wpc' = [wpc EXCEPT ![c] = "close"]
        /\ \/ delivered' = delivered + 1 /\ noRecip' = noRecip
           \/ delivered' = delivered /\ noRecip' = noRecip + 1
    BY <1>5 DEF PumpCountSuccess, PumpCountFailure
  <2>2. Uncounted' = Uncounted \ {c} /\ c \in Uncounted
    BY <1>3, <2>1 DEF Uncounted
  <2>3. v = u - 1
    BY <1>1, <2>2, FS_RemoveElement
  <2>4. ~PumpWriteOK(c) /\ ~PumpWriteFail(c)
    BY <2>1 DEF PumpWriteOK, PumpWriteFail
  <2> HIDE DEF u, v
  <2> QED
    BY <1>1, <1>2, <2>1, <2>3, <2>4
<1>6. CASE PumpRecv(c) \/ PumpExit(c) \/ PumpClose(c) \/ PumpHangup(c) \/ PumpDrain(c)
  <2>1. /\ wpc[c] \notin {"write", "sent", "failed"} /\ wpc'[c] \notin {"sent", "failed"}
        /\ \A d \in Conns : d # c => wpc'[d] = wpc[d]
        /\ UNCHANGED <<delivered, noRecip>>
    BY <1>3, <1>6 DEF PumpRecv, PumpExit, PumpClose, PumpHangup, PumpDrain, pumpVars, countVars
  <2>2. Uncounted' = Uncounted
    BY <2>1 DEF Uncounted
  <2>3. ~PumpWriteOK(c) /\ ~PumpWriteFail(c)
    BY <2>1 DEF PumpWriteOK, PumpWriteFail
  <2> HIDE DEF u
  <2> QED
    BY <1>1, <1>2, <2>1, <2>2, <2>3 DEF u
<1> QED
  BY <1>4, <1>5, <1>6 DEF PumpStep

\* Connectors are closed for good, and before they are drained.
LEMMA DrainStep ==
  ASSUME TypeInv, DrainOK, [RelayNext]_vars
  PROVE  DrainOK' /\ (Undisturbed' => Undisturbed)
<1> USE DEF DrainOK, Undisturbed, TypeInv, RelayTypeOK
<1>1. ASSUME NEW c \in Conns, ReaderStep(c)
      PROVE  DrainOK' /\ (Undisturbed' => Undisturbed)
  BY <1>1 DEF ReaderStep, AcceptCount, StartLoop, Handle, Lookup, HandleDone, DeliverRetain,
     DeliverPush, DeliverUndo, ReleaseOwn, Leave, LeaveCount, ReaderClose, ReaderHangup,
     relayVars, pumpVars, connVars
<1>2. ASSUME NEW c \in Conns, PeerStep(c)
      PROVE  DrainOK' /\ (Undisturbed' => Undisturbed)
  BY <1>2 DEF PeerStep, Accept, ReadFrame, ReadInvalid, ReadError, relayVars, pumpVars, connVars
<1>3. ASSUME NEW c \in Conns, PumpStep(c)
      PROVE  DrainOK' /\ (Undisturbed' => Undisturbed)
  BY <1>3 DEF PumpStep, PumpRecv, PumpExit, PumpWriteOK, PumpWriteFail, PumpCountSuccess,
     PumpCountFailure, PumpClose, PumpHangup, PumpDrain, pumpVars, connVars
<1>4. CASE UNCHANGED vars
  BY <1>4 DEF vars, relayVars, pumpVars, connVars
<1> QED
  BY <1>1, <1>2, <1>3, <1>4 DEF RelayNext

\* Messages are finitely many, and so are those that are processed or settled.
LEMMA CountsFinite ==
  /\ IsFiniteSet(Processed) /\ Cardinality(Processed) \in Nat
  /\ IsFiniteSet(Settled) /\ Cardinality(Settled) \in Nat
<1>1. IsFiniteSet(Msgs)
  BY RelayAssumption, FS_Interval DEF Msgs
<1>2. Processed \in SUBSET Msgs /\ Settled \in SUBSET Msgs
  BY DEF Processed, Settled
<1> QED
  BY <1>1, <1>2, FS_Subset, FS_CardinalityType

\* The frame that a read loop has yet to handle is not counted, and is then.
LEMMA ProcessedStep ==
  ASSUME KnownOK, ProcessedOK, [RelayNext]_vars
  PROVE  ProcessedOK'
<1> USE DEF TypeInv, RelayTypeOK, KnownOK
<1>1. CASE UNCHANGED <<stripped, received, processed>> /\ \A d \in Conns : UNCHANGED LocalsOf(d)
  BY <1>1 DEF ProcessedOK, Processed, LocalsOf
<1>2. ASSUME NEW c \in Conns, Handle(c), to[cur[c]] \ {KeyOf[c]} # {} PROVE ProcessedOK'
  <2>1. /\ cur[c] \in Msgs /\ rpc[c] = "handle" /\ ~stripped[cur[c]] /\ cur[c] <= received
        /\ from[cur[c]] = c
    BY <1>2 DEF Handle, ControlOK, Routing, NoMsg, Msgs, ProcessedOK, AudienceOK, RouteOK
  <2>2. /\ stripped' = [stripped EXCEPT ![cur[c]] = TRUE] /\ processed' = processed + 1
        /\ received' = received /\ cur' = cur /\ rpc' = [rpc EXCEPT ![c] = "lookup"]
    BY <1>2 DEF Handle
  <2>3. Processed' = Processed \cup {cur[c]} /\ cur[c] \notin Processed
    BY <2>1, <2>2 DEF Processed
  <2>4. processed' = Cardinality(Processed')
    BY <2>2, <2>3, CountsFinite, FS_AddElement DEF ProcessedOK
  <2>5. ASSUME NEW d \in Conns, rpc'[d] = "handle" PROVE ~stripped'[cur'[d]]
    <3>1. d # c /\ rpc[d] = "handle"
      BY <2>2, <2>5
    <3>2. cur[d] \in Msgs /\ from[cur[d]] = d /\ ~stripped[cur[d]]
      BY <3>1 DEF ControlOK, Routing, NoMsg, Msgs, ProcessedOK, AudienceOK, RouteOK
    <3> QED
      BY <2>1, <2>2, <3>1, <3>2
  <2> QED
    BY <2>1, <2>2, <2>4, <2>5 DEF ProcessedOK
<1>3. ASSUME NEW c \in Conns, ReadFrame(c) PROVE ProcessedOK'
  <2>1. /\ stripped' = stripped /\ processed' = processed /\ received' = received + 1
        /\ received \in Nat /\ received + 1 \in Msgs
        /\ cur' = [cur EXCEPT ![c] = received + 1] /\ rpc' = [rpc EXCEPT ![c] = "handle"]
    BY <1>3, RelayAssumption DEF ReadFrame, countVars, Msgs
  <2>2. ~stripped[received + 1]
    BY <2>1 DEF ProcessedOK
  <2> QED
    BY <2>1, <2>2 DEF ProcessedOK, Processed, Msgs
<1>4. ASSUME NEW c \in Conns, \/ Handle(c) /\ to[cur[c]] \ {KeyOf[c]} = {}
                              \/ ReaderStep(c) /\ ~Handle(c)
      PROVE  ProcessedOK'
  <2>1. UNCHANGED <<stripped, received, processed>>
    BY <1>4 DEF ReaderStep, AcceptCount, StartLoop, Handle, Lookup, HandleDone, DeliverRetain, DeliverPush,
       DeliverUndo, ReleaseOwn, Leave, LeaveCount, ReaderClose, ReaderHangup, relayVars, bufVars,
       countVars
  <2>2. \A d \in Conns : rpc'[d] = "handle" => rpc[d] = "handle" /\ cur'[d] = cur[d]
    BY <1>4 DEF ReaderStep, AcceptCount, StartLoop, Handle, Lookup, HandleDone, DeliverRetain, DeliverPush,
       DeliverUndo, ReleaseOwn, Leave, LeaveCount, ReaderClose, ReaderHangup, relayVars, readerVars
  <2> QED
    BY <2>1, <2>2 DEF ProcessedOK, Processed
<1>5. ASSUME NEW c \in Conns, PeerStep(c), ~ReadFrame(c) PROVE ProcessedOK'
  <2>1. UNCHANGED <<stripped, received, processed>>
    BY <1>5 DEF PeerStep, Accept, ReadInvalid, ReadError, relayVars, bufVars, countVars
  <2>2. \A d \in Conns : rpc'[d] = "handle" => rpc[d] = "handle" /\ cur'[d] = cur[d]
    BY <1>5 DEF PeerStep, Accept, ReadInvalid, ReadError, relayVars, readerVars
  <2> QED
    BY <2>1, <2>2 DEF ProcessedOK, Processed
<1>6. ASSUME NEW c \in Conns, PumpStep(c) PROVE ProcessedOK'
  <2>1. UNCHANGED <<stripped, received, processed, readerVars>>
    BY <1>6 DEF PumpStep, PumpRecv, PumpExit, PumpWriteOK, PumpWriteFail,
       PumpCountSuccess, PumpCountFailure, PumpClose, PumpHangup, PumpDrain, bufVars,
       countVars
  <2> QED
    BY <2>1 DEF ProcessedOK, Processed, readerVars
<1>7. CASE UNCHANGED vars
  BY <1>7 DEF vars, relayVars, readerVars, bufVars, countVars, ProcessedOK, Processed
<1> QED
  BY <1>2, <1>3, <1>4, <1>5, <1>6, <1>7 DEF RelayNext, ReaderStep

\* A step that keeps open what is open settles nothing.
LEMMA NothingSettled ==
  ASSUME \A m \in Msgs : stripped'[m] => (stripped[m] /\ (Open(m) => Open(m)')) \/ Open(m)'
  PROVE  Settled' \subseteq Settled
BY DEF Settled

\* Steps that leave the places of messages alone and settle none that is routed.
LEMMA OpenIdle ==
  ASSUME UNCHANGED <<outChan, hand, stripped>>,
         \A c \in Conns, m \in Msgs : Unresolved(c, m) => Unresolved(c, m)'
  PROVE  Settled' \subseteq Settled
<1>1. \A m \in Msgs : Open(m) => Open(m)'
  BY DEF Open, InQueue
<1> QED
  BY <1>1, NothingSettled

\* What a push puts in a queue.
LEMMA PushEffect ==
  ASSUME outChan \in [Conns -> Seq(Msgs)], NEW b \in Conns, NEW e \in Msgs,
         outChan' = [outChan EXCEPT ![b] = Append(@, e)], NEW d \in Conns, NEW m \in Msgs
  PROVE  InQueue(d, m)' <=> InQueue(d, m) \/ (d = b /\ m = e)
<1>1. CASE d # b
  BY <1>1 DEF InQueue
<1>2. CASE d = b
  <2>1. PICK s \in Seq(Msgs) : s = outChan[d] /\ outChan'[d] = Append(s, e)
    BY <1>2
  <2>2. (\E i \in DOMAIN Append(s, e) : Append(s, e)[i] = m)
          <=> (\E i \in DOMAIN s : s[i] = m) \/ m = e
    BY InAppend
  <2>3. InQueue(d, m)' <=> (\E i \in DOMAIN s : s[i] = m) \/ m = e
    BY <2>1, <2>2 DEF InQueue
  <2> QED
    BY <1>2, <2>1, <2>3 DEF InQueue
<1> QED
  BY <1>1, <1>2

\* The steps of the read loop.
LEMMA AccountedReader ==
  ASSUME KnownOK, NEW c \in Conns, ReaderStep(c)
  PROVE  Accounted
<1> USE DEF TypeInv, RelayTypeOK, KnownOK
<1>0. /\ Ledger \in Nat
      /\ UNCHANGED <<delivered, noRecip>> => Ledger' = Ledger
      /\ delivered' = delivered /\ noRecip' = noRecip + 1 => Ledger' = Ledger + 1
  BY ReaderLedger
<1>1. CASE AcceptCount(c) \/ StartLoop(c) \/ Leave(c) \/ LeaveCount(c) \/ ReaderClose(c) \/ ReaderHangup(c)
  <2>1. /\ UNCHANGED <<outChan, hand, stripped, delivered, noRecip>>
        /\ \A d \in Conns, m \in Msgs : Unresolved(d, m) => Unresolved(d, m)'
    BY <1>1 DEF AcceptCount, StartLoop, Leave, LeaveCount, ReaderClose, ReaderHangup, relayVars,
       readerVars, pumpVars, connVars, bufVars, countVars, Unresolved
  <2> QED
    BY <1>0, <2>1, OpenIdle DEF Accounted
<1>2. CASE Lookup(c) \/ DeliverRetain(c) \/ ReleaseOwn(c)
  <2>1. /\ UNCHANGED <<outChan, hand, stripped, delivered, noRecip>>
        /\ \A d \in Conns, m \in Msgs : Unresolved(d, m) => Unresolved(d, m)'
    BY <1>2 DEF Lookup, DeliverRetain, ReleaseOwn, pumpVars, connVars, bufVars, countVars, Unresolved
  <2> QED
    BY <1>0, <2>1, OpenIdle DEF Accounted
<1>3. CASE DeliverUndo(c)
  <2>1. /\ UNCHANGED <<outChan, hand, stripped, delivered>> /\ noRecip' = noRecip + 1
        /\ \A d \in Conns, m \in Msgs : Unresolved(d, m) => Unresolved(d, m)'
    BY <1>3 DEF DeliverUndo, pumpVars, connVars, Unresolved
  <2> QED
    BY <1>0, <2>1, OpenIdle DEF Accounted
<1>4. CASE Handle(c)
  <2>0. /\ UNCHANGED <<outChan, hand, delivered, noRecip>> /\ rpc[c] = "handle"
        /\ cur' = cur /\ cur[c] \in Msgs
    BY <1>4 DEF Handle, pumpVars, connVars, ControlOK, Routing, NoMsg, Msgs
  <2>1. \A d \in Conns, m \in Msgs : Unresolved(d, m) => Unresolved(d, m)'
    BY <1>4 DEF Handle, Unresolved
  <2>2. stripped' = stripped \/ (stripped' = [stripped EXCEPT ![cur[c]] = TRUE] /\ Unresolved(c, cur[c])')
    BY <1>4, <2>0 DEF Handle, Unresolved
  <2>3. \A m \in Msgs : stripped'[m] => stripped[m] \/ Open(m)'
    BY <2>0, <2>2 DEF Open
  <2>4. \A m \in Msgs : Open(m) => Open(m)'
    BY <2>0, <2>1 DEF Open, InQueue
  <2> QED
    BY <1>0, <2>0, <2>3, <2>4, NothingSettled DEF Accounted
<1>5. CASE HandleDone(c)
  <2>0. /\ UNCHANGED <<outChan, hand, stripped, cur, matched, delivered>> /\ cur[c] \in Msgs
        /\ rpc' = [rpc EXCEPT ![c] = "release"]
        /\ noRecip' = IF matched[c] THEN noRecip ELSE noRecip + 1
    BY <1>5 DEF HandleDone, pumpVars, connVars, bufVars, ControlOK, Routing, NoMsg, Msgs
  <2>1. CASE matched[c]
    <3>1. \A d \in Conns, m \in Msgs : Unresolved(d, m) => Unresolved(d, m)'
      BY <2>0, <2>1 DEF Unresolved
    <3> QED
      BY <1>0, <2>0, <2>1, <3>1, OpenIdle DEF Accounted
  <2>2. CASE ~matched[c]
    <3>1. \A d \in Conns, m \in Msgs : m # cur[c] /\ Unresolved(d, m) => Unresolved(d, m)'
      BY <2>0 DEF Unresolved
    <3>2. \A m \in Msgs : m # cur[c] /\ Open(m) => Open(m)'
      BY <2>0, <3>1 DEF Open, InQueue
    <3>3. Settled' \subseteq Settled \cup {cur[c]}
      BY <2>0, <3>2 DEF Settled
    <3> QED
      BY <1>0, <2>0, <2>2, <3>3 DEF Accounted
  <2> QED
    BY <2>1, <2>2
<1>6. CASE DeliverPush(c)
  <2>0. /\ UNCHANGED <<hand, stripped, cur, dest, delivered, noRecip>> /\ rpc[c] = "push"
        /\ dest[c] \in Conns /\ cur[c] \in Msgs
    BY <1>6 DEF DeliverPush, pumpVars, bufVars, countVars, ControlOK, Routing, Resolved, NoMsg, Msgs
  <2>1. CASE ~Accepts(dest[c])
    <3>1. /\ outChan' = outChan
          /\ \A d \in Conns, m \in Msgs : Unresolved(d, m) => Unresolved(d, m)'
      BY <1>6, <2>1 DEF DeliverPush, Unresolved
    <3> QED
      BY <1>0, <2>0, <3>1, OpenIdle DEF Accounted
  <2>2. CASE Accepts(dest[c])
    <3>1. /\ outChan' = [outChan EXCEPT ![dest[c]] = Append(@, cur[c])]
          /\ outChan \in [Conns -> Seq(Msgs)]
      BY <1>6, <2>2 DEF DeliverPush
    <3>2. \A d \in Conns, m \in Msgs :
            InQueue(d, m)' <=> InQueue(d, m) \/ (d = dest[c] /\ m = cur[c])
      BY <2>0, <3>1, PushEffect
    <3>3. \A d \in Conns, m \in Msgs : d # c /\ Unresolved(d, m) => Unresolved(d, m)'
      BY <1>6, <2>2 DEF DeliverPush, Unresolved
    <3>4. ASSUME NEW m \in Msgs, Unresolved(c, m) PROVE InQueue(dest[c], m)'
      <4>1. m = cur[c]
        BY <3>4 DEF Unresolved
      <4> QED
        BY <2>0, <3>2, <4>1
    <3>5. ASSUME NEW m \in Msgs, NEW d \in Conns,
                 InQueue(d, m) \/ hand[d] = m \/ Unresolved(d, m)
          PROVE  Open(m)'
      <4>1. dest'[c] \in Conns /\ hand' = hand
        BY <2>0
      <4>2. InQueue(d, m)' \/ hand'[d] = m \/ Unresolved(d, m)' \/ InQueue(dest[c], m)'
        BY <3>2, <3>3, <3>4, <3>5, <4>1
      <4> QED
        BY <4>1, <4>2, Zenon DEF Open
    <3>6. \A m \in Msgs : Open(m) => Open(m)'
      BY <3>5 DEF Open
    <3> QED
      BY <1>0, <2>0, <3>6, NothingSettled DEF Accounted
  <2> QED
    BY <2>1, <2>2
<1> QED
  BY <1>1, <1>2, <1>3, <1>4, <1>5, <1>6 DEF ReaderStep

\* The steps of the write pump. It does not drain while nothing is closed.
LEMMA AccountedPump ==
  ASSUME KnownOK, DrainOK, Undisturbed', NEW c \in Conns, PumpStep(c)
  PROVE  Accounted
<1> USE DEF TypeInv, RelayTypeOK, KnownOK
<1>0. /\ Ledger \in Nat
      /\ PumpWriteOK(c) \/ PumpWriteFail(c) => Ledger' = Ledger + 1
      /\ ~PumpWriteOK(c) /\ ~PumpWriteFail(c) => Ledger' = Ledger
  BY PumpLedger
<1>1. CASE \/ PumpExit(c) \/ PumpClose(c) \/ PumpHangup(c)
           \/ PumpCountSuccess(c) \/ PumpCountFailure(c)
  <2>1. /\ UNCHANGED <<outChan, hand, stripped>>
        /\ \A d \in Conns, m \in Msgs : Unresolved(d, m) => Unresolved(d, m)'
    BY <1>1 DEF PumpExit, PumpCountSuccess, PumpCountFailure, PumpClose, PumpHangup,
       readerVars, pumpVars, connVars, bufVars, Unresolved
  <2> QED
    BY <1>0, <2>1, OpenIdle DEF Accounted
<1>2. CASE PumpRecv(c)
  <2>1. \A d \in Conns, m \in Msgs :
          InQueue(d, m) <=> InQueue(d, m)' \/ (d = c /\ m = Head(outChan[c]))
    BY <1>2, TakeEffect DEF PumpRecv
  <2>2. /\ UNCHANGED <<readerVars, stripped>>
        /\ hand' = [hand EXCEPT ![c] = Head(outChan[c])] /\ wpc[c] = "recv"
    BY <1>2 DEF PumpRecv, bufVars
  <2>3. hand[c] = NoMsg /\ NoMsg \notin Msgs
    BY <2>2 DEF ControlOK, NoMsg, Msgs
  <2>4. \A m \in Msgs : Open(m) => Open(m)'
    <3> SUFFICES ASSUME NEW m \in Msgs, NEW d \in Conns,
                        InQueue(d, m) \/ hand[d] = m \/ Unresolved(d, m)
                 PROVE  Open(m)'
      BY DEF Open
    <3>1. CASE InQueue(d, m)
      BY <2>1, <2>2, <3>1 DEF Open
    <3>2. CASE hand[d] = m
      BY <2>2, <2>3, <3>2 DEF Open
    <3>3. CASE Unresolved(d, m)
      BY <2>2, <3>3 DEF Open, Unresolved, readerVars
    <3> QED
      BY <3>1, <3>2, <3>3
  <2>5. ~PumpWriteOK(c) /\ ~PumpWriteFail(c)
    BY <2>2 DEF PumpWriteOK, PumpWriteFail
  <2> QED
    BY <1>0, <2>2, <2>4, <2>5, NothingSettled DEF Accounted
<1>3. CASE PumpWriteOK(c) \/ PumpWriteFail(c)
  <2>1. /\ UNCHANGED <<readerVars, outChan, stripped>>
        /\ hand' = [hand EXCEPT ![c] = NoMsg] /\ wpc[c] = "write"
    BY <1>3 DEF PumpWriteOK, PumpWriteFail, connVars
  <2>2. hand[c] \in Msgs
    BY <2>1 DEF ControlOK
  <2>3. \A m \in Msgs : m # hand[c] /\ Open(m) => Open(m)'
    BY <2>1 DEF Open, InQueue, Unresolved, readerVars
  <2>4. Settled' \subseteq Settled \cup {hand[c]}
    BY <2>1, <2>3 DEF Settled
  <2> QED
    BY <1>0, <1>3, <2>2, <2>4 DEF Accounted
<1>4. CASE PumpDrain(c)
  BY <1>4 DEF PumpDrain, DrainOK, Undisturbed, pumpVars
<1> QED
  BY <1>1, <1>2, <1>3, <1>4 DEF PumpStep

\* Every step of a relay in which nothing is closed accounts for what it settles.
LEMMA AccountedStep ==
  ASSUME KnownOK, DrainOK, Undisturbed', [RelayNext]_vars
  PROVE  Accounted
<1>1. ASSUME NEW c \in Conns, PeerStep(c) PROVE Accounted
  <2>1. UNCHANGED <<outChan, hand, stripped, matched, delivered, noRecip>>
    BY <1>1 DEF PeerStep, Accept, ReadFrame, ReadInvalid, ReadError, relayVars, readerVars, pumpVars,
       connVars, bufVars, countVars
  <2>2. \A d \in Conns : rpc[d] \in {"lookup", "retain", "push", "undo"} => rpc'[d] = rpc[d] /\ cur'[d] = cur[d]
    BY <1>1 DEF PeerStep, Accept, ReadFrame, ReadInvalid, ReadError, relayVars, readerVars, KnownOK,
       TypeInv, RelayTypeOK
  <2>3. Ledger \in Nat /\ Ledger' = Ledger
    BY <1>1, <2>1, ReaderLedger DEF KnownOK
  <2> QED
    BY <2>1, <2>2, <2>3, OpenIdle DEF Accounted, Unresolved
<1>2. CASE UNCHANGED vars
  <2>1. Ledger \in Nat
    BY UncountedFinite DEF Ledger, KnownOK, TypeInv, RelayTypeOK
  <2>2. Ledger' = Ledger
    BY <1>2 DEF Ledger, Uncounted, vars, relayVars, pumpVars, countVars
  <2> QED
    BY <1>2, <2>1, <2>2, OpenIdle DEF vars, relayVars, readerVars, pumpVars, connVars, bufVars,
       Accounted, Unresolved
<1> QED
  BY <1>1, <1>2, AccountedReader, AccountedPump DEF RelayNext

\* One more element adds at most one, and a union counts at most both sets.
LEMMA SizeBounds ==
  ASSUME NEW S, NEW T, IsFiniteSet(S), IsFiniteSet(T), NEW x, NEW U \in SUBSET S,
         NEW V \in SUBSET (S \cup {x}), NEW W \in SUBSET (S \cup T)
  PROVE  /\ Cardinality(S) \in Nat /\ Cardinality(T) \in Nat
         /\ Cardinality(U) \in Nat /\ Cardinality(U) <= Cardinality(S)
         /\ Cardinality(V) \in Nat /\ Cardinality(V) <= Cardinality(S) + 1
         /\ Cardinality(W) \in Nat /\ Cardinality(W) <= Cardinality(S) + Cardinality(T)
<1>1. Cardinality(S) \in Nat /\ Cardinality(T) \in Nat
  BY FS_CardinalityType
<1>2. Cardinality(U) \in Nat /\ Cardinality(U) <= Cardinality(S)
  BY FS_Subset, FS_CardinalityType
<1>3. Cardinality(V) \in Nat /\ Cardinality(V) <= Cardinality(S) + 1
  <2>1. /\ IsFiniteSet(S \cup {x})
        /\ Cardinality(S \cup {x}) = IF x \in S THEN Cardinality(S) ELSE Cardinality(S) + 1
    BY FS_AddElement
  <2>2. Cardinality(V) \in Nat /\ Cardinality(V) <= Cardinality(S \cup {x})
    BY <2>1, FS_Subset, FS_CardinalityType
  <2> QED
    BY <1>1, <2>1, <2>2
<1>4. Cardinality(W) \in Nat /\ Cardinality(W) <= Cardinality(S) + Cardinality(T)
  <2>1. /\ IsFiniteSet(S \cup T)
        /\ Cardinality(S \cup T) = Cardinality(S) + Cardinality(T) - Cardinality(S \cap T)
    BY FS_Union
  <2>2. Cardinality(S \cap T) \in Nat
    <3>1. S \cap T \in SUBSET S
      OBVIOUS
    <3> QED
      BY <3>1, FS_Subset, FS_CardinalityType
  <2>3. Cardinality(W) \in Nat /\ Cardinality(W) <= Cardinality(S \cup T)
    BY <2>1, FS_Subset, FS_CardinalityType
  <2> QED
    BY <1>1, <2>1, <2>2, <2>3
<1> QED
  BY <1>1, <1>2, <1>3, <1>4

\* What is settled stays counted.
LEMMA AccountStep ==
  ASSUME KnownOK, KnownOK', DrainOK, AccountOK, [RelayNext]_vars
  PROVE  AccountOK'
<1> SUFFICES ASSUME Undisturbed' PROVE Cardinality(Settled') <= Ledger'
  BY DEF AccountOK
<1> DEFINE n == Cardinality(Settled)
           nn == Cardinality(Settled')
           t == Ledger
           tt == Ledger'
<1>1. Undisturbed /\ Accounted
  BY DrainStep, AccountedStep DEF KnownOK
<1>2. t \in Nat /\ tt \in Nat /\ n <= t
  <2>1. t \in Nat
    BY UncountedFinite DEF Ledger, KnownOK, TypeInv, RelayTypeOK
  <2>2. tt \in Nat
    BY LedgerNext
  <2>3. n <= t
    BY <1>1 DEF AccountOK
  <2> QED
    BY <2>1, <2>2, <2>3
<1>3. IsFiniteSet(Settled) /\ n \in Nat
  BY CountsFinite
<1>4. ASSUME Settled' \subseteq Settled, t <= tt PROVE nn <= tt
  <2>1. t <= tt /\ nn \in Nat /\ nn <= n
    BY <1>3, <1>4, FS_Subset, FS_CardinalityType
  <2> HIDE DEF n, nn, t, tt
  <2> QED
    BY <1>2, <1>3, <2>1
<1>5. ASSUME NEW m \in Msgs, Settled' \subseteq Settled \cup {m}, tt = t + 1
      PROVE  nn <= tt
  <2>1. tt = t + 1 /\ nn \in Nat /\ nn <= n + 1
    <3> DEFINE S == Settled
               V == Settled'
    <3>1. V \in SUBSET (S \cup {m}) /\ S \in SUBSET S
      BY <1>5
    <3>2. IsFiniteSet(S)
      BY <1>3
    <3> HIDE DEF S, V
    <3>3. Cardinality(V) \in Nat /\ Cardinality(V) <= Cardinality(S) + 1
      BY <3>1, <3>2, SizeBounds
    <3> QED
      BY <1>5, <3>3 DEF S, V
  <2> HIDE DEF n, nn, t, tt
  <2> QED
    BY <1>2, <1>3, <2>1
<1> QED
  BY <1>1, <1>4, <1>5 DEF Accounted

\* The counters account for every message processed, as long as no connection
\* was closed: what is not counted as delivered or failed is still held.
THEOREM NothingLostSilently == RelaySpec => []NoSilentLoss
<1>1. RelayInit => ProcessedOK /\ DrainOK /\ AccountOK
  <2> SUFFICES ASSUME RelayInit PROVE ProcessedOK /\ DrainOK /\ AccountOK
    OBVIOUS
  <2>1. Processed = {} /\ Settled = {} /\ processed = 0
    BY DEF RelayInit, Processed, Settled
  <2>3. Uncounted = {} /\ delivered = 0 /\ noRecip = 0
    BY DEF RelayInit, Uncounted
  <2>4. Ledger = 0
    BY <2>3, FS_EmptySet DEF Ledger
  <2>2. DrainOK /\ \A c \in Conns : rpc[c] # "handle"
    BY DEF RelayInit, DrainOK
  <2> QED
    BY <2>1, <2>2, <2>4, FS_EmptySet DEF ProcessedOK, AccountOK, Processed
<1>2. KnownOK /\ KnownOK' /\ ProcessedOK /\ DrainOK /\ AccountOK /\ [RelayNext]_vars
        => ProcessedOK' /\ DrainOK' /\ AccountOK'
  BY ProcessedStep, DrainStep, AccountStep DEF KnownOK
<1>3. KnownOK /\ RefsExact /\ ProcessedOK /\ AccountOK => NoSilentLoss
  <2> SUFFICES ASSUME KnownOK, RefsExact, ProcessedOK, AccountOK, Undisturbed
               PROVE  processed <= delivered + noRecip + Cardinality({m \in Msgs : refs[m] > 0})
                                                       + Cardinality(Uncounted)
    BY DEF NoSilentLoss, Undisturbed
  <2> DEFINE live == {m \in Msgs : refs[m] > 0}
  <2>1. IsFiniteSet(live) /\ Cardinality(live) \in Nat
    <3>1. live \in SUBSET Msgs /\ IsFiniteSet(Msgs)
      BY RelayAssumption, FS_Interval DEF Msgs
    <3> QED
      BY <3>1, FS_Subset, FS_CardinalityType
  <2>2. ASSUME NEW m \in Msgs, Open(m) PROVE refs[m] > 0
    <3>1. PICK c \in Conns, s \in Roles : Holds(c, s, m)
      BY <2>2, HoldsBy DEF Open, Unresolved, Roles
    <3>2. <<c, s>> \in Holders(m)
      BY <3>1 DEF Holders
    <3>3. Cardinality(Holders(m)) # 0
      BY <3>2, HoldersFinite, FS_EmptySet
    <3> QED
      BY <3>3, HoldersFinite DEF RefsExact
  <2>3. Processed \subseteq Settled \cup live
    BY <2>2 DEF Processed, Settled
  <2> HIDE DEF live
  <2>5. /\ Cardinality(Processed) \in Nat
        /\ Cardinality(Processed) <= Cardinality(Settled) + Cardinality(live)
    BY <2>1, <2>3, CountsFinite, SizeBounds
  <2>6. Cardinality(Settled) <= Ledger /\ processed = Cardinality(Processed)
    BY DEF AccountOK, ProcessedOK
  <2>7. Ledger \in Nat /\ processed <= Ledger + Cardinality(live)
    <3>1. Ledger \in Nat
      BY UncountedFinite DEF Ledger, KnownOK, TypeInv, RelayTypeOK
    <3> QED
      BY <2>1, <2>5, <2>6, <3>1, CountsFinite
  <2>8. processed <= delivered + noRecip + Cardinality(live) + Cardinality(Uncounted)
    BY <2>1, <2>7, UncountedFinite DEF Ledger, KnownOK, TypeInv, RelayTypeOK
  <2> QED
    BY <2>8 DEF live
<1>4. RelaySpec => [](ProcessedOK /\ DrainOK /\ AccountOK)
  BY <1>1, <1>2, KnownHolds, PTL DEF RelaySpec
<1> QED
  BY <1>3, <1>4, KnownHolds, ReferencesExact, PTL

-----------------------------------------------------------------------------
USE RegistryAssumption, RelayAssumption

-----------------------------------------------------------------------------
(* The multicast. *)

\* Nothing but a frame that was read and a write that succeeded changes these.
LEMMA OthersUnchanged ==
  ASSUME [RelayNext]_vars,
         \A c \in Conns : ~ReadFrame(c) /\ ~PumpWriteOK(c)
  PROVE  UNCHANGED <<received, from, to, wire>>
<1>1. ASSUME NEW c \in Conns, ReaderStep(c) PROVE UNCHANGED <<received, from, to, wire>>
  BY <1>1 DEF ReaderStep, AcceptCount, StartLoop, Handle, Lookup, HandleDone, DeliverRetain,
     DeliverPush, DeliverUndo, ReleaseOwn, Leave, LeaveCount, ReaderClose, ReaderHangup,
     relayVars, bufVars, pumpVars
<1>2. ASSUME NEW c \in Conns, PeerStep(c) PROVE UNCHANGED <<received, from, to, wire>>
  BY <1>2 DEF PeerStep, Accept, ReadInvalid, ReadError, relayVars, bufVars, pumpVars
<1>3. ASSUME NEW c \in Conns, PumpStep(c) PROVE UNCHANGED <<received, from, to, wire>>
  BY <1>3 DEF PumpStep, PumpRecv, PumpExit, PumpWriteFail, PumpCountSuccess, PumpCountFailure,
     PumpClose, PumpHangup, PumpDrain, bufVars, pumpVars
<1>4. CASE UNCHANGED vars
  BY <1>4 DEF vars, relayVars, bufVars, pumpVars
<1> QED
  BY <1>1, <1>2, <1>3, <1>4 DEF RelayNext

\* The deliveries that were counted or are about to be.
Shown == delivered + Cardinality(Sent)

\* Only a write that succeeded adds one to them.
LEMMA ShownStep ==
  ASSUME TypeInv, [RelayNext]_vars
  PROVE  /\ (\A c \in Conns : ~PumpWriteOK(c)) => Shown' = Shown
         /\ \A c \in Conns : PumpWriteOK(c) => Shown' = Shown + 1
<1> DEFINE u == Cardinality(Sent)
           v == Cardinality(Sent')
<1>1. u \in Nat /\ delivered \in Nat /\ IsFiniteSet(Sent) /\ wpc \in [Conns -> PumpPCs]
  BY UncountedFinite DEF TypeInv, RelayTypeOK
<1>2. Shown = delivered + u /\ Shown' = delivered' + v
  BY DEF Shown
<1>3. ASSUME NEW c \in Conns, PumpWriteOK(c) PROVE Shown' = Shown + 1
  <2>1. wpc[c] = "write" /\ delivered' = delivered /\ wpc' = [wpc EXCEPT ![c] = "sent"]
    BY <1>3 DEF PumpWriteOK, countVars
  <2>2. Sent' = Sent \cup {c} /\ c \notin Sent
    BY <1>1, <2>1 DEF Sent
  <2>3. v = u + 1
    BY <1>1, <2>2, FS_AddElement
  <2> HIDE DEF u, v
  <2> QED
    BY <1>1, <1>2, <2>1, <2>3
<1>4. ASSUME NEW c \in Conns, PumpCountSuccess(c) PROVE Shown' = Shown
  <2>1. wpc[c] = "sent" /\ delivered' = delivered + 1 /\ wpc' = [wpc EXCEPT ![c] = "recv"]
    BY <1>4 DEF PumpCountSuccess
  <2>2. Sent' = Sent \ {c} /\ c \in Sent
    BY <1>1, <2>1 DEF Sent
  <2>3. v = u - 1
    BY <1>1, <2>2, FS_RemoveElement
  <2> HIDE DEF u, v
  <2> QED
    BY <1>1, <1>2, <2>1, <2>3
<1>5. ASSUME NEW c \in Conns, \/ PumpRecv(c) \/ PumpExit(c) \/ PumpWriteFail(c)
                              \/ PumpCountFailure(c) \/ PumpClose(c) \/ PumpHangup(c)
                              \/ PumpDrain(c)
      PROVE  Shown' = Shown
  <2>1. /\ wpc[c] # "sent" /\ wpc'[c] # "sent" /\ delivered' = delivered
        /\ \A d \in Conns : d # c => wpc'[d] = wpc[d]
    BY <1>1, <1>5 DEF PumpRecv, PumpExit, PumpWriteFail, PumpCountFailure, PumpClose, PumpHangup,
       PumpDrain, pumpVars, countVars
  <2>2. Sent' = Sent
    BY <2>1 DEF Sent
  <2> QED
    BY <1>2, <2>1, <2>2
<1>6. ASSUME NEW c \in Conns, ReaderStep(c) \/ PeerStep(c) PROVE Shown' = Shown
  <2>1. Sent' = Sent
    BY <1>6, ReaderLeavesPumps
  <2>2. delivered' = delivered
    BY <1>6 DEF ReaderStep, PeerStep, Accept, ReadFrame, ReadInvalid, ReadError, AcceptCount,
       StartLoop, Handle, Lookup, HandleDone, DeliverRetain, DeliverPush, DeliverUndo,
       ReleaseOwn, Leave, LeaveCount, ReaderClose, ReaderHangup, relayVars, countVars
  <2> QED
    BY <1>2, <2>1, <2>2
<1>7. CASE UNCHANGED vars
  <2>1. Sent' = Sent /\ delivered' = delivered
    BY <1>7 DEF Sent, vars, relayVars, pumpVars, countVars
  <2>2. \A c \in Conns : ~PumpWriteOK(c)
    BY <1>1, <1>7 DEF PumpWriteOK, vars, relayVars, pumpVars
  <2> QED
    BY <1>2, <2>1, <2>2
<1> QED
  BY <1>3, <1>4, <1>5, <1>6, <1>7 DEF RelayNext, PumpStep

\* A frame that was read is all that adds a message.
LEMMA OnlyReadReceives ==
  ASSUME TypeInv, [RelayNext]_vars, received' # received
  PROVE  \E c \in Conns : ReadFrame(c)
<1>1. ASSUME NEW c \in Conns, PumpWriteOK(c) PROVE received' = received
  BY <1>1 DEF PumpWriteOK
<1> QED
  BY <1>1, OthersUnchanged

\* A message that was received has a sender.
SenderKnown == \A m \in Msgs : m <= received => from[m] \in Conns

\* Its sender is written once, when it is read.
LEMMA SenderStep == TypeInv /\ SenderKnown /\ [RelayNext]_vars => SenderKnown'
<1> SUFFICES ASSUME TypeInv, SenderKnown, [RelayNext]_vars, NEW m \in Msgs, m <= received'
             PROVE  from'[m] \in Conns
  BY DEF SenderKnown
<1>1. CASE m <= received
  BY <1>1, HeaderStep DEF SenderKnown
<1>2. CASE ~(m <= received)
  <2>1. PICK c \in Conns : ReadFrame(c)
    BY <1>2, OnlyReadReceives
  <2>2. received \in Nat /\ received' = received + 1 /\ from' = [from EXCEPT ![received + 1] = c]
    BY <2>1 DEF ReadFrame, TypeInv, RelayTypeOK
  <2>3. m = received + 1
    BY <1>2, <2>2 DEF Msgs
  <2> QED
    BY <2>2, <2>3 DEF TypeInv, RelayTypeOK
<1> QED
  BY <1>1, <1>2

\* So every message that was received has its sender.
LEMMA SenderHolds == RelaySpec => []SenderKnown
<1>1. RelayInit => SenderKnown
  BY DEF RelayInit, SenderKnown, Msgs
<1> QED
  BY <1>1, SenderStep, TypeInvHolds, PTL DEF RelaySpec

\* What the multicast sees of the relay.
Audiences == [m \in Msgs |-> Audience(m)]
Reached   == {p \in Msgs \X PubKeys : OnWire(p[2], p[1])}

\* Nothing but a frame that was read and a write that succeeded is seen.
LEMMA OthersAreInvisible ==
  ASSUME TypeInv, [RelayNext]_vars,
         \A c \in Conns : ~ReadFrame(c) /\ ~PumpWriteOK(c)
  PROVE  UNCHANGED Cast!castVars
<1>1. \A m \in Msgs : Audience(m)' = Audience(m)
  BY OthersUnchanged DEF Audience
<1>2. \A k \in PubKeys, m \in Msgs : OnWire(k, m)' <=> OnWire(k, m)
  BY OthersUnchanged DEF OnWire
<1>3. Audiences' = Audiences /\ Reached' = Reached
  BY <1>1, <1>2 DEF Audiences, Reached
<1> QED
  BY <1>3, OthersUnchanged, ShownStep DEF Cast!castVars, Audiences, Reached, Shown

\* A frame that was read is a submission to its recipients but the sender.
LEMMA ReadIsSubmit ==
  ASSUME TypeInv, NEW c \in Conns, ReadFrame(c)
  PROVE  \E ids \in SUBSET PubKeys : Cast!Submit(ids)
<1>0. /\ received \in 0..MaxMsgs /\ MaxMsgs \in Nat
      /\ from \in [Msgs -> Conns \cup {None}] /\ to \in [Msgs -> SUBSET PubKeys]
  BY DEF TypeInv, RelayTypeOK
<1>1. PICK n \in Msgs : n = received + 1
  BY <1>0 DEF ReadFrame, Msgs
<1>2. PICK ids \in SUBSET PubKeys : to' = [to EXCEPT ![n] = ids]
  BY <1>1 DEF ReadFrame
<1>3. from' = [from EXCEPT ![n] = c] /\ received' = n
  BY <1>1 DEF ReadFrame
<1> DEFINE new == ids \ {KeyOf[c]}
<1>4. \A m \in Msgs : Audience(m)' = IF m = n THEN new ELSE Audience(m)
  BY <1>0, <1>2, <1>3 DEF Audience
<1>5. Audiences' = [Audiences EXCEPT ![n] = new]
  BY <1>4 DEF Audiences
<1>6. Reached' = Reached /\ Shown' = Shown
  <2>1. Reached' = Reached /\ delivered' = delivered
    BY DEF ReadFrame, Reached, OnWire, pumpVars, countVars
  <2>2. Sent' = Sent
    BY ReaderLeavesPumps DEF PeerStep
  <2> QED
    BY <2>1, <2>2 DEF Shown
<1>7. Cast!Submit(new)
  BY <1>1, <1>3, <1>5, <1>6 DEF Cast!Submit, Audiences, Reached, Shown
<1> QED
  BY <1>7

\* What a write pump writes is a message.
LEMMA WrittenIsMessage ==
  ASSUME TypeInv, NEW c \in Conns, PumpWriteOK(c)
  PROVE  hand[c] \in Msgs
<1>1. hand[c] \in Msgs \cup {NoMsg} /\ (hand[c] # NoMsg <=> wpc[c] = "write")
  BY DEF TypeInv, RelayTypeOK, ControlOK
<1> QED
  BY <1>1 DEF PumpWriteOK

\* A write that succeeded takes the message to a key that did not have it.
LEMMA WriteIsReach ==
  ASSUME TypeInv, SenderKnown, AudienceOK, UniqueOK, NEW c \in Conns, PumpWriteOK(c)
  PROVE  Cast!Reach(hand[c], KeyOf[c])
<1> DEFINE m == hand[c]
<1>1. m \in Msgs /\ Has(c, m) /\ KeyOf[c] \in PubKeys
  BY WrittenIsMessage, RegistryAssumption DEF Has
<1>2. m <= received /\ KeyOf[c] \in to[m] /\ KeyOf[c] # KeyOf[from[m]]
  BY <1>1 DEF AudienceOK
<1>3. KeyOf[c] \in Audience(m)
  <2>1. from[m] # None
    BY <1>1, <1>2 DEF SenderKnown
  <2> QED
    BY <1>2, <2>1 DEF Audience
<1>4. ~OnWire(KeyOf[c], m)
  <2>1. ASSUME NEW d \in Conns, KeyOf[d] = KeyOf[c], InWire(d, m) PROVE FALSE
    <3>1. d = c
      BY <1>1, <2>1 DEF UniqueOK, Has
    <3> QED
      BY <1>1, <2>1, <3>1 DEF UniqueOK, PlacesOK
  <2> QED
    BY <2>1 DEF OnWire, InWire
<1>5. \A k \in PubKeys, n \in Msgs : OnWire(k, n)' <=> OnWire(k, n) \/ (n = m /\ k = KeyOf[c])
  <2>1. hand[c] \in Msgs
    BY <1>1
  <2>2. ASSUME NEW d \in Conns, NEW n \in Msgs
        PROVE  InWire(d, n)' <=> InWire(d, n) \/ (d = c /\ n = hand[c])
    <3>1. wire \in [Conns -> Seq(Msgs)]
      BY DEF TypeInv, RelayTypeOK
    <3>2. wire' = [wire EXCEPT ![c] = Append(@, hand[c])]
      BY DEF PumpWriteOK
    <3>3. CASE d # c
      <4>1. wire'[d] = wire[d]
        BY <3>1, <3>2, <3>3
      <4> QED
        BY <3>3, <4>1 DEF InWire
    <3>4. CASE d = c
      <4>1. wire'[d] = Append(wire[d], hand[c]) /\ wire[d] \in Seq(Msgs)
        BY <3>1, <3>2, <3>4
      <4>2. PICK s \in Seq(Msgs) : s = wire[d]
        BY <4>1
      <4>3. PICK e \in Msgs : e = hand[c]
        BY <2>1
      <4>4. (\E i \in DOMAIN Append(s, e) : Append(s, e)[i] = n)
              <=> (\E i \in DOMAIN s : s[i] = n) \/ n = e
        BY ONLY InAppend
      <4> QED
        BY <3>4, <4>1, <4>2, <4>3, <4>4 DEF InWire
    <3> QED
      BY <3>3, <3>4
  <2> QED
    BY <2>2 DEF OnWire, InWire
<1>6. Reached' = Reached \cup {<<m, KeyOf[c]>>}
  <2>1. ASSUME NEW p \in Msgs \X PubKeys PROVE p \in Reached' <=> p \in Reached \cup {<<m, KeyOf[c]>>}
    <3>1. p[1] \in Msgs /\ p[2] \in PubKeys /\ p = <<p[1], p[2]>>
      BY <2>1
    <3>2. p = <<m, KeyOf[c]>> <=> p[1] = m /\ p[2] = KeyOf[c]
      BY <3>1
    <3> QED
      BY <1>5, <3>1, <3>2 DEF Reached
  <2>2. Reached \subseteq Msgs \X PubKeys /\ Reached' \subseteq Msgs \X PubKeys
    BY DEF Reached
  <2> QED
    BY <1>1, <2>1, <2>2
<1>7. <<m, KeyOf[c]>> \notin Reached
  BY <1>4 DEF Reached
<1>8. Shown' = Shown + 1 /\ received' = received /\ Audiences' = Audiences
  <2>1. [RelayNext]_vars
    BY DEF RelayNext, PumpStep
  <2> QED
    BY <2>1, ShownStep DEF PumpWriteOK, Audiences, Audience
<1> HIDE DEF m
<1>9. m <= received /\ KeyOf[c] \in Audiences[m]
  BY <1>1, <1>2, <1>3 DEF Audiences
<1>10. Cast!Reach(m, KeyOf[c])
  BY <1>6, <1>7, <1>8, <1>9 DEF Cast!Reach, Audiences, Reached, Shown
<1> QED
  BY <1>10 DEF m

\* The relay with its registry, queues, pumps and buffers behaves as one atomic
\* lossy multicast, whose deliveries are what IncrementDeliverySuccess counts, or
\* is about to.
THEOREM RelayImplementsMulticast == RelaySpec => ImplementsMulticast
<1>1. RelayInit => Cast!CastInit
  <2> SUFFICES ASSUME RelayInit PROVE Cast!CastInit
    OBVIOUS
  <2>1. Sent = {} /\ delivered = 0
    BY DEF RelayInit, Sent
  <2>2. delivered + Cardinality(Sent) = 0
    BY <2>1, FS_EmptySet
  <2> QED
    BY <2>2 DEF RelayInit, Cast!CastInit, Audience, OnWire
<1>2. TypeInv /\ SenderKnown /\ AudienceOK /\ UniqueOK /\ [RelayNext]_vars => [Cast!CastNext]_(Cast!castVars)
  <2> SUFFICES ASSUME TypeInv, SenderKnown, AudienceOK, UniqueOK, [RelayNext]_vars
               PROVE  [Cast!CastNext]_(Cast!castVars)
    OBVIOUS
  <2>1. ASSUME NEW c \in Conns, ReadFrame(c) PROVE Cast!CastNext
    BY <2>1, ReadIsSubmit DEF Cast!CastNext
  <2>2. ASSUME NEW c \in Conns, PumpWriteOK(c) PROVE Cast!CastNext
    <3>1. hand[c] \in Msgs /\ KeyOf[c] \in PubKeys
      BY <2>2, WrittenIsMessage, RegistryAssumption
    <3> QED
      BY <2>2, <3>1, WriteIsReach DEF Cast!CastNext
  <2> QED
    BY <2>1, <2>2, OthersAreInvisible
<1>3. RelaySpec => [](TypeInv /\ SenderKnown /\ AudienceOK /\ UniqueOK)
  BY SenderHolds, AudienceHolds, UniqueHolds, PTL
<1> QED
  BY <1>1, <1>2, <1>3, PTL DEF RelaySpec, ImplementsMulticast, Cast!CastSpec

-----------------------------------------------------------------------------
(* Nothing is counted twice. What a message may still be counted for is the   *)
(* keys that still await it, and the message itself while it is being routed; *)
(* a key or a message that is through with it was counted at most once.       *)

Loop(c, m)      == cur[c] = m /\ rpc[c] \in {"lookup"} \cup Resolved
Serves(c, m, k) == Loop(c, m) /\ (k \in targets[c] \/ (rpc[c] \in Resolved /\ KeyOf[dest[c]] = k))
Keeps(c, m)     == InQueue(c, m) \/ hand[c] = m
Awaited(m, k)   == \E c \in Conns : Serves(c, m, k) \/ (KeyOf[c] = k /\ Keeps(c, m))
Through         == {p \in Addressed : ~Awaited(p[1], p[2])}
Ended           == {m \in Msgs : stripped[m] /\ \A c \in Conns : ~Loop(c, m)}

\* Who is through with a message stays so, and a count is for one who is now.
Lasting == Through \subseteq Through' /\ Ended \subseteq Ended'
Paid    == \/ Ledger' = Ledger
           \/ /\ Ledger' = Ledger + 1
              /\ \/ \E p \in Through' : p \notin Through
                 \/ \E m \in Ended' : m \notin Ended
PaidOK  == Ledger <= Cardinality(Through) + Cardinality(Ended)

\* A connection keeps a message for its pump only if it did before or is pushed it.
LEMMA KeepsStep ==
  ASSUME KnownOK, KnownOK', [RelayNext]_vars, NEW d \in Conns, NEW m \in Msgs, Keeps(d, m)'
  PROVE  Keeps(d, m) \/ Pushed(d, m)
<1>1. ASSUME InWire(d, m) PROVE InWire(d, m)'
  <2>0. wire \in [Conns -> Seq(Msgs)] /\ hand \in [Conns -> Msgs \cup {NoMsg}]
    BY DEF KnownOK, TypeInv, RelayTypeOK
  <2>1. ASSUME NEW c \in Conns, PumpWriteOK(c) PROVE InWire(d, m)'
    <3>1. PICK e \in Msgs : e = hand[c]
      BY <2>1 DEF PumpWriteOK, KnownOK, TypeInv, ControlOK, RelayTypeOK
    <3>2. wire' = [wire EXCEPT ![c] = Append(@, e)]
      BY <2>1, <3>1 DEF PumpWriteOK
    <3>3. PICK s \in Seq(Msgs) : s = wire[d]
      BY <2>0
    <3>4. wire'[d] = s \/ wire'[d] = Append(s, e)
      BY <2>0, <3>2, <3>3
    <3>5. (\E i \in DOMAIN s : s[i] = m) => \E i \in DOMAIN Append(s, e) : Append(s, e)[i] = m
      BY InAppend
    <3> QED
      BY <1>1, <3>3, <3>4, <3>5 DEF InWire
  <2>2. ASSUME ~\E c \in Conns : PumpWriteOK(c) PROVE wire' = wire
    BY <2>2 DEF RelayNext, ReaderStep, AcceptCount, StartLoop, Handle, Lookup, HandleDone,
           DeliverRetain, DeliverPush, DeliverUndo, ReleaseOwn, Leave, LeaveCount,
           ReaderClose, ReaderHangup, PeerStep, Accept, ReadFrame, ReadInvalid, ReadError,
           PumpStep, PumpRecv, PumpExit, PumpWriteFail, PumpCountSuccess,
           PumpCountFailure, PumpClose, PumpHangup, PumpDrain, vars, relayVars, pumpVars
  <2> QED
    BY <1>1, <2>1, <2>2 DEF InWire
<1>2. Has(d, m) \/ Pushed(d, m)
  BY HasStep DEF KnownOK, Has, Keeps
<1>3. ~InWire(d, m)'
  BY DEF KnownOK, UniqueOK, PlacesOK, Keeps
<1> QED
  BY <1>1, <1>2, <1>3 DEF Has, Keeps

\* A read loop serves no key that it did not have to serve before, once the
\* message is processed.
LEMMA ServesStep ==
  ASSUME KnownOK, ProcessedOK, [RelayNext]_vars, NEW b \in Conns, NEW m \in Msgs, stripped[m],
         Loop(b, m)'
  PROVE  /\ Loop(b, m)
         /\ \A k \in PubKeys : Serves(b, m, k)' => Serves(b, m, k)
<1>1. CASE UNCHANGED LocalsOf(b)
  BY <1>1 DEF LocalsOf, Loop, Serves
<1>2. CASE ReaderStep(b) \/ PeerStep(b)
  <2> USE DEF KnownOK, TypeInv, RelayTypeOK, Loop, Serves, Resolved
  <2>1. CASE StartLoop(b) \/ ReadInvalid(b) \/ ReadError(b) \/ ReaderClose(b) \/ ReaderHangup(b)
             \/ HandleDone(b) \/ ReleaseOwn(b) \/ ReadFrame(b)
    BY <2>1 DEF StartLoop, ReadInvalid, ReadError, ReaderClose, ReaderHangup, HandleDone, ReleaseOwn,
       ReadFrame
  <2>2. CASE Accept(b) \/ AcceptCount(b) \/ Leave(b) \/ LeaveCount(b)
    BY <2>2 DEF Accept, AcceptCount, Leave, LeaveCount, relayVars, readerVars
  <2>3. CASE Handle(b)
    BY <2>3 DEF Handle, ProcessedOK
  <2>4. CASE Lookup(b)
    BY <2>4 DEF Lookup, NoStaleEntry, GetConnectorByKey, Registered, RegTypeOK
  <2>5. CASE DeliverRetain(b)
    BY <2>5 DEF DeliverRetain
  <2>6. CASE DeliverPush(b)
    BY <2>6 DEF DeliverPush
  <2>7. CASE DeliverUndo(b)
    BY <2>7 DEF DeliverUndo
  <2> QED
    BY <1>2, <2>1, <2>2, <2>3, <2>4, <2>5, <2>6, <2>7 DEF ReaderStep, PeerStep
<1>3. ASSUME ~(ReaderStep(b) \/ PeerStep(b)) PROVE UNCHANGED LocalsOf(b)
  BY <1>3, BystanderStep DEF RelayNext, KnownOK
<1> QED
  BY <1>1, <1>2, <1>3

\* So nobody awaits a processed message who did not before.
LEMMA AwaitedStep ==
  ASSUME KnownOK, KnownOK', ProcessedOK, [RelayNext]_vars, NEW m \in Msgs, stripped[m],
         NEW k \in PubKeys, Awaited(m, k)'
  PROVE  Awaited(m, k)
<1>1. PICK c \in Conns : Serves(c, m, k)' \/ (KeyOf[c] = k /\ Keeps(c, m)')
  BY DEF Awaited
<1>2. CASE Serves(c, m, k)'
  BY <1>2, ServesStep DEF Awaited, Serves
<1>3. CASE KeyOf[c] = k /\ Keeps(c, m)'
  <2>1. CASE Keeps(c, m)
    BY <1>3, <2>1 DEF Awaited
  <2>2. CASE Pushed(c, m)
    <3>1. PICK b \in Conns : rpc[b] = "push" /\ c = dest[b] /\ m = cur[b]
      BY <2>2 DEF Pushed, DeliverPush
    <3>2. Serves(b, m, k)
      BY <1>3, <3>1 DEF Serves, Loop, Resolved
    <3> QED
      BY <3>2 DEF Awaited
  <2> QED
    BY <1>3, <2>1, <2>2, KeepsStep
<1> QED
  BY <1>1, <1>2, <1>3

\* The recipients of a processed message do not change.
LEMMA AudienceStays ==
  ASSUME KnownOK, ProcessedOK, [RelayNext]_vars, NEW m \in Msgs, stripped[m]
  PROVE  stripped'[m] /\ Audience(m)' = Audience(m)
<1>1. m <= received
  BY DEF ProcessedOK
<1>2. to'[m] = to[m] /\ from'[m] = from[m] /\ stripped'[m]
  BY <1>1, HeaderStep DEF KnownOK
<1> QED
  BY <1>2 DEF Audience

\* Every step: who is through stays through.
LEMMA LastingStep ==
  ASSUME KnownOK, KnownOK', ProcessedOK, [RelayNext]_vars
  PROVE  Lasting
<1>1. ASSUME NEW p \in Through PROVE p \in Through'
  <2>1. PICK m \in Msgs, k \in PubKeys : p = <<m, k>>
    BY DEF Through, Addressed
  <2>2. stripped[m] /\ k \in Audience(m) /\ ~Awaited(m, k)
    BY <2>1 DEF Through, Addressed
  <2>3. stripped'[m] /\ k \in Audience(m)' /\ ~Awaited(m, k)'
    BY <2>2, AudienceStays, AwaitedStep
  <2> QED
    BY <2>1, <2>3 DEF Through, Addressed
<1>2. ASSUME NEW m \in Ended PROVE m \in Ended'
  <2>1. m \in Msgs /\ stripped[m] /\ \A c \in Conns : ~Loop(c, m)
    BY DEF Ended
  <2>2. stripped'[m] /\ \A c \in Conns : ~Loop(c, m)'
    BY <2>1, AudienceStays, ServesStep
  <2> QED
    BY <2>1, <2>2 DEF Ended
<1> QED
  BY <1>1, <1>2 DEF Lasting

\* A refused push is counted for its target, a message without a recipient found
\* for itself, at the end of their turns in the loop.
LEMMA PaidReader ==
  ASSUME KnownOK, KnownOK', ProcessedOK, NEW c \in Conns, ReaderStep(c)
  PROVE  Paid
<1>0. /\ [RelayNext]_vars /\ rpc \in [Conns -> ReaderPCs]
      /\ UNCHANGED <<delivered, noRecip>> => Ledger' = Ledger
      /\ delivered' = delivered /\ noRecip' = noRecip + 1 => Ledger' = Ledger + 1
  BY ReaderLedger DEF KnownOK, TypeInv, RelayTypeOK, RelayNext
<1>1. CASE DeliverUndo(c)
  <2>1. /\ rpc[c] = "undo" /\ rpc' = [rpc EXCEPT ![c] = "lookup"] /\ cur' = cur /\ targets' = targets
        /\ outChan' = outChan /\ hand' = hand /\ stripped' = stripped
        /\ delivered' = delivered /\ noRecip' = noRecip + 1
    BY <1>1 DEF DeliverUndo, pumpVars, connVars
  <2>2. PICK m \in Msgs, k \in PubKeys : m = cur[c] /\ k = KeyOf[dest[c]]
    <3>1. cur[c] \in Msgs /\ dest[c] \in Conns
      BY <2>1 DEF KnownOK, TypeInv, RelayTypeOK, ControlOK, Routing, Resolved
    <3> QED
      BY <3>1, RegistryAssumption
  <2>3. stripped[m] /\ from[m] = c /\ k \in to[m] \ {KeyOf[c]} /\ k \in Audience(m)
    BY <2>1, <2>2, RegistryAssumption DEF KnownOK, AudienceOK, RouteOK, Resolved, Audience, NoMsg, Msgs
  <2>4. Awaited(m, k)
    BY <2>1, <2>2 DEF Awaited, Serves, Loop, Resolved
  <2>5. ~Awaited(m, k)'
    <3>1. ASSUME NEW b \in Conns, Serves(b, m, k)' PROVE FALSE
      <4>1. CASE b = c
        BY <1>0, <2>1, <2>2, <3>1, <4>1 DEF Serves, Loop, KnownOK, UniqueOK, PendingOK, Resolved
      <4>2. CASE b # c
        <5>1. cur[b] = m
          BY <2>1, <3>1 DEF Serves, Loop
        <5>2. from[m] = b
          BY <5>1 DEF KnownOK, AudienceOK, RouteOK, NoMsg, Msgs
        <5> QED
          BY <2>3, <4>2, <5>2
      <4> QED
        BY <4>1, <4>2
    <3>2. ASSUME NEW d \in Conns, KeyOf[d] = k, Keeps(d, m)' PROVE FALSE
      <4>1. Has(d, m)
        BY <2>1, <3>2 DEF Keeps, Has, InQueue
      <4> QED
        BY <2>1, <2>2, <3>2, <4>1 DEF KnownOK, UniqueOK, PendingOK, Resolved
    <3> QED
      BY <3>1, <3>2 DEF Awaited
  <2>6. <<m, k>> \in Through' /\ <<m, k>> \notin Through
    <3>1. stripped'[m] /\ k \in Audience(m)'
      BY <1>0, <2>3, AudienceStays
    <3> QED
      BY <2>4, <2>5, <3>1 DEF Through, Addressed
  <2>7. Ledger' = Ledger + 1
    BY <1>0, <2>1
  <2> QED
    BY <2>6, <2>7 DEF Paid
<1>2. CASE HandleDone(c)
  <2>1. /\ rpc[c] = "lookup" /\ rpc' = [rpc EXCEPT ![c] = "release"] /\ cur' = cur
        /\ stripped' = stripped /\ delivered' = delivered
        /\ noRecip' = noRecip \/ noRecip' = noRecip + 1
    BY <1>2 DEF HandleDone, bufVars
  <2>2. PICK m \in Msgs : m = cur[c]
    BY <2>1 DEF KnownOK, TypeInv, RelayTypeOK, ControlOK, Routing
  <2>3. stripped[m] /\ from[m] = c
    BY <2>1, <2>2 DEF KnownOK, AudienceOK, RouteOK, NoMsg, Msgs
  <2>4. m \notin Ended
    BY <2>1, <2>2 DEF Ended, Loop
  <2>5. m \in Ended'
    <3>1. ASSUME NEW b \in Conns, Loop(b, m)' PROVE FALSE
      <4>1. b # c
        BY <1>0, <2>1, <3>1 DEF Loop, Resolved
      <4>2. cur[b] = m
        BY <2>1, <3>1 DEF Loop
      <4>3. from[m] = b
        BY <4>2 DEF KnownOK, AudienceOK, RouteOK, NoMsg, Msgs
      <4> QED
        BY <2>3, <4>1, <4>3
    <3> QED
      BY <2>1, <2>3, <3>1 DEF Ended
  <2>6. noRecip' = noRecip + 1 => Ledger' = Ledger + 1
    BY <1>0, <2>1
  <2> QED
    BY <1>0, <2>1, <2>4, <2>5, <2>6 DEF Paid
<1>3. CASE ~DeliverUndo(c) /\ ~HandleDone(c)
  <2>1. UNCHANGED <<delivered, noRecip>>
    BY <1>3 DEF ReaderStep, AcceptCount, StartLoop, Handle, Lookup, DeliverRetain, DeliverPush,
       ReleaseOwn, Leave, LeaveCount, ReaderClose, ReaderHangup, relayVars, countVars
  <2> QED
    BY <1>0, <2>1 DEF Paid
<1> QED
  BY <1>1, <1>2, <1>3

\* A write is counted for the key it was for, as a delivery or as a failure.
LEMMA PaidPump ==
  ASSUME KnownOK, KnownOK', SenderKnown, ProcessedOK, NEW c \in Conns, PumpStep(c)
  PROVE  Paid
<1>0. [RelayNext]_vars
  BY DEF RelayNext
<1>1. CASE PumpWriteOK(c) \/ PumpWriteFail(c)
  <2>1. /\ UNCHANGED <<readerVars, outChan, stripped>>
        /\ hand' = [hand EXCEPT ![c] = NoMsg] /\ wpc[c] = "write"
    BY <1>1 DEF PumpWriteOK, PumpWriteFail, connVars
  <2>2. PICK m \in Msgs, k \in PubKeys : m = hand[c] /\ k = KeyOf[c]
    <3>1. hand[c] \in Msgs
      BY <2>1 DEF KnownOK, TypeInv, RelayTypeOK, ControlOK
    <3>2. KeyOf[c] \in PubKeys
      BY RegistryAssumption
    <3> QED
      BY <3>1, <3>2
  <2>3. stripped[m] /\ k \in Audience(m) /\ Has(c, m)
    <3>1. Has(c, m)
      BY <2>2 DEF Has
    <3>2. m <= received /\ stripped[m] /\ k \in to[m] /\ k # KeyOf[from[m]]
      BY <2>2, <3>1 DEF KnownOK, AudienceOK
    <3>3. from[m] # None
      BY <3>2, RegistryAssumption DEF SenderKnown
    <3> QED
      BY <3>1, <3>2, <3>3 DEF Audience
  <2>4. Awaited(m, k)
    BY <2>2 DEF Awaited, Keeps
  <2>5. ~Awaited(m, k)'
    <3>1. ASSUME NEW b \in Conns, Serves(b, m, k)' PROVE FALSE
      <4>1. Serves(b, m, k)
        BY <2>1, <3>1 DEF Serves, Loop, readerVars
      <4> QED
        BY <2>2, <2>3, <4>1 DEF Serves, Loop, KnownOK, UniqueOK, PendingOK
    <3>2. ASSUME NEW d \in Conns, KeyOf[d] = k, Keeps(d, m)' PROVE FALSE
      <4>1. hand \in [Conns -> Msgs \cup {NoMsg}] /\ NoMsg # m
        BY DEF KnownOK, TypeInv, RelayTypeOK, NoMsg, Msgs
      <4>2. Keeps(d, m)
        BY <2>1, <3>2, <4>1 DEF Keeps, InQueue
      <4>3. d = c
        BY <2>2, <2>3, <3>2, <4>2 DEF Keeps, Has, KnownOK, UniqueOK
      <4>4. InQueue(c, m)
        BY <2>1, <3>2, <4>1, <4>3 DEF Keeps, InQueue
      <4> QED
        BY <2>2, <4>4 DEF KnownOK, UniqueOK, PlacesOK
    <3> QED
      BY <3>1, <3>2 DEF Awaited
  <2>6. <<m, k>> \in Through' /\ <<m, k>> \notin Through
    <3>1. stripped'[m] /\ k \in Audience(m)'
      BY <1>0, <2>3, AudienceStays
    <3> QED
      BY <2>4, <2>5, <3>1 DEF Through, Addressed
  <2>7. Ledger' = Ledger + 1
    BY <1>1, PumpLedger DEF KnownOK
  <2> QED
    BY <2>6, <2>7 DEF Paid
<1>2. CASE ~PumpWriteOK(c) /\ ~PumpWriteFail(c)
  BY <1>2, PumpLedger DEF KnownOK, Paid
<1> QED
  BY <1>1, <1>2

\* Every step pays for what it counts.
LEMMA PaidStep ==
  ASSUME KnownOK, KnownOK', SenderKnown, ProcessedOK, [RelayNext]_vars
  PROVE  Paid
<1>1. ASSUME NEW c \in Conns, PeerStep(c) PROVE Paid
  <2>1. UNCHANGED <<delivered, noRecip>>
    BY <1>1 DEF PeerStep, Accept, ReadFrame, ReadInvalid, ReadError, relayVars, countVars
  <2> QED
    BY <1>1, <2>1, ReaderLedger DEF KnownOK, Paid
<1>2. CASE UNCHANGED vars
  BY <1>2 DEF vars, relayVars, pumpVars, countVars, Paid, Ledger, Uncounted
<1> QED
  BY <1>1, <1>2, PaidReader, PaidPump DEF RelayNext

\* There are finitely many to count.
LEMMA ThroughFinite ==
  IsFiniteSet(Addressed) /\ IsFiniteSet(Through) /\ IsFiniteSet(Ended)
<1>1. IsFiniteSet(Msgs)
  BY RelayAssumption, FS_Interval DEF Msgs
<1>2. IsFiniteSet(Msgs \X PubKeys)
  BY <1>1, RegistryAssumption, FS_Product
<1>3. Addressed \in SUBSET (Msgs \X PubKeys) /\ Through \in SUBSET Addressed /\ Ended \in SUBSET Msgs
  BY DEF Addressed, Through, Ended
<1>4. IsFiniteSet(Addressed)
  BY <1>2, <1>3, FS_Subset
<1> QED
  BY <1>1, <1>3, <1>4, FS_Subset

\* The same, after a step.
LEMMA ThroughFiniteNext == IsFiniteSet(Through') /\ IsFiniteSet(Ended')
<1>1. IsFiniteSet(Msgs)
  BY RelayAssumption, FS_Interval DEF Msgs
<1>2. IsFiniteSet(Msgs \X PubKeys)
  BY <1>1, RegistryAssumption, FS_Product
<1>3. Through' \in SUBSET (Msgs \X PubKeys) /\ Ended' \in SUBSET Msgs
  BY DEF Addressed, Through, Ended
<1> QED
  BY <1>1, <1>2, <1>3, FS_Subset

\* One who is new among those that are through makes them one more at least.
LEMMA GrowsByOne ==
  ASSUME NEW S, NEW T, IsFiniteSet(S), IsFiniteSet(T), S \subseteq T
  PROVE  /\ Cardinality(S) \in Nat /\ Cardinality(T) \in Nat /\ Cardinality(S) <= Cardinality(T)
         /\ \A x \in T : x \notin S => Cardinality(S) + 1 <= Cardinality(T)
<1>1. /\ Cardinality(S) \in Nat /\ Cardinality(T) \in Nat /\ Cardinality(S) <= Cardinality(T)
  BY FS_Subset, FS_CardinalityType
<1>2. ASSUME NEW x \in T, x \notin S PROVE Cardinality(S) + 1 <= Cardinality(T)
  <2>1. IsFiniteSet(S \cup {x}) /\ Cardinality(S \cup {x}) = Cardinality(S) + 1
    BY <1>2, FS_AddElement
  <2>2. S \cup {x} \in SUBSET T
    BY <1>2
  <2>3. Cardinality(S \cup {x}) <= Cardinality(T)
    BY <2>2, FS_Subset
  <2> QED
    BY <2>1, <2>3
<1> QED
  BY <1>1, <1>2

\* What is counted stays paid for.
LEMMA PaidOKStep ==
  ASSUME KnownOK, KnownOK', SenderKnown, ProcessedOK, PaidOK, [RelayNext]_vars
  PROVE  PaidOK'
<1> DEFINE t  == Ledger
           tt == Ledger'
           a  == Cardinality(Through)
           aa == Cardinality(Through')
           b  == Cardinality(Ended)
           bb == Cardinality(Ended')
<1>1. t \in Nat
  BY UncountedFinite DEF Ledger, KnownOK, TypeInv, RelayTypeOK
<1>2. tt = t \/ (tt = t + 1 /\ (aa >= a + 1 \/ bb >= b + 1))
  <2>1. CASE Ledger' = Ledger
    BY <2>1
  <2>2. CASE tt = t + 1 /\ \E p \in Through' : p \notin Through
    <3>1. /\ IsFiniteSet(Through) /\ IsFiniteSet(Through') /\ Through \subseteq Through'
          /\ \E p \in Through' : p \notin Through
      BY <2>2, ThroughFinite, ThroughFiniteNext, LastingStep DEF Lasting
    <3>2. a + 1 <= aa /\ a \in Nat /\ aa \in Nat
      BY <3>1, GrowsByOne
    <3> HIDE DEF a, aa, t, tt
    <3> QED
      BY <2>2, <3>2
  <2>3. CASE tt = t + 1 /\ \E m \in Ended' : m \notin Ended
    <3>1. /\ IsFiniteSet(Ended) /\ IsFiniteSet(Ended') /\ Ended \subseteq Ended'
          /\ \E m \in Ended' : m \notin Ended
      BY <2>3, ThroughFinite, ThroughFiniteNext, LastingStep DEF Lasting
    <3>2. b + 1 <= bb /\ b \in Nat /\ bb \in Nat
      BY <3>1, GrowsByOne
    <3> HIDE DEF b, bb, t, tt
    <3> QED
      BY <2>3, <3>2
  <2> QED
    BY <2>1, <2>2, <2>3, PaidStep DEF Paid
<1>3. a \in Nat /\ aa \in Nat /\ a <= aa /\ b \in Nat /\ bb \in Nat /\ b <= bb
  <2>1. /\ IsFiniteSet(Through) /\ IsFiniteSet(Through') /\ Through \subseteq Through'
        /\ IsFiniteSet(Ended) /\ IsFiniteSet(Ended') /\ Ended \subseteq Ended'
    BY ThroughFinite, ThroughFiniteNext, LastingStep DEF Lasting
  <2>2. a \in Nat /\ aa \in Nat /\ a <= aa
    BY <2>1, GrowsByOne
  <2>3. b \in Nat /\ bb \in Nat /\ b <= bb
    BY <2>1, GrowsByOne
  <2> QED
    BY <2>2, <2>3
<1>4. t <= a + b
  BY DEF PaidOK
<1> HIDE DEF a, aa, b, bb, t, tt
<1>5. tt <= aa + bb
  BY <1>1, <1>2, <1>3, <1>4
<1> QED
  BY <1>5 DEF PaidOK, a, aa, b, bb, t, tt

\* The counters account for what was processed from both sides: until a connection
\* is closed nothing is missing from them, and nothing is ever counted twice.
THEOREM CountersExact == RelaySpec => []CountersAddUp
<1>1. RelayInit => ProcessedOK /\ PaidOK
  <2> SUFFICES ASSUME RelayInit PROVE ProcessedOK /\ PaidOK
    OBVIOUS
  <2>1. /\ Processed = {} /\ Through = {} /\ Ended = {}
        /\ processed = 0 /\ \A c \in Conns : rpc[c] # "handle"
    BY DEF RelayInit, Processed, Through, Addressed, Ended
  <2>2. Uncounted = {} /\ delivered = 0 /\ noRecip = 0
    BY DEF RelayInit, Uncounted
  <2>3. Ledger = 0
    BY <2>2, FS_EmptySet DEF Ledger
  <2> QED
    BY <2>1, <2>3, FS_EmptySet DEF ProcessedOK, PaidOK, Processed
<1>2. KnownOK /\ KnownOK' /\ SenderKnown /\ ProcessedOK /\ PaidOK /\ [RelayNext]_vars => ProcessedOK' /\ PaidOK'
  BY ProcessedStep, PaidOKStep
<1>3. KnownOK /\ ProcessedOK /\ PaidOK => CountedOnce
  <2> SUFFICES ASSUME KnownOK, ProcessedOK, PaidOK PROVE CountedOnce
    OBVIOUS
  <2>1. /\ Cardinality(Through) \in Nat /\ Cardinality(Addressed) \in Nat
        /\ Cardinality(Through) <= Cardinality(Addressed)
    <3>1. Through \subseteq Addressed
      BY DEF Through
    <3> QED
      BY <3>1, ThroughFinite, GrowsByOne
  <2>2. /\ Cardinality(Ended) \in Nat /\ Cardinality(Processed) \in Nat
        /\ Cardinality(Ended) <= Cardinality(Processed)
    <3>1. Ended \subseteq Processed
      BY DEF Ended, Processed
    <3> QED
      BY <3>1, ThroughFinite, CountsFinite, GrowsByOne
  <2>3. processed = Cardinality(Processed) /\ delivered \in Nat /\ noRecip \in Nat
    BY DEF ProcessedOK, KnownOK, TypeInv, RelayTypeOK
  <2>4. delivered + noRecip <= Ledger /\ Ledger \in Nat
    BY <2>3, UncountedFinite DEF Ledger
  <2>5. delivered + noRecip \in Nat
    BY <2>3
  <2>6. Ledger <= Cardinality(Through) + Cardinality(Ended)
    BY DEF PaidOK
  <2> DEFINE t == delivered + noRecip
  <2>7. t <= Cardinality(Addressed) + Cardinality(Processed)
    <3>1. t <= Ledger /\ t \in Nat
      BY <2>4, <2>5
    <3> HIDE DEF t
    <3> QED
      BY <2>1, <2>2, <2>4, <2>6, <3>1
  <2> QED
    BY <2>3, <2>7 DEF CountedOnce
<1>4. RelaySpec => [](ProcessedOK /\ PaidOK)
  BY <1>1, <1>2, KnownHolds, SenderHolds, PTL DEF RelaySpec
<1>5. NoSilentLoss /\ CountedOnce => CountersAddUp
  BY DEF CountersAddUp
<1> QED
  BY <1>3, <1>4, <1>5, KnownHolds, NothingLostSilently, PTL

-----------------------------------------------------------------------------
(* The order on a link. *)

\* Of two messages of one sender the first is the older one.
Before(f, m, n) == f[m] = f[n] => m < n
InOrder(f, s)   == \A i, j \in DOMAIN s : i < j => Before(f, s[i], s[j])

\* A message behind all others keeps the order.
LEMMA InOrderAppend ==
  ASSUME NEW f, NEW s \in Seq(Msgs), NEW e \in Msgs, InOrder(f, s),
         \A i \in DOMAIN s : Before(f, s[i], e)
  PROVE  InOrder(f, Append(s, e))
<1>1. /\ DOMAIN Append(s, e) = 1..(Len(s) + 1) /\ DOMAIN s = 1..Len(s) /\ Len(s) \in Nat
      /\ Append(s, e)[Len(s) + 1] = e
      /\ \A i \in 1..Len(s) : Append(s, e)[i] = s[i]
  OBVIOUS
<1> SUFFICES ASSUME NEW i \in DOMAIN Append(s, e), NEW j \in DOMAIN Append(s, e), i < j
             PROVE  Before(f, Append(s, e)[i], Append(s, e)[j])
  BY DEF InOrder
<1>2. i \in DOMAIN s
  BY <1>1
<1>3. CASE j \in DOMAIN s
  BY <1>1, <1>2, <1>3 DEF InOrder
<1>4. CASE j = Len(s) + 1
  BY <1>1, <1>2, <1>4
<1> QED
  BY <1>1, <1>3, <1>4

\* The head of an ordered sequence is before the others, which are ordered.
LEMMA InOrderTail ==
  ASSUME NEW f, NEW s \in Seq(Msgs), s # <<>>, InOrder(f, s)
  PROVE  InOrder(f, Tail(s)) /\ \A i \in DOMAIN Tail(s) : Before(f, Head(s), Tail(s)[i])
<1>1. /\ DOMAIN s = 1..Len(s) /\ DOMAIN Tail(s) = 1..(Len(s) - 1)
      /\ Len(s) \in Nat \ {0} /\ Head(s) = s[1]
      /\ \A i \in 1..(Len(s) - 1) : Tail(s)[i] = s[i + 1]
  OBVIOUS
<1>2. \A i \in DOMAIN Tail(s) : i + 1 \in DOMAIN s /\ 1 \in DOMAIN s /\ 1 < i + 1
  BY <1>1
<1>3. \A i, j \in DOMAIN Tail(s) : i < j => i + 1 < j + 1
  BY <1>1
<1> QED
  BY <1>1, <1>2, <1>3 DEF InOrder

\* Two ordered sequences, one before the other, are ordered together.
LEMMA InOrderConcat ==
  ASSUME NEW f, NEW s \in Seq(Msgs), NEW t \in Seq(Msgs), InOrder(f, s), InOrder(f, t),
         \A i \in DOMAIN s, j \in DOMAIN t : Before(f, s[i], t[j])
  PROVE  InOrder(f, s \o t)
<1>1. /\ Len(s) \in Nat /\ Len(t) \in Nat
      /\ DOMAIN s = 1..Len(s) /\ DOMAIN t = 1..Len(t)
      /\ DOMAIN (s \o t) = 1..(Len(s) + Len(t))
  OBVIOUS
<1>2. \A i \in DOMAIN (s \o t) :
        (s \o t)[i] = IF i <= Len(s) THEN s[i] ELSE t[i - Len(s)]
  OBVIOUS
<1>3. \A i \in DOMAIN (s \o t) :
        IF i <= Len(s) THEN i \in DOMAIN s ELSE i - Len(s) \in DOMAIN t
  BY <1>1
<1> SUFFICES ASSUME NEW i \in DOMAIN (s \o t), NEW j \in DOMAIN (s \o t), i < j
             PROVE  Before(f, (s \o t)[i], (s \o t)[j])
  BY DEF InOrder
<1>4. CASE j <= Len(s)
  <2>1. i <= Len(s)
    BY <1>1, <1>4
  <2> QED
    BY <1>2, <1>3, <1>4, <2>1 DEF InOrder
<1>5. CASE i <= Len(s) /\ ~(j <= Len(s))
  BY <1>2, <1>3, <1>5
<1>6. CASE ~(i <= Len(s)) /\ ~(j <= Len(s))
  <2>1. i - Len(s) < j - Len(s)
    BY <1>1
  <2> QED
    BY <1>2, <1>3, <1>6, <2>1 DEF InOrder
<1> QED
  BY <1>1, <1>4, <1>5, <1>6

-----------------------------------------------------------------------------
\* What is on the WebSocket is before what the pump has in hand, and both are
\* before what is queued.
OrderOK(d, f) ==
  /\ InOrder(f, wire[d]) /\ InOrder(f, outChan[d])
  /\ \A m, n \in Msgs : InWire(d, m) /\ hand[d] = n => Before(f, m, n)
  /\ \A m, n \in Msgs : InWire(d, m) /\ InQueue(d, n) => Before(f, m, n)
  /\ \A m, n \in Msgs : hand[d] = m /\ InQueue(d, n) => Before(f, m, n)

\* What a read loop routes is the latest message it received.
LatestOK(c) ==
  cur[c] # NoMsg => \A m \in Msgs : m <= received /\ from[m] = c => m <= cur[c]

\* The senders of the messages that a connection has do not change.
LEMMA OrderOfSenders ==
  ASSUME TypeInv, AudienceOK, [RelayNext]_vars, NEW d \in Conns, OrderOK(d, from)
  PROVE  OrderOK(d, from')
<1>1. \A m \in Msgs : Has(d, m) => from'[m] = from[m]
  BY HeaderStep DEF AudienceOK
<1>2. \A m, n \in Msgs : Has(d, m) /\ Has(d, n) =>
        (Before(from, m, n) <=> Before(from', m, n))
  BY <1>1 DEF Before
<1>3. /\ \A i \in DOMAIN wire[d] : wire[d][i] \in Msgs /\ InWire(d, wire[d][i])
      /\ \A i \in DOMAIN outChan[d] : outChan[d][i] \in Msgs /\ InQueue(d, outChan[d][i])
  BY DEF TypeInv, RelayTypeOK, InWire, InQueue
<1>4. InOrder(from', wire[d]) /\ InOrder(from', outChan[d])
  BY <1>2, <1>3 DEF OrderOK, InOrder, Has
<1> QED
  BY <1>2, <1>4 DEF OrderOK, Has

-----------------------------------------------------------------------------
\* How the kinds of steps change what a connection has, with senders fixed.
PlaceTypes == /\ outChan \in [Conns -> Seq(Msgs)] /\ wire \in [Conns -> Seq(Msgs)]
              /\ hand \in [Conns -> Msgs \cup {NoMsg}] /\ NoMsg \notin Msgs

\* A pushed message that is younger than all its sender sent before.
LEMMA OrderPush ==
  ASSUME PlaceTypes, NEW f, NEW d \in Conns, OrderOK(d, f), NEW e \in Msgs,
         outChan' = [outChan EXCEPT ![d] = Append(@, e)], hand' = hand, wire' = wire,
         \A m \in Msgs : Has(d, m) => Before(f, m, e)
  PROVE  OrderOK(d, f)'
<1>1. PICK s \in Seq(Msgs) : s = outChan[d]
  BY DEF PlaceTypes
<1>2. outChan'[d] = Append(s, e)
  BY <1>1 DEF PlaceTypes
<1>3. \A i \in DOMAIN s : Before(f, s[i], e)
  BY <1>1 DEF Has, InQueue
<1>4. InOrder(f, outChan'[d])
  BY <1>1, <1>2, <1>3, InOrderAppend DEF OrderOK
<1>5. \A n \in Msgs : InQueue(d, n)' => InQueue(d, n) \/ n = e
  BY <1>1, <1>2, InAppend DEF InQueue
<1> QED
  BY <1>4, <1>5 DEF OrderOK, InWire, Has

\* The pump takes the head of the queue, or drops it.
LEMMA OrderTake ==
  ASSUME PlaceTypes, NEW f, NEW d \in Conns, OrderOK(d, f), outChan[d] # <<>>,
         outChan' = [outChan EXCEPT ![d] = Tail(@)], wire' = wire,
         hand' = hand \/ hand' = [hand EXCEPT ![d] = Head(outChan[d])]
  PROVE  OrderOK(d, f)'
<1>1. PICK s \in Seq(Msgs) : s = outChan[d]
  BY DEF PlaceTypes
<1>2. PICK h \in Msgs : h = Head(s)
  BY <1>1
<1>3. PICK q \in Seq(Msgs) : q = Tail(s)
  <2>1. s # <<>>
    BY <1>1
  <2>2. Tail(s) \in Seq(Msgs)
    BY ONLY <2>1
  <2> QED
    BY <2>2
<1>4. outChan'[d] = q
  BY <1>1, <1>3 DEF PlaceTypes
<1>5. InOrder(f, q) /\ \A i \in DOMAIN q : Before(f, h, q[i])
  <2>1. InOrder(f, s) /\ s # <<>>
    BY <1>1 DEF OrderOK
  <2> QED
    BY <1>2, <1>3, <2>1, InOrderTail
<1>6. ASSUME NEW n \in Msgs PROVE InQueue(d, n) <=> InQueue(d, n)' \/ n = h
  <2>1. (\E i \in DOMAIN s : s[i] = n)
          <=> n = Head(s) \/ (\E i \in DOMAIN Tail(s) : Tail(s)[i] = n)
    BY <1>1, InTail
  <2> QED
    BY <1>1, <1>2, <1>3, <1>4, <2>1 DEF InQueue
<1>7. \A n \in Msgs : InQueue(d, n)' => Before(f, h, n)
  BY <1>4, <1>5 DEF InQueue
<1>8. hand'[d] = hand[d] \/ hand'[d] = h
  BY <1>1, <1>2 DEF PlaceTypes
<1>9. /\ \A m, n \in Msgs : InWire(d, m)' /\ hand'[d] = n => Before(f, m, n)
      /\ \A m, n \in Msgs : InWire(d, m)' /\ InQueue(d, n)' => Before(f, m, n)
      /\ \A m, n \in Msgs : hand'[d] = m /\ InQueue(d, n)' => Before(f, m, n)
  BY <1>6, <1>7, <1>8 DEF OrderOK, InWire
<1> QED
  BY <1>4, <1>5, <1>9 DEF OrderOK

\* The pump writes what it has in hand.
LEMMA OrderWrite ==
  ASSUME PlaceTypes, NEW f, NEW d \in Conns, OrderOK(d, f), hand[d] \in Msgs,
         wire' = [wire EXCEPT ![d] = Append(@, hand[d])],
         hand' = [hand EXCEPT ![d] = NoMsg], outChan' = outChan
  PROVE  OrderOK(d, f)'
<1>1. PICK s \in Seq(Msgs), h \in Msgs : s = wire[d] /\ h = hand[d]
  BY DEF PlaceTypes
<1>2. wire'[d] = Append(s, h) /\ hand'[d] = NoMsg
  BY <1>1 DEF PlaceTypes
<1>3. \A i \in DOMAIN s : Before(f, s[i], h)
  BY <1>1 DEF OrderOK, InWire
<1>4. InOrder(f, wire'[d])
  BY <1>1, <1>2, <1>3, InOrderAppend DEF OrderOK
<1>5. \A n \in Msgs : InWire(d, n)' => InWire(d, n) \/ n = h
  BY <1>1, <1>2, InAppend DEF InWire
<1> QED
  BY <1>1, <1>2, <1>4, <1>5 DEF OrderOK, InQueue, PlaceTypes

\* A connection that nothing is pushed to, taken from or written to, is as it was.
LEMMA OrderIdle ==
  ASSUME NEW f, NEW d \in Conns, OrderOK(d, f),
         outChan'[d] = outChan[d], wire'[d] = wire[d], hand'[d] \in {hand[d], NoMsg}, NoMsg \notin Msgs
  PROVE  OrderOK(d, f)'
  BY DEF OrderOK, InWire, InQueue

\* What a read loop pushes is younger than all the recipient has of it.
LEMMA PushedIsLatest ==
  ASSUME TypeInv, AudienceOK, UniqueOK, NEW c \in Conns, LatestOK(c), DeliverPush(c),
         Accepts(dest[c]), NEW m \in Msgs, Has(dest[c], m)
  PROVE  Before(from, m, cur[c])
<1>1. dest[c] \in Conns /\ cur[c] \in Msgs /\ cur[c] # NoMsg
  BY DEF DeliverPush, TypeInv, ControlOK, RelayTypeOK, Resolved, Routing
<1>2. Pushed(dest[c], cur[c])
  BY DEF Pushed
<1>3. m # cur[c]
  BY <1>1, <1>2, PushedIsNew
<1>4. m <= received /\ from[cur[c]] = c
  BY <1>1 DEF AudienceOK, RouteOK
<1>5. from[m] = from[cur[c]] => m <= cur[c]
  BY <1>1, <1>4 DEF LatestOK
<1>6. m <= cur[c] /\ m # cur[c] => m < cur[c]
  BY <1>1 DEF Msgs
<1> QED
  BY <1>3, <1>5, <1>6 DEF Before

\* The order is kept by every step, with the senders as they are afterwards.
LEMMA OrderStep ==
  ASSUME TypeInv, AudienceOK, UniqueOK, \A c \in Conns : LatestOK(c), [RelayNext]_vars,
         NEW d \in Conns, OrderOK(d, from)
  PROVE  OrderOK(d, from)'
<1>1. PICK f : f = from'
  OBVIOUS
<1>2. OrderOK(d, f)
  BY <1>1, OrderOfSenders
<1>3. PlaceTypes
  BY DEF PlaceTypes, TypeInv, RelayTypeOK, NoMsg, Msgs
<1>4. OrderOK(d, f)'
  <2>1. ASSUME NEW c \in Conns, DeliverPush(c), Accepts(dest[c]) PROVE OrderOK(d, f)'
    <3>1. /\ dest[c] \in Conns /\ cur[c] \in Msgs /\ from' = from
          /\ outChan' = [outChan EXCEPT ![dest[c]] = Append(@, cur[c])]
          /\ hand' = hand /\ wire' = wire
      BY <2>1 DEF DeliverPush, TypeInv, ControlOK, RelayTypeOK, Resolved, Routing, pumpVars, bufVars
    <3>2. CASE d # dest[c]
      <4>1. outChan'[d] = outChan[d]
        BY <1>3, <3>1, <3>2 DEF PlaceTypes
      <4> QED
        BY <1>2, <1>3, <3>1, <4>1, OrderIdle DEF PlaceTypes
    <3>3. CASE d = dest[c]
      <4>1. PICK e \in Msgs : e = cur[c]
        BY <3>1
      <4>2. \A m \in Msgs : Has(d, m) => Before(f, m, e)
        BY <1>1, <2>1, <3>1, <3>3, <4>1, PushedIsLatest
      <4>3. outChan' = [outChan EXCEPT ![d] = Append(@, e)]
        BY <3>1, <3>3, <4>1
      <4> QED
        BY <1>2, <1>3, <3>1, <4>2, <4>3, OrderPush
    <3> QED
      BY <3>2, <3>3
  <2>2. ASSUME NEW c \in Conns, PumpRecv(c) \/ PumpDrain(c) PROVE OrderOK(d, f)'
    <3>1. /\ outChan[c] # <<>> /\ outChan' = [outChan EXCEPT ![c] = Tail(@)] /\ wire' = wire
          /\ hand' = hand \/ hand' = [hand EXCEPT ![c] = Head(outChan[c])]
      BY <2>2 DEF PumpRecv, PumpDrain, pumpVars
    <3>2. CASE d # c
      <4>1. outChan'[d] = outChan[d] /\ hand'[d] = hand[d]
        BY <1>3, <3>1, <3>2 DEF PlaceTypes
      <4> QED
        BY <1>2, <1>3, <3>1, <4>1, OrderIdle DEF PlaceTypes
    <3>3. CASE d = c
      BY <1>2, <1>3, <3>1, <3>3, OrderTake
    <3> QED
      BY <3>2, <3>3
  <2>3. ASSUME NEW c \in Conns, PumpWriteOK(c) PROVE OrderOK(d, f)'
    <3>1. /\ hand[c] \in Msgs /\ outChan' = outChan
          /\ wire' = [wire EXCEPT ![c] = Append(@, hand[c])]
          /\ hand' = [hand EXCEPT ![c] = NoMsg]
      BY <2>3 DEF PumpWriteOK, connVars, TypeInv, ControlOK, RelayTypeOK
    <3>2. CASE d # c
      <4>1. wire'[d] = wire[d] /\ hand'[d] = hand[d]
        BY <1>3, <3>1, <3>2 DEF PlaceTypes
      <4> QED
        BY <1>2, <1>3, <3>1, <4>1, OrderIdle DEF PlaceTypes
    <3>3. CASE d = c
      BY <1>2, <1>3, <3>1, <3>3, OrderWrite
    <3> QED
      BY <3>2, <3>3
  <2>4. ASSUME NEW c \in Conns, PumpWriteFail(c) PROVE OrderOK(d, f)'
    <3>1. outChan' = outChan /\ wire' = wire /\ hand' = [hand EXCEPT ![c] = NoMsg]
      BY <2>4 DEF PumpWriteFail, connVars
    <3>2. hand'[d] \in {hand[d], NoMsg}
      BY <1>3, <3>1 DEF PlaceTypes
    <3> QED
      BY <1>2, <1>3, <3>1, <3>2, OrderIdle DEF PlaceTypes
  <2>5. ASSUME NEW c \in Conns, \/ ReaderStep(c) /\ ~(DeliverPush(c) /\ Accepts(dest[c]))
                                \/ PeerStep(c)
                                \/ PumpExit(c) \/ PumpClose(c) \/ PumpHangup(c)
                                \/ PumpCountSuccess(c) \/ PumpCountFailure(c)
        PROVE  outChan' = outChan /\ hand' = hand /\ wire' = wire
    <3>1. CASE ReaderStep(c) /\ ~(DeliverPush(c) /\ Accepts(dest[c]))
      BY <3>1 DEF ReaderStep, AcceptCount, StartLoop, Handle, Lookup, HandleDone, DeliverRetain,
         DeliverPush, DeliverUndo, ReleaseOwn, Leave, LeaveCount, ReaderClose, ReaderHangup,
         relayVars, readerVars, pumpVars, connVars
    <3>2. CASE PeerStep(c)
      BY <3>2 DEF PeerStep, Accept, ReadFrame, ReadInvalid, ReadError, relayVars, pumpVars, connVars
    <3>3. CASE \/ PumpExit(c) \/ PumpClose(c) \/ PumpHangup(c)
               \/ PumpCountSuccess(c) \/ PumpCountFailure(c)
      BY <3>3 DEF PumpExit, PumpCountSuccess, PumpCountFailure, PumpClose, PumpHangup,
         pumpVars, connVars
    <3> QED
      BY <2>5, <3>1, <3>2, <3>3
  <2>6. CASE outChan' = outChan /\ hand' = hand /\ wire' = wire
    BY <1>2, <1>3, <2>6, OrderIdle DEF PlaceTypes
  <2>7. CASE UNCHANGED vars
    BY <2>6, <2>7 DEF vars, relayVars, pumpVars, connVars
  <2> QED
    BY <2>1, <2>2, <2>3, <2>4, <2>5, <2>6, <2>7 DEF RelayNext, PumpStep, ReaderStep
<1> QED
  BY <1>1, <1>4 DEF OrderOK, InOrder, Before, InWire, InQueue

\* A read loop goes on to route its latest message only.
LEMMA LatestStep ==
  ASSUME TypeInv, [RelayNext]_vars, NEW c \in Conns, LatestOK(c)
  PROVE  LatestOK(c)'
<1>0. /\ received \in Nat /\ cur \in [Conns -> Msgs \cup {NoMsg}]
      /\ from \in [Msgs -> Conns \cup {None}] /\ None \notin Conns
  BY DEF TypeInv, RelayTypeOK
<1>1. ASSUME NEW b \in Conns, ReadFrame(b) PROVE LatestOK(c)'
  <2>1. /\ received' = received + 1 /\ cur' = [cur EXCEPT ![b] = received + 1]
        /\ from' = [from EXCEPT ![received + 1] = b]
    BY <1>1 DEF ReadFrame
  <2>2. CASE b = c
    BY <1>0, <2>1, <2>2 DEF LatestOK, Msgs
  <2>3. CASE b # c
    <3>1. cur'[c] = cur[c]
      BY <1>0, <2>1, <2>3
    <3>2. ASSUME NEW m \in Msgs, m <= received + 1, from'[m] = c PROVE m <= received /\ from[m] = c
      <4>1. m # received + 1
        BY <1>0, <2>1, <2>3, <3>2
      <4>2. from[m] = c
        BY <1>0, <2>1, <3>2, <4>1
      <4> QED
        BY <1>0, <3>2, <4>1, <4>2 DEF Msgs
    <3> QED
      BY <2>1, <3>1, <3>2 DEF LatestOK
  <2> QED
    BY <2>2, <2>3
<1>2. ASSUME UNCHANGED <<received, from>>, cur'[c] \in {cur[c], NoMsg} PROVE LatestOK(c)'
  BY <1>2 DEF LatestOK
<1>3. ASSUME NEW b \in Conns, ReaderStep(b)
      PROVE  UNCHANGED <<received, from>> /\ cur'[c] \in {cur[c], NoMsg}
  BY <1>0, <1>3 DEF ReaderStep, AcceptCount, StartLoop, Handle, Lookup, HandleDone, DeliverRetain,
     DeliverPush, DeliverUndo, ReleaseOwn, Leave, LeaveCount, ReaderClose, ReaderHangup,
     relayVars, bufVars, readerVars
<1>4. ASSUME NEW b \in Conns, PeerStep(b), ~ReadFrame(b) PROVE UNCHANGED <<received, from, cur>>
  BY <1>4 DEF PeerStep, Accept, ReadInvalid, ReadError, relayVars, bufVars, readerVars
<1>5. ASSUME NEW b \in Conns, PumpStep(b) PROVE UNCHANGED <<received, from, cur>>
  BY <1>5 DEF PumpStep, PumpRecv, PumpExit, PumpWriteOK, PumpWriteFail, PumpCountSuccess,
     PumpCountFailure, PumpClose, PumpHangup, PumpDrain, bufVars, readerVars
<1>6. CASE UNCHANGED vars
  BY <1>2, <1>6 DEF vars, relayVars, bufVars, readerVars
<1> QED
  BY <1>1, <1>2, <1>3, <1>4, <1>5, <1>6 DEF RelayNext

-----------------------------------------------------------------------------
\* What a connection was given is in order if its parts are.
LEMMA GivenInOrder ==
  ASSUME TypeInv, NEW c \in Conns, OrderOK(c, from)
  PROVE  InOrder(from, Given(c))
<1>1. PICK w \in Seq(Msgs), q \in Seq(Msgs) : w = wire[c] /\ q = outChan[c]
  BY DEF TypeInv, RelayTypeOK
<1>2. PICK h \in Seq(Msgs) : /\ h = InHand(c) /\ InOrder(from, h)
                             /\ \A i \in DOMAIN h : h[i] = hand[c] /\ hand[c] \in Msgs
  <2>1. CASE hand[c] = NoMsg
    <3>1. <<>> \in Seq(Msgs) /\ DOMAIN <<>> = {}
      OBVIOUS
    <3>2. InHand(c) = <<>>
      BY <2>1 DEF InHand
    <3> QED
      BY <3>1, <3>2 DEF InOrder
  <2>2. CASE hand[c] # NoMsg
    <3>1. hand[c] \in Msgs
      BY <2>2 DEF TypeInv, RelayTypeOK
    <3>2. PICK m \in Msgs : m = hand[c]
      BY <3>1
    <3>3. <<m>> \in Seq(Msgs) /\ DOMAIN <<m>> = {1} /\ <<m>>[1] = m
      OBVIOUS
    <3>4. InOrder(from, <<m>>)
      BY <3>3 DEF InOrder
    <3> QED
      BY <2>2, <3>2, <3>3, <3>4 DEF InHand
  <2> QED
    BY <2>1, <2>2
<1>3. /\ InOrder(from, w) /\ InOrder(from, q)
      /\ \A i \in DOMAIN w, j \in DOMAIN h : Before(from, w[i], h[j])
      /\ \A i \in DOMAIN w, j \in DOMAIN q : Before(from, w[i], q[j])
      /\ \A i \in DOMAIN h, j \in DOMAIN q : Before(from, h[i], q[j])
  <2>1. /\ \A i \in DOMAIN w : w[i] \in Msgs /\ InWire(c, w[i])
        /\ \A i \in DOMAIN q : q[i] \in Msgs /\ InQueue(c, q[i])
    BY <1>1 DEF InWire, InQueue
  <2> QED
    BY <1>1, <1>2, <2>1 DEF OrderOK
<1>4. InOrder(from, w \o h) /\ w \o h \in Seq(Msgs)
  BY <1>2, <1>3, InOrderConcat
<1>5. \A i \in DOMAIN (w \o h), j \in DOMAIN q : Before(from, (w \o h)[i], q[j])
  BY <1>3, InConcat
<1>6. InOrder(from, (w \o h) \o q)
  BY <1>3, <1>4, <1>5, InOrderConcat
<1> QED
  BY <1>1, <1>2, <1>6 DEF Given

\* Messages of one sending connection arrive in the order they were sent.
THEOREM LinksKeepOrder == RelaySpec => []LinkFIFO
<1> DEFINE OrderInv == \A c \in Conns : LatestOK(c) /\ OrderOK(c, from)
<1>1. RelayInit => OrderInv
  BY DEF RelayInit, LatestOK, OrderOK, InOrder, InWire, InQueue, NoMsg, Msgs
<1>2. TypeInv /\ AudienceOK /\ UniqueOK /\ OrderInv /\ [RelayNext]_vars => OrderInv'
  BY LatestStep, OrderStep
<1>3. TypeInv /\ OrderInv => LinkFIFO
  BY GivenInOrder DEF LinkFIFO, InOrder, Before
<1> HIDE DEF OrderInv
<1> QED
  BY <1>1, <1>2, <1>3, AudienceHolds, UniqueHolds, PTL DEF RelaySpec

-----------------------------------------------------------------------------
(* What a connection leaves behind. *)

\* A read loop closes its connection after OnDisconnect; whoever closed it first
\* hangs up; and a connection that has not connected is in nobody's hand.
LeavingOK ==
  \A c \in Conns :
    /\ rpc[c] \in {"hangup", "done"} => life[c] = "gone" /\ isClosed[c]
    /\ isClosed[c] => hungUp[c] \/ rpc[c] = "hangup" \/ wpc[c] = "hangup"
    /\ life[c] = "new" => rpc[c] = "idle" /\ outChan[c] = <<>>
    /\ \A b \in Conns : dest[b] = c => life[c] # "new"

\* At first nobody has connected, and nothing is closed.
LEMMA LeavingInit == RelayInit => LeavingOK
  BY RegistryAssumption DEF RelayInit, RegInit, LeavingOK

\* A connection never returns to the time before OnConnect.
LEMMA NeverNewAgain ==
  ASSUME TypeInv, [RelayNext]_vars, NEW c \in Conns, life'[c] = "new"
  PROVE  life[c] = "new"
<1>1. RegTypeOK /\ [RegNext]_regVars
  BY RelayStepOfRegistry DEF TypeInv, RelayTypeOK
<1> QED
  BY <1>1 DEF RegNext, OnConnectSwap, OnConnectAdd, OnDisconnectDelete, OnDisconnectAdd,
     regVars, RegTypeOK

\* And who has disconnected stays so.
LEMMA GoneForGood ==
  ASSUME TypeInv, [RelayNext]_vars, NEW c \in Conns, life[c] = "gone"
  PROVE  life'[c] = "gone"
<1>1. RegTypeOK /\ [RegNext]_regVars
  BY RelayStepOfRegistry DEF TypeInv, RelayTypeOK
<1> QED
  BY <1>1 DEF RegNext, OnConnectSwap, OnConnectAdd, OnDisconnectDelete, OnDisconnectAdd,
     regVars, RegTypeOK

\* The connector that a read loop looked up has connected.
LEMMA LookedUpHasConnected ==
  ASSUME TypeInv, NoStaleEntry, LeavingOK, [RelayNext]_vars,
         NEW b \in Conns, NEW c \in Conns, dest'[b] = c
  PROVE  life'[c] # "new"
<1>1. life[c] # "new"
  <2>1. CASE dest[b] = c
    BY <2>1 DEF LeavingOK
  <2>2. ASSUME dest'[b] # dest[b] PROVE life[c] # "new"
    <3>1. Lookup(b)
      <4>1. c # None
        BY RegistryAssumption
      <4>2. PICK e \in Conns : ReaderStep(e) \/ PeerStep(e) \/ PumpStep(e)
        BY <2>2 DEF RelayNext, vars, relayVars, readerVars
      <4>3. ~PeerStep(e) /\ ~PumpStep(e)
        BY <2>2 DEF PeerStep, PumpStep, Accept, ReadFrame, ReadInvalid, ReadError,
           PumpRecv, PumpExit, PumpWriteOK, PumpWriteFail, PumpCountSuccess,
           PumpCountFailure, PumpClose, PumpHangup, PumpDrain, relayVars, readerVars
      <4>4. Lookup(e) \/ HandleDone(e) \/ DeliverUndo(e)
        BY <2>2, <4>2, <4>3 DEF ReaderStep, AcceptCount, StartLoop, Handle, DeliverRetain, DeliverPush,
           ReleaseOwn, Leave, LeaveCount, ReaderClose, ReaderHangup, relayVars, readerVars
      <4> QED
        BY <2>2, <4>1, <4>4 DEF Lookup, HandleDone, DeliverUndo, TypeInv, RelayTypeOK
    <3>2. PICK k \in targets[b] : dest' = [dest EXCEPT ![b] = GetConnectorByKey(k)]
      BY <3>1 DEF Lookup
    <3>3. k \in PubKeys /\ connectors[k] = c /\ c # None
      BY <3>2, RegistryAssumption DEF TypeInv, RelayTypeOK, GetConnectorByKey
    <3> QED
      BY <3>3 DEF NoStaleEntry, Registered, GetConnectorByKey
  <2> QED
    BY <2>1, <2>2
<1> QED
  BY <1>1, NeverNewAgain

\* Closing and hanging up are never undone.
LEMMA ClosedForGood ==
  ASSUME TypeInv, [RelayNext]_vars, NEW c \in Conns
  PROVE  /\ isClosed[c] => isClosed'[c]
         /\ hungUp[c] => hungUp'[c]
<1> USE DEF TypeInv, RelayTypeOK
<1>1. ASSUME NEW b \in Conns, ReaderStep(b)
      PROVE  (isClosed[c] => isClosed'[c]) /\ (hungUp[c] => hungUp'[c])
  BY <1>1 DEF ReaderStep, AcceptCount, StartLoop, Handle, Lookup, HandleDone, DeliverRetain,
     DeliverPush, DeliverUndo, ReleaseOwn, Leave, LeaveCount, ReaderClose, ReaderHangup,
     relayVars, connVars
<1>2. ASSUME NEW b \in Conns, PeerStep(b) \/ PumpStep(b)
      PROVE  (isClosed[c] => isClosed'[c]) /\ (hungUp[c] => hungUp'[c])
  BY <1>2 DEF PeerStep, PumpStep, Accept, ReadFrame, ReadInvalid, ReadError, PumpRecv,
     PumpExit, PumpWriteOK, PumpWriteFail, PumpCountSuccess, PumpCountFailure,
     PumpClose, PumpHangup, PumpDrain, relayVars, connVars
<1>3. CASE UNCHANGED vars
  BY <1>3 DEF vars, relayVars, connVars
<1> QED
  BY <1>1, <1>2, <1>3 DEF RelayNext

\* Only Close brings a read loop behind OnDisconnect to its end.
LEMMA ReaderEnds ==
  ASSUME TypeInv, LeavingOK, [RelayNext]_vars, NEW d \in Conns, rpc'[d] \in {"hangup", "done"}
  PROVE  life'[d] = "gone" /\ isClosed'[d]
<1> USE DEF TypeInv, RelayTypeOK
<1>1. CASE rpc[d] \in {"hangup", "done"}
  BY <1>1, GoneForGood, ClosedForGood DEF LeavingOK
<1>2. CASE rpc[d] \notin {"hangup", "done"}
  <2>1. PICK c \in Conns : ReaderStep(c) \/ PeerStep(c) \/ PumpStep(c)
    BY <1>2 DEF RelayNext, vars, relayVars, readerVars
  <2>2. ReaderClose(c) \/ ReaderHangup(c)
    BY <1>2, <2>1 DEF ReaderStep, PeerStep, PumpStep, AcceptCount, StartLoop, Handle, Lookup,
       HandleDone, DeliverRetain, DeliverPush, DeliverUndo, ReleaseOwn, Leave, LeaveCount,
       Accept, ReadFrame, ReadInvalid, ReadError, PumpRecv, PumpExit, PumpWriteOK, PumpWriteFail,
       PumpCountSuccess, PumpCountFailure, PumpClose, PumpHangup, PumpDrain, relayVars, readerVars
  <2>3. ReaderClose(d)
    BY <1>2, <2>2 DEF ReaderClose, ReaderHangup
  <2> QED
    BY <2>3 DEF ReaderClose, regVars
<1> QED
  BY <1>1, <1>2

\* Whoever closed a connection first hangs up.
LEMMA CloserHangsUp ==
  ASSUME TypeInv, LeavingOK, [RelayNext]_vars, NEW d \in Conns, isClosed'[d]
  PROVE  hungUp'[d] \/ rpc'[d] = "hangup" \/ wpc'[d] = "hangup"
<1> USE DEF TypeInv, RelayTypeOK
<1> DEFINE Hanging == rpc[d] = "hangup" \/ wpc[d] = "hangup"
<1>1. CASE hungUp[d]
  BY <1>1, ClosedForGood
<1>2. CASE ~hungUp[d] /\ isClosed[d]
  <2>1. Hanging
    BY <1>2 DEF LeavingOK
  <2>2. ASSUME NEW c \in Conns, ReaderHangup(c) PROVE hungUp'[d] \/ Hanging'
    BY <2>1, <2>2 DEF ReaderHangup, pumpVars
  <2>3. ASSUME NEW c \in Conns, PumpHangup(c) PROVE hungUp'[d] \/ Hanging'
    BY <2>1, <2>3 DEF PumpHangup, readerVars
  <2>4. ASSUME NEW c \in Conns, ReaderStep(c), ~ReaderHangup(c) PROVE Hanging'
    BY <1>2, <2>1, <2>4 DEF ReaderStep, AcceptCount, StartLoop, Handle, Lookup, HandleDone,
       DeliverRetain, DeliverPush, DeliverUndo, ReleaseOwn, Leave, LeaveCount, ReaderClose,
       relayVars, readerVars, pumpVars, ControlOK
  <2>5. ASSUME NEW c \in Conns, PeerStep(c) PROVE Hanging'
    BY <2>1, <2>5 DEF PeerStep, Accept, ReadFrame, ReadInvalid, ReadError, relayVars, readerVars, pumpVars
  <2>6. ASSUME NEW c \in Conns, PumpStep(c), ~PumpHangup(c) PROVE Hanging'
    BY <2>1, <2>6 DEF PumpStep, PumpRecv, PumpExit, PumpWriteOK, PumpWriteFail,
       PumpCountSuccess, PumpCountFailure, PumpClose, PumpDrain, readerVars, pumpVars
  <2>7. CASE UNCHANGED vars
    BY <2>1, <2>7 DEF vars, relayVars, readerVars, pumpVars
  <2> QED
    BY <2>2, <2>3, <2>4, <2>5, <2>6, <2>7 DEF RelayNext
<1>3. CASE ~isClosed[d]
  <2>1. PICK c \in Conns : ReaderStep(c) \/ PeerStep(c) \/ PumpStep(c)
    BY <1>3 DEF RelayNext, vars, relayVars, connVars
  <2>2. ReaderClose(c) \/ PumpClose(c)
    BY <1>3, <2>1 DEF ReaderStep, PeerStep, PumpStep, AcceptCount, StartLoop, Handle, Lookup,
       HandleDone, DeliverRetain, DeliverPush, DeliverUndo, ReleaseOwn, Leave, LeaveCount, ReaderHangup,
       Accept, ReadFrame, ReadInvalid, ReadError, PumpRecv, PumpExit, PumpWriteOK, PumpWriteFail,
       PumpCountSuccess, PumpCountFailure, PumpHangup, PumpDrain, relayVars, connVars
  <2>3. c = d
    BY <1>3, <2>2 DEF ReaderClose, PumpClose
  <2> QED
    BY <1>3, <2>2, <2>3 DEF ReaderClose, PumpClose
<1> QED
  BY <1>1, <1>2, <1>3

\* Before OnConnect there is no loop, and nobody knows of the queue.
LEMMA NewIsUntouched ==
  ASSUME TypeInv, LeavingOK, [RelayNext]_vars, NEW d \in Conns, life'[d] = "new"
  PROVE  rpc'[d] = "idle" /\ outChan'[d] = <<>>
<1> USE DEF TypeInv, RelayTypeOK
<1>1. life[d] = "new" /\ rpc[d] = "idle" /\ outChan[d] = <<>> /\ wpc[d] = "none"
  BY NeverNewAgain DEF LeavingOK, ControlOK
<1>2. ASSUME NEW c \in Conns, ReaderStep(c) PROVE rpc'[d] = "idle" /\ outChan'[d] = <<>>
  <2>1. rpc'[d] = "idle"
    BY <1>1, <1>2 DEF ReaderStep, AcceptCount, StartLoop, Handle, Lookup,
       HandleDone, DeliverRetain, DeliverPush, DeliverUndo, ReleaseOwn, Leave, LeaveCount, ReaderClose,
       ReaderHangup, relayVars, readerVars
  <2>2. CASE DeliverPush(c)
    <3>1. dest[c] # d
      BY <1>1 DEF LeavingOK
    <3> QED
      BY <1>1, <2>2, <3>1 DEF DeliverPush
  <2>3. CASE ~DeliverPush(c)
    <3>1. outChan' = outChan
      BY <1>2, <2>3 DEF ReaderStep, AcceptCount, StartLoop, Handle, Lookup,
         HandleDone, DeliverRetain, DeliverUndo, ReleaseOwn, Leave, LeaveCount, ReaderClose,
         ReaderHangup, relayVars, connVars
    <3> QED
      BY <1>1, <2>1, <3>1
  <2> QED
    BY <2>1, <2>2, <2>3
<1>3. ASSUME NEW c \in Conns, PeerStep(c) \/ PumpStep(c) PROVE rpc'[d] = "idle" /\ outChan'[d] = <<>>
  BY <1>1, <1>3 DEF PeerStep, PumpStep, Accept, ReadFrame, ReadInvalid, ReadError,
     PumpRecv, PumpExit, PumpWriteOK, PumpWriteFail, PumpCountSuccess,
     PumpCountFailure, PumpClose, PumpHangup, PumpDrain, relayVars, readerVars,
     connVars
<1>4. CASE UNCHANGED vars
  BY <1>1, <1>4 DEF vars, relayVars, readerVars, connVars
<1> QED
  BY <1>2, <1>3, <1>4 DEF RelayNext

\* Every step keeps these facts.
LEMMA LeavingStep == TypeInv /\ NoStaleEntry /\ LeavingOK /\ [RelayNext]_vars => LeavingOK'
<1> SUFFICES ASSUME TypeInv, NoStaleEntry, LeavingOK, [RelayNext]_vars, NEW d \in Conns
             PROVE  /\ rpc'[d] \in {"hangup", "done"} => life'[d] = "gone" /\ isClosed'[d]
                    /\ isClosed'[d] => hungUp'[d] \/ rpc'[d] = "hangup" \/ wpc'[d] = "hangup"
                    /\ life'[d] = "new" => rpc'[d] = "idle" /\ outChan'[d] = <<>>
                    /\ \A b \in Conns : dest'[b] = d => life'[d] # "new"
  BY DEF LeavingOK
<1> QED
  BY ReaderEnds, CloserHangsUp, NewIsUntouched, LookedUpHasConnected

\* A connection is over when both its goroutines have returned.
Over(c) == rpc[c] = "done" /\ wpc[c] = "done"

\* It then is closed and hung up, cannot be found, and holds no message.
OverIsCleanedUp ==
  \A c \in Conns : Over(c) =>
    /\ isClosed[c] /\ hungUp[c] /\ \A k \in PubKeys : connectors[k] # c
    /\ cur[c] = NoMsg /\ hand[c] = NoMsg /\ outChan[c] = <<>>

\* When all connections there have been are over, the relay is as it was at first.
CleanInTheEnd ==
  (\A c \in Conns : life[c] = "new" \/ Over(c)) =>
    /\ Registered = {} /\ connCount = 0
    /\ \A m \in Msgs : refs[m] = 0

\* Whichever of the two goroutines ended first and whoever closed, a connection
\* that is over leaves nothing behind: no entry, no open socket, no message.
THEOREM ConnectionsLeaveNothing == RelaySpec => []OverIsCleanedUp
<1>1. TypeInv /\ NoStaleEntry /\ LeavingOK /\ NothingStranded => OverIsCleanedUp
  <2> SUFFICES ASSUME TypeInv, NoStaleEntry, LeavingOK, NothingStranded, NEW c \in Conns, Over(c)
               PROVE  /\ isClosed[c] /\ hungUp[c] /\ \A k \in PubKeys : connectors[k] # c
                      /\ cur[c] = NoMsg /\ hand[c] = NoMsg /\ outChan[c] = <<>>
    BY DEF OverIsCleanedUp
  <2>1. isClosed[c] /\ hungUp[c] /\ life[c] = "gone"
    BY DEF LeavingOK, Over
  <2>2. \A k \in PubKeys : connectors[k] # c
    <3>1. c # None
      BY RegistryAssumption
    <3> QED
      BY <2>1, <3>1 DEF NoStaleEntry, Registered, GetConnectorByKey
  <2>3. cur[c] = NoMsg /\ hand[c] = NoMsg /\ outChan[c] = <<>>
    BY DEF Over, TypeInv, ControlOK, Routing, NothingStranded
  <2> QED
    BY <2>1, <2>2, <2>3
<1> QED
  BY <1>1, LeavingInit, LeavingStep, TypeInvHolds, EndedPumpLeavesNothing, PTL DEF RelaySpec

\* With the counts of RefsExact and of the registry: after any load, however the
\* connections ended, no buffer is lost, no key stays and the counter is zero.
THEOREM RelayEndsAsItBegan == RelaySpec => []CleanInTheEnd
<1>1. TypeInv /\ NoStaleEntry /\ LeavingOK /\ OverIsCleanedUp /\ RefsExact /\ CountTracksRegistry
        => CleanInTheEnd
  <2> SUFFICES ASSUME TypeInv, NoStaleEntry, LeavingOK, OverIsCleanedUp, RefsExact, CountTracksRegistry,
                      \A c \in Conns : life[c] = "new" \/ Over(c)
               PROVE  /\ Registered = {} /\ connCount = 0
                      /\ \A m \in Msgs : refs[m] = 0
    BY DEF CleanInTheEnd
  <2>1. \A c \in Conns : life[c] \in {"new", "gone"}
    BY DEF LeavingOK, Over
  <2>2. Registered = {}
    <3>1. ASSUME NEW k \in Registered PROVE FALSE
      <4>1. k \in PubKeys /\ connectors[k] # None
        BY <3>1 DEF Registered, GetConnectorByKey
      <4>2. connectors[k] \in Conns
        BY <4>1 DEF TypeInv, RelayTypeOK, RegTypeOK
      <4>3. life[connectors[k]] \in {"adding", "online"}
        BY <3>1 DEF NoStaleEntry, GetConnectorByKey
      <4> QED
        BY <2>1, <4>2, <4>3
    <3> QED
      BY <3>1
  <2>3. connCount = 0
    <3>1. Adding = {} /\ Removing = {}
      BY <2>1 DEF Adding, Removing
    <3>2. connCount + 0 = 0 + 0
      BY <2>2, <3>1, FS_EmptySet DEF CountTracksRegistry
    <3>3. connCount \in Int
      BY DEF TypeInv, RelayTypeOK, RegTypeOK
    <3> QED
      BY <3>2, <3>3
  <2>4. ASSUME NEW m \in Msgs PROVE refs[m] = 0
    <3>1. ASSUME NEW c \in Conns PROVE cur[c] = NoMsg /\ hand[c] = NoMsg /\ outChan[c] = <<>>
      BY DEF OverIsCleanedUp, LeavingOK, TypeInv, ControlOK, Routing
    <3>2. m # NoMsg
      BY RelayAssumption DEF Msgs, NoMsg
    <3>3. Holders(m) = {}
      <4>1. ASSUME NEW c \in Conns, NEW r \in Roles PROVE ~Holds(c, r, m)
        <5>1. cur[c] # m /\ hand[c] # m /\ ~InQueue(c, m)
          BY <3>1, <3>2 DEF InQueue
        <5>2. r = "reader" \/ r = "deliver" \/ r = "queue" \/ r = "pump"
          BY DEF Roles
        <5> QED
          BY <5>1, <5>2 DEF Holds
      <4> QED
        BY <4>1 DEF Holders
    <3> QED
      BY <3>3, FS_EmptySet DEF RefsExact
  <2> QED
    BY <2>2, <2>3, <2>4
<1> QED
  BY <1>1, LeavingInit, LeavingStep, TypeInvHolds, ConnectionsLeaveNothing, ReferencesExact,
     RelayRegistryCorrect, PTL DEF RelaySpec
=============================================================================
