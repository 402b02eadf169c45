-------------------------------- MODULE Relay --------------------------------
(***************************************************************************)
(* The relay itself: the Registry composed with what runs for each          *)
(* connection (internal/network/ws_connector.go) and with the routing of    *)
(* HandleMessage (internal/domains/relayer/relayer.go) over reference       *)
(* counted buffers (internal/mem). Every connection has two goroutines: the *)
(* one that runs Server.wsHandler and the read loop, whose position is rpc, *)
(* and the write pump started by ReadWriteLoop, whose position is wpc. They *)
(* share the bounded channel outChan, the flag isClosed and the WebSocket;  *)
(* all connections share the registry, the buffers and the counters.        *)
(*                                                                         *)
(* SafePush and the locked half of Close are one step each: Connector       *)
(* models the lock. A frame is the set of its recipients, because           *)
(* readMessageWithFixedFromID rejects a repeated one (see Frame); the order *)
(* in which HandleMessage visits them is left open. Messages are numbered   *)
(* in the order in which they are received.                                 *)
(***************************************************************************)
EXTENDS Registry, Sequences

CONSTANTS Frames,     \* recipient sets of the frames that clients send
          OutBufSize, \* capacity of every outChan
          MaxMsgs     \* bound: frames received in one behaviour

ASSUME RelayAssumption ==
  /\ Frames \subseteq SUBSET PubKeys
  /\ OutBufSize \in Nat \ {0}
  /\ MaxMsgs \in Nat

VARIABLES rpc, wpc,       \* read loop and write pump
          cur,            \* the message the read loop owns, or NoMsg
          targets,        \* HandleMessage: targets not looked up yet
          dest,           \* HandleMessage: the connector of the target in turn
          matched,        \* HandleMessage: some push succeeded
          isClosed, outChan,
          hungUp,         \* conn.Close was called on this side
          hand,           \* the message the write pump took, or NoMsg
          received,       \* number of buffers allocated so far
          refs, from, to, stripped, \* Buffer.refs and the header of each message
          processed, delivered, noRecip,
          wire            \* history: messages written to each WebSocket

readerVars == <<rpc, cur, targets, dest, matched>>
pumpVars   == <<wpc, hand, wire>>
connVars   == <<isClosed, outChan, hungUp>>
bufVars    == <<received, refs, from, to, stripped>>
countVars  == <<processed, delivered, noRecip>>
relayVars  == <<readerVars, pumpVars, connVars, bufVars, countVars>>
vars       == <<regVars, relayVars>>

NoMsg == 0
Msgs  == 1..MaxMsgs

ReaderPCs == {"idle", "read", "handle", "lookup", "retain", "push", "undo",
              "release", "leave", "hangup", "done"}
PumpPCs   == {"none", "recv", "write", "sent", "failed", "close", "hangup", "drain", "done"}

RelayInit ==
  /\ RegInit
  /\ rpc = [c \in Conns |-> "idle"] /\ wpc = [c \in Conns |-> "none"]
  /\ cur = [c \in Conns |-> NoMsg] /\ hand = [c \in Conns |-> NoMsg]
  /\ targets = [c \in Conns |-> {}]
  /\ dest = [c \in Conns |-> None]
  /\ matched = [c \in Conns |-> FALSE]
  /\ isClosed = [c \in Conns |-> FALSE] /\ hungUp = [c \in Conns |-> FALSE]
  /\ outChan = [c \in Conns |-> <<>>] /\ wire = [c \in Conns |-> <<>>]
  /\ received = 0
  /\ refs = [m \in Msgs |-> 0]
  /\ from = [m \in Msgs |-> None]
  /\ to = [m \in Msgs |-> {}]
  /\ stripped = [m \in Msgs |-> FALSE]
  /\ processed = 0 /\ delivered = 0 /\ noRecip = 0

-----------------------------------------------------------------------------
(* Buffers. *)

Retain(m)  == refs' = [refs EXCEPT ![m] = @ + 1]
Release(m) == refs' = [refs EXCEPT ![m] = @ - 1]

(* Server.wsHandler and the start of ReadWriteLoop. *)

Accept(c) == OnConnectSwap(c) /\ UNCHANGED relayVars

AcceptCount(c) == OnConnectAdd(c) /\ UNCHANGED relayVars

StartLoop(c) ==
  /\ life[c] = "online" /\ rpc[c] = "idle"
  /\ rpc' = [rpc EXCEPT ![c] = "read"]
  /\ wpc' = [wpc EXCEPT ![c] = "recv"]
  /\ UNCHANGED <<regVars, cur, targets, dest, matched, hand, wire, connVars, bufVars, countVars>>

(* The read loop. *)

\* A complete, well-formed frame was read into a new buffer. The peer's frames
\* may still arrive while the closing handshake of this side is under way.
ReadFrame(c) ==
  /\ rpc[c] = "read" /\ received < MaxMsgs
  /\ received' = received + 1
  /\ refs' = [refs EXCEPT ![received + 1] = 1]
  /\ from' = [from EXCEPT ![received + 1] = c]
  /\ \E ids \in Frames : to' = [to EXCEPT ![received + 1] = ids]
  /\ cur' = [cur EXCEPT ![c] = received + 1]
  /\ rpc' = [rpc EXCEPT ![c] = "handle"]
  /\ UNCHANGED <<regVars, targets, dest, matched, pumpVars, connVars, stripped, countVars>>

\* ErrInvalidMessage, ErrMessageTooLarge: hang up and return.
ReadInvalid(c) ==
  /\ rpc[c] = "read"
  /\ hungUp' = [hungUp EXCEPT ![c] = TRUE]
  /\ rpc' = [rpc EXCEPT ![c] = "leave"]
  /\ UNCHANGED <<regVars, cur, targets, dest, matched, pumpVars, isClosed, outChan, bufVars, countVars>>

\* The peer left, the network failed, or this side hung up: return.
ReadError(c) ==
  /\ rpc[c] = "read"
  /\ rpc' = [rpc EXCEPT ![c] = "leave"]
  /\ UNCHANGED <<regVars, cur, targets, dest, matched, pumpVars, connVars, bufVars, countVars>>

(* HandleMessage. *)

\* Faults of HandleMessage: the sender's own key stays among the targets; the
\* recipient list is not zeroed; the caller's reference is given up already here.
HandleToSelf(c) ==
  /\ rpc[c] = "handle"
  /\ targets' = [targets EXCEPT ![c] = to[cur[c]]]
  /\ matched' = [matched EXCEPT ![c] = FALSE]
  /\ processed' = processed + 1
  /\ stripped' = [stripped EXCEPT ![cur[c]] = TRUE]
  /\ rpc' = [rpc EXCEPT ![c] = "lookup"]
  /\ UNCHANGED <<regVars, cur, dest, pumpVars, connVars, received, refs, from, to, delivered, noRecip>>

HandleUnstripped(c) ==
  /\ rpc[c] = "handle"
  /\ targets' = [targets EXCEPT ![c] = to[cur[c]] \ {KeyOf[c]}]
  /\ matched' = [matched EXCEPT ![c] = FALSE]
  /\ processed' = processed + 1
  /\ rpc' = [rpc EXCEPT ![c] = "lookup"]
  /\ UNCHANGED <<regVars, cur, dest, pumpVars, connVars, bufVars, delivered, noRecip>>

HandleReleases(c) ==
  /\ rpc[c] = "handle"
  /\ Release(cur[c])
  /\ targets' = [targets EXCEPT ![c] = to[cur[c]] \ {KeyOf[c]}]
  /\ matched' = [matched EXCEPT ![c] = FALSE]
  /\ processed' = processed + 1
  /\ rpc' = [rpc EXCEPT ![c] = "lookup"]
  /\ UNCHANGED <<regVars, cur, dest, pumpVars, connVars, received, from, to, stripped, delivered, noRecip>>

\* ExtractTargets without the sender's key; with nobody left, return. Otherwise
\* IncrementProcessed and ZeroToIDs, while the read loop is the only holder.
Handle(c) ==
  /\ rpc[c] = "handle"
  /\ LET ids == to[cur[c]] \ {KeyOf[c]} IN
       IF ids = {}
       THEN /\ rpc' = [rpc EXCEPT ![c] = "release"]
            /\ UNCHANGED <<targets, matched, stripped, processed>>
       ELSE /\ targets' = [targets EXCEPT ![c] = ids]
            /\ matched' = [matched EXCEPT ![c] = FALSE]
            /\ processed' = processed + 1
            /\ stripped' = [stripped EXCEPT ![cur[c]] = TRUE]
            /\ rpc' = [rpc EXCEPT ![c] = "lookup"]
  /\ UNCHANGED <<regVars, cur, dest, pumpVars, connVars, received, refs, from, to, delivered, noRecip>>

\* Faults of the target loop: a target found is visited again; the key is
\* pushed to in place of its connector.
LookupRepeats(c) ==
  /\ rpc[c] = "lookup"
  /\ \E k \in targets[c] :
       /\ dest' = [dest EXCEPT ![c] = GetConnectorByKey(k)]
       /\ rpc' = [rpc EXCEPT ![c] = IF k \in Registered THEN "retain" ELSE "lookup"]
  /\ UNCHANGED <<regVars, cur, targets, matched, pumpVars, connVars, bufVars, countVars>>

LookupKey(c) ==
  /\ rpc[c] = "lookup"
  /\ \E k \in targets[c] : dest' = [dest EXCEPT ![c] = k]
  /\ UNCHANGED <<regVars, rpc, cur, targets, matched, pumpVars, connVars, bufVars, countVars>>

\* The next target: GetConnectorByKey; an unknown one is passed over.
Lookup(c) ==
  /\ rpc[c] = "lookup"
  /\ \E k \in targets[c] :
       /\ targets' = [targets EXCEPT ![c] = @ \ {k}]
       /\ dest' = [dest EXCEPT ![c] = GetConnectorByKey(k)]
       /\ rpc' = [rpc EXCEPT ![c] = IF k \in Registered THEN "retain" ELSE "lookup"]
  /\ UNCHANGED <<regVars, cur, matched, pumpVars, connVars, bufVars, countVars>>

\* A fault: a message that reached nobody is not counted.
HandleDoneSilently(c) ==
  /\ rpc[c] = "lookup" /\ targets[c] = {}
  /\ dest' = [dest EXCEPT ![c] = None]
  /\ rpc' = [rpc EXCEPT ![c] = "release"]
  /\ UNCHANGED <<regVars, cur, targets, matched, pumpVars, connVars, bufVars, countVars>>

\* No target left: IncrementDeliveryFailure if no push succeeded, and return,
\* with which the loop's variables are gone.
HandleDone(c) ==
  /\ rpc[c] = "lookup" /\ targets[c] = {}
  /\ noRecip' = IF matched[c] THEN noRecip ELSE noRecip + 1
  /\ dest' = [dest EXCEPT ![c] = None]
  /\ rpc' = [rpc EXCEPT ![c] = "release"]
  /\ UNCHANGED <<regVars, cur, targets, matched, pumpVars, connVars, bufVars, processed, delivered>>

\* DeliverTo: Retain, then SafePush on a connector that may have been closed or
\* replaced since it was looked up, then Release if the push was refused.
DeliverRetain(c) ==
  /\ rpc[c] = "retain"
  /\ Retain(cur[c])
  /\ rpc' = [rpc EXCEPT ![c] = "push"]
  /\ UNCHANGED <<regVars, cur, targets, dest, matched, pumpVars, connVars, received, from, to, stripped, countVars>>

\* A fault of SafePush: isClosed is not looked at.
AcceptsClosed(d) == Len(outChan[d]) < OutBufSize

Accepts(d) == ~isClosed[d] /\ Len(outChan[d]) < OutBufSize

\* Faults of SafePush: it waits for room; it puts the message in front.
DeliverPushWaits(c) ==
  /\ rpc[c] = "push" /\ Accepts(dest[c])
  /\ outChan' = [outChan EXCEPT ![dest[c]] = Append(@, cur[c])]
  /\ matched' = [matched EXCEPT ![c] = TRUE]
  /\ rpc' = [rpc EXCEPT ![c] = "lookup"]
  /\ UNCHANGED <<regVars, cur, targets, dest, pumpVars, isClosed, hungUp, bufVars, countVars>>

DeliverPushInFront(c) ==
  /\ rpc[c] = "push" /\ Accepts(dest[c])
  /\ outChan' = [outChan EXCEPT ![dest[c]] = <<cur[c]>> \o @]
  /\ matched' = [matched EXCEPT ![c] = TRUE]
  /\ rpc' = [rpc EXCEPT ![c] = "lookup"]
  /\ UNCHANGED <<regVars, cur, targets, dest, pumpVars, isClosed, hungUp, bufVars, countVars>>

DeliverPush(c) ==
  /\ rpc[c] = "push"
  /\ IF Accepts(dest[c])
     THEN /\ outChan' = [outChan EXCEPT ![dest[c]] = Append(@, cur[c])]
          /\ matched' = [matched EXCEPT ![c] = TRUE]
          /\ rpc' = [rpc EXCEPT ![c] = "lookup"]
     ELSE /\ rpc' = [rpc EXCEPT ![c] = "undo"]
          /\ UNCHANGED <<outChan, matched>>
  /\ UNCHANGED <<regVars, cur, targets, dest, pumpVars, isClosed, hungUp, bufVars, countVars>>

\* A fault of DeliverTo: the reference of a refused push is kept.
DeliverUndoLeaks(c) ==
  /\ rpc[c] = "undo"
  /\ noRecip' = noRecip + 1
  /\ dest' = [dest EXCEPT ![c] = None]
  /\ rpc' = [rpc EXCEPT ![c] = "lookup"]
  /\ UNCHANGED <<regVars, cur, targets, matched, pumpVars, connVars, bufVars, processed, delivered>>

\* The turn of a refused target ends with its Release and its count; that of an
\* accepted one when the next target is looked up.
DeliverUndo(c) ==
  /\ rpc[c] = "undo"
  /\ Release(cur[c])
  /\ noRecip' = noRecip + 1
  /\ dest' = [dest EXCEPT ![c] = None]
  /\ rpc' = [rpc EXCEPT ![c] = "lookup"]
  /\ UNCHANGED <<regVars, cur, targets, matched, pumpVars, connVars, received, from, to, stripped, processed, delivered>>

\* Back in the read loop: give up the buffer's first reference.
ReleaseOwn(c) ==
  /\ rpc[c] = "release"
  /\ Release(cur[c])
  /\ cur' = [cur EXCEPT ![c] = NoMsg]
  /\ rpc' = [rpc EXCEPT ![c] = "read"]
  /\ UNCHANGED <<regVars, targets, dest, matched, pumpVars, connVars, received, from, to, stripped, countVars>>

(* The deferred calls of ReadWriteLoop: OnDisconnect, then Close. *)

Leave(c) == rpc[c] = "leave" /\ OnDisconnectDelete(c) /\ UNCHANGED relayVars

LeaveCount(c) == OnDisconnectAdd(c) /\ UNCHANGED relayVars

\* The locked half of Close; a second call returns at once.
ReaderClose(c) ==
  /\ rpc[c] = "leave" /\ life[c] = "gone"
  /\ isClosed' = [isClosed EXCEPT ![c] = TRUE]
  /\ rpc' = [rpc EXCEPT ![c] = IF isClosed[c] THEN "done" ELSE "hangup"]
  /\ UNCHANGED <<regVars, cur, targets, dest, matched, pumpVars, outChan, hungUp, bufVars, countVars>>

\* Close after Unlock: conn.Close.
ReaderHangup(c) ==
  /\ rpc[c] = "hangup"
  /\ hungUp' = [hungUp EXCEPT ![c] = TRUE]
  /\ rpc' = [rpc EXCEPT ![c] = "done"]
  /\ UNCHANGED <<regVars, cur, targets, dest, matched, pumpVars, isClosed, outChan, bufVars, countVars>>

(* The write pump. *)

\* range outChan: the next message, or the end of a closed, empty channel.
PumpRecv(c) ==
  /\ wpc[c] = "recv" /\ outChan[c] # <<>>
  /\ hand' = [hand EXCEPT ![c] = Head(outChan[c])]
  /\ outChan' = [outChan EXCEPT ![c] = Tail(@)]
  /\ wpc' = [wpc EXCEPT ![c] = "write"]
  /\ UNCHANGED <<regVars, readerVars, wire, isClosed, hungUp, bufVars, countVars>>

PumpExit(c) ==
  /\ wpc[c] \in {"recv", "drain"} /\ outChan[c] = <<>> /\ isClosed[c]
  /\ wpc' = [wpc EXCEPT ![c] = "done"]
  /\ UNCHANGED <<regVars, readerVars, hand, wire, connVars, bufVars, countVars>>

\* Write returned nil, which it cannot once this side hung up, or it failed or
\* ran into its five seconds. Either way the reference is given up first, which
\* may free the buffer, and the outcome is counted in a step of its own.
PumpWriteOK(c) ==
  /\ wpc[c] = "write" /\ ~hungUp[c]
  /\ wire' = [wire EXCEPT ![c] = Append(@, hand[c])]
  /\ Release(hand[c])
  /\ hand' = [hand EXCEPT ![c] = NoMsg]
  /\ wpc' = [wpc EXCEPT ![c] = "sent"]
  /\ UNCHANGED <<regVars, readerVars, connVars, received, from, to, stripped, countVars>>

PumpWriteFail(c) ==
  /\ wpc[c] = "write"
  /\ Release(hand[c])
  /\ hand' = [hand EXCEPT ![c] = NoMsg]
  /\ wpc' = [wpc EXCEPT ![c] = "failed"]
  /\ UNCHANGED <<regVars, readerVars, wire, connVars, received, from, to, stripped, countVars>>

\* IncrementDeliverySuccess; RecordLatency, after it, is in Metrics.
PumpCountSuccess(c) ==
  /\ wpc[c] = "sent"
  /\ delivered' = delivered + 1
  /\ wpc' = [wpc EXCEPT ![c] = "recv"]
  /\ UNCHANGED <<regVars, readerVars, hand, wire, connVars, bufVars, processed, noRecip>>

\* A fault: a failed write is not counted.
PumpFailsSilently(c) ==
  /\ wpc[c] = "failed"
  /\ wpc' = [wpc EXCEPT ![c] = "close"]
  /\ UNCHANGED <<regVars, readerVars, hand, wire, connVars, bufVars, countVars>>

\* IncrementDeliveryFailure.
PumpCountFailure(c) ==
  /\ wpc[c] = "failed"
  /\ noRecip' = noRecip + 1
  /\ wpc' = [wpc EXCEPT ![c] = "close"]
  /\ UNCHANGED <<regVars, readerVars, hand, wire, connVars, bufVars, processed, delivered>>

\* Faults of the write pump after a failed write: it returns without draining;
\* it drains without hanging up.
PumpCloseNoDrain(c) ==
  /\ wpc[c] = "close"
  /\ isClosed' = [isClosed EXCEPT ![c] = TRUE]
  /\ hungUp' = [hungUp EXCEPT ![c] = TRUE]
  /\ wpc' = [wpc EXCEPT ![c] = "done"]
  /\ UNCHANGED <<regVars, readerVars, hand, wire, outChan, bufVars, countVars>>

PumpCloseNoHangup(c) ==
  /\ wpc[c] = "close"
  /\ isClosed' = [isClosed EXCEPT ![c] = TRUE]
  /\ wpc' = [wpc EXCEPT ![c] = "drain"]
  /\ UNCHANGED <<regVars, readerVars, hand, wire, outChan, hungUp, bufVars, countVars>>

\* Close, its locked half and conn.Close, then drain what is left.
PumpClose(c) ==
  /\ wpc[c] = "close"
  /\ isClosed' = [isClosed EXCEPT ![c] = TRUE]
  /\ wpc' = [wpc EXCEPT ![c] = IF isClosed[c] THEN "drain" ELSE "hangup"]
  /\ UNCHANGED <<regVars, readerVars, hand, wire, outChan, hungUp, bufVars, countVars>>

PumpHangup(c) ==
  /\ wpc[c] = "hangup"
  /\ hungUp' = [hungUp EXCEPT ![c] = TRUE]
  /\ wpc' = [wpc EXCEPT ![c] = "drain"]
  /\ UNCHANGED <<regVars, readerVars, hand, wire, isClosed, outChan, bufVars, countVars>>

PumpDrain(c) ==
  /\ wpc[c] = "drain" /\ outChan[c] # <<>>
  /\ Release(Head(outChan[c]))
  /\ outChan' = [outChan EXCEPT ![c] = Tail(@)]
  /\ UNCHANGED <<regVars, readerVars, pumpVars, isClosed, hungUp, received, from, to, stripped, countVars>>

-----------------------------------------------------------------------------
\* The steps of the goroutine of wsHandler that wait for nobody.
ReaderStep(c) == \/ AcceptCount(c) \/ StartLoop(c)
                 \/ Handle(c) \/ Lookup(c) \/ HandleDone(c)
                 \/ DeliverRetain(c) \/ DeliverPush(c) \/ DeliverUndo(c) \/ ReleaseOwn(c)
                 \/ Leave(c) \/ LeaveCount(c) \/ ReaderClose(c) \/ ReaderHangup(c)

\* The steps that the peer or the network decides on.
PeerStep(c) == Accept(c) \/ ReadFrame(c) \/ ReadInvalid(c) \/ ReadError(c)

PumpStep(c) == \/ PumpRecv(c) \/ PumpExit(c) \/ PumpWriteOK(c) \/ PumpWriteFail(c)
               \/ PumpCountSuccess(c) \/ PumpCountFailure(c)
               \/ PumpClose(c) \/ PumpHangup(c) \/ PumpDrain(c)

RelayNext == \E c \in Conns : ReaderStep(c) \/ PeerStep(c) \/ PumpStep(c)

RelaySpec == RelayInit /\ [][RelayNext]_vars

\* The Go scheduler runs every goroutine that can run; Write returns within its
\* five seconds; Reader returns once this side has hung up. Nothing makes a
\* peer connect, send or leave.
ReaderFairness == \A c \in Conns : WF_vars(ReaderStep(c))
HangupFairness == \A c \in Conns : WF_vars(hungUp[c] /\ ReadError(c))
PumpFairness   == \A c \in Conns : WF_vars(PumpStep(c))

FairSpec == RelaySpec /\ ReaderFairness /\ HangupFairness /\ PumpFairness

-----------------------------------------------------------------------------
\* Type invariant.
RelayTypeOK ==
  /\ RegTypeOK
  /\ rpc \in [Conns -> ReaderPCs] /\ wpc \in [Conns -> PumpPCs]
  /\ cur \in [Conns -> Msgs \cup {NoMsg}] /\ hand \in [Conns -> Msgs \cup {NoMsg}]
  /\ targets \in [Conns -> SUBSET PubKeys]
  /\ dest \in [Conns -> Conns \cup {None}]
  /\ matched \in [Conns -> BOOLEAN]
  /\ isClosed \in [Conns -> BOOLEAN] /\ hungUp \in [Conns -> BOOLEAN]
  /\ outChan \in [Conns -> Seq(Msgs)] /\ wire \in [Conns -> Seq(Msgs)]
  /\ received \in 0..MaxMsgs
  /\ refs \in [Msgs -> Int]
  /\ from \in [Msgs -> Conns \cup {None}]
  /\ to \in [Msgs -> SUBSET PubKeys]
  /\ stripped \in [Msgs -> BOOLEAN]
  /\ processed \in Nat /\ delivered \in Nat /\ noRecip \in Nat

\* Who holds a reference to message m: the read loop that received it, the
\* DeliverTo in progress in that loop, a queue, a write pump.
Roles == {"reader", "deliver", "queue", "pump"}

InQueue(c, m) == \E i \in DOMAIN outChan[c] : outChan[c][i] = m

Holds(c, role, m) ==
  CASE role = "reader"  -> cur[c] = m
    [] role = "deliver" -> cur[c] = m /\ rpc[c] \in {"push", "undo"}
    [] role = "queue"   -> InQueue(c, m)
    [] role = "pump"    -> hand[c] = m

Holders(m) == {h \in Conns \X Roles : Holds(h[1], h[2], m)}

\* The reference count of a buffer is the number of its holders, whatever the
\* read loops and write pumps of sender and recipients do concurrently: no
\* holder sees a freed buffer, none frees it twice, and when the last one is
\* through, it has been freed.
RefsExact == \A m \in Msgs : refs[m] = Cardinality(Holders(m))

\* Retain never revives a buffer whose last Release freed it.
NeverRevived ==
  [][\A m \in Msgs : m <= received /\ refs[m] = 0 => refs'[m] = 0]_vars

\* What connection c was given of the relayed messages: written to its
\* WebSocket, being written, queued.
InHand(c) == IF hand[c] = NoMsg THEN <<>> ELSE <<hand[c]>>
Given(c)  == wire[c] \o InHand(c) \o outChan[c]
GetsAt(c, i, m) == i \in DOMAIN Given(c) /\ Given(c)[i] = m

\* A message is given at most once to the holders of a key, also when the key
\* is taken over by another connection while the message is being routed.
OncePerKey ==
  \A c, d \in Conns : KeyOf[c] = KeyOf[d] =>
    \A m \in Msgs, i \in DOMAIN Given(c), j \in DOMAIN Given(d) :
      GetsAt(c, i, m) /\ GetsAt(d, j, m) => c = d /\ i = j

\* Only a connection that authenticated with a key in the recipient list gets
\* the message, no connection of the sender's own key does, and none gets it
\* with the recipient list still in it.
OnlyToRecipients ==
  \A c \in Conns, m \in Msgs : (\E i \in DOMAIN Given(c) : GetsAt(c, i, m)) =>
    /\ KeyOf[c] \in to[m]
    /\ KeyOf[c] # KeyOf[from[m]]
    /\ stripped[m]

\* Messages of one sending connection arrive at a connection in the order they
\* were sent; some may be missing (drop-on-full), none overtakes.
LinkFIFO ==
  \A c \in Conns : \A i, j \in DOMAIN Given(c) :
    i < j /\ from[Given(c)[i]] = from[Given(c)[j]] => Given(c)[i] < Given(c)[j]

\* The relay implements the multicast: with takeovers, refused pushes, failed
\* writes and draining in between, each delivery, counted or about to be, is one
\* key of one message's audience that did not have the message before.
Audience(m) == IF from[m] = None THEN {} ELSE to[m] \ {KeyOf[from[m]]}
OnWire(k, m) == \E c \in Conns : KeyOf[c] = k /\ \E i \in DOMAIN wire[c] : wire[c][i] = m
Sent == {c \in Conns : wpc[c] = "sent"}

Cast == INSTANCE Multicast WITH
          Keys <- PubKeys, Messages <- Msgs,
          submitted <- received,
          audience <- [m \in Msgs |-> Audience(m)],
          reached <- {p \in Msgs \X PubKeys : OnWire(p[2], p[1])},
          count <- delivered + Cardinality(Sent)
ImplementsMulticast == Cast!CastSpec

\* Each outChan is the queue that core.Connector promises, and the DeliverTo of
\* every read loop that turns to its connection a call of SafePush: what Connector
\* shows of the lock is all that the relay relies on.
PushState(c, d) ==
  IF dest[c] # d THEN "none" ELSE
  CASE rpc[c] = "push"   -> "pending"
    [] rpc[c] = "undo"   -> "refused"
    [] rpc[c] = "lookup" -> "accepted"
    [] OTHER             -> "none"
PushArg(c, d) == IF PushState(c, d) = "none" THEN NoMsg ELSE cur[c]

Queue(d) == INSTANCE DropQueue WITH
              Pushers <- Conns, Messages <- Msgs, Capacity <- OutBufSize, Nothing <- NoMsg,
              queue <- outChan[d], closed <- isClosed[d],
              call <- [c \in Conns |-> PushState(c, d)],
              arg <- [c \in Conns |-> PushArg(c, d)]
UsesDropQueues ==
  /\ \A d \in Conns : Queue(d)!QueueInit
  /\ [][\A d \in Conns : [Queue(d)!QueueNext]_(Queue(d)!queueVars)]_vars

\* A write pump that ended leaves nothing behind: a push that raced with Close
\* was either refused or drained.
NothingStranded == \A c \in Conns : wpc[c] = "done" => outChan[c] = <<>> /\ isClosed[c]

\* While no connection has been closed, every processed message is counted as a
\* delivery or as a failure, or is held by somebody who will account for it: as a
\* buffer, or, where the last reference has been given up already, at a write pump
\* that is about to count.
Uncounted == {c \in Conns : wpc[c] \in {"sent", "failed"}}
NoSilentLoss ==
  (\A c \in Conns : ~isClosed[c]) =>
    processed <= delivered + noRecip + Cardinality({m \in Msgs : refs[m] > 0})
                                     + Cardinality(Uncounted)

\* Nothing is counted twice: there is at most one delivery or failure for each
\* recipient of a processed message, and one failure more for the message itself.
Addressed == {p \in Msgs \X PubKeys : stripped[p[1]] /\ p[2] \in Audience(p[1])}
CountedOnce == delivered + noRecip <= Cardinality(Addressed) + processed

\* The counters that /metrics reports fit together from both sides.
CountersAddUp == NoSilentLoss /\ CountedOnce

\* Every buffer is freed in the end.
BuffersFreed == \A m \in Msgs : refs[m] > 0 ~> refs[m] = 0

\* A connection closed from either side leaves the registry, and both of its
\* goroutines end: a failed write does not leave the read loop blocked, a
\* finished read loop does not leave the write pump blocked.
ClosedIsCleanedUp ==
  \A c \in Conns : isClosed[c] ~> /\ \A k \in PubKeys : connectors[k] # c
                                 /\ rpc[c] = "done" /\ wpc[c] = "done"

\* A read loop that has a frame in hand can always take its next step, whatever
\* the recipients' pumps and peers do or fail to do: a slow recipient never
\* holds up a sender.
SenderNeverBlocked ==
  \A c \in Conns : cur[c] # NoMsg => ENABLED ReaderStep(c)

\* relayer.go says that noRecip counts messages dropped because no recipient
\* was found: there would be no more of them than messages.
NoRecipBounded == noRecip <= processed
=============================================================================
