-------------------------------- MODULE Frame --------------------------------
(***************************************************************************)
(* One turn of the read loop of WSConnector.ReadWriteLoop over one          *)
(* WebSocket message, with readMessageWithFixedFromID read by read, and the *)
(* accessors of core.Message and core.ExtractTargets over its result.       *)
(*                                                                         *)
(* A WebSocket message is a sequence of cells: the recipient count, one     *)
(* cell for each 32-byte recipient, one for the four bytes of DataLen, one  *)
(* for each byte of Data. A cell may hold anything, so a count can          *)
(* promise more, or less, than follows, and what is meant as a recipient    *)
(* may be read as a length. The message breaks off with "eof" (its end),    *)
(* "fail" (an I/O error) or "empty" (a Read of no bytes without an error).  *)
(***************************************************************************)
EXTENDS Integers, Sequences, SequencesExt, FiniteSets

CONSTANTS MaxTargets,  \* core.MaxTargetsPerMessage
          MaxDataLen,  \* core.MaxMessageSize
          MaxCell,     \* bound: cells hold 0..MaxCell
          MaxCells,    \* bound: length of a WebSocket message
          Self         \* the key of this connection

Cells == 0..MaxCell

ASSUME FrameAssumption == /\ MaxCell \in Nat
                          /\ MaxTargets \in Nat /\ MaxTargets < MaxCell
                          /\ MaxDataLen \in Nat /\ MaxDataLen < MaxCell
                          /\ MaxCells \in Nat
                          /\ Self \in Cells

VARIABLES kind, wire, ending, \* the message that conn.Reader returned
          pos,                \* cells read so far
          pc,
          buf, refs,          \* the buffer's bytes written so far, and Buffer.refs
          result,             \* what readMessageWithFixedFromID returned
          hungUp              \* conn.Close was called

input == <<kind, wire, ending>>
vars  == <<input, pos, pc, buf, refs, result, hungUp>>

PCs     == {"type", "count", "header", "body", "probe", "switch", "next", "returned"}
Results == {"none", "ok", "skip", "invalid", "tooLarge", "ioError"}

Init == /\ kind \in {"binary", "text"}
        /\ wire \in BoundedSeq(Cells, MaxCells)
        /\ ending \in {"eof", "fail", "empty"}
        /\ pos = 0 /\ pc = "type"
        /\ buf = <<>> /\ refs = 0
        /\ result = "none" /\ hungUp = FALSE

-----------------------------------------------------------------------------
(* core.Message: [FromID][ToIDsLen][ToIDs][DataLen][Data], indexed from 0.  *)

Zero == 0      \* the zeroed ID
Nil  == <<-1>> \* no payload, as opposed to an empty one

FromID(m)   == IF Len(m) >= 1 THEN m[1] ELSE Zero
ToIDsLen(m) == IF Len(m) > 1 THEN m[2] ELSE 0

ToIDAt(m, i) ==
  IF i \in 0..(ToIDsLen(m) - 1) /\ Len(m) >= 2 + i + 1 THEN m[2 + i + 1] ELSE Zero

Payload(m) ==
  LET start == 2 + ToIDsLen(m) + 1 IN
  IF Len(m) < start \/ Len(m) < start + m[start] THEN Nil
  ELSE SubSeq(m, start + 1, start + m[start])

\* A fault of ZeroToIDs: the last recipient is spared.
ZeroAllButLast(m) ==
  LET n == ToIDsLen(m) IN
  IF Len(m) < 2 + n THEN m
  ELSE [i \in DOMAIN m |-> IF i \in 3..(1 + n) THEN Zero ELSE m[i]]

ZeroToIDs(m) ==
  LET n == ToIDsLen(m) IN
  IF Len(m) < 2 + n THEN m
  ELSE [i \in DOMAIN m |-> IF i \in 3..(2 + n) THEN Zero ELSE m[i]]

(* core.ExtractTargets: the loop over the recipients, clamped. *)

\* A fault of ExtractTargets: the loop ends at the sender's key.
ExtractUntilSelf(m, self) ==
  LET n == IF ToIDsLen(m) > MaxTargets THEN MaxTargets ELSE ToIDsLen(m)
      targets[i \in 0..n] == IF i = 0 THEN <<>>
                             ELSE IF \E j \in 0..(i - 1) : ToIDAt(m, j) = self THEN targets[i - 1]
                             ELSE Append(targets[i - 1], ToIDAt(m, i - 1))
  IN  targets[n]

ExtractTargets(m, self) ==
  LET n == IF ToIDsLen(m) > MaxTargets THEN MaxTargets ELSE ToIDsLen(m)
      targets[i \in 0..n] == IF i = 0 THEN <<>>
                             ELSE IF ToIDAt(m, i - 1) = self THEN targets[i - 1]
                             ELSE Append(targets[i - 1], ToIDAt(m, i - 1))
  IN  targets[n]

\* A fault: neighbours only are compared.
hasDuplicateNeighbour(ids, n) == \E i \in 1..(n - 1) : ids[i] = ids[i + 1]

hasDuplicateTarget(ids, n) == \E i \in 1..(n - 1) : \E j \in (i + 1)..n : ids[i] = ids[j]

-----------------------------------------------------------------------------
Left        == Len(wire) - pos
Upcoming(k) == SubSeq(wire, pos + 1, pos + k) \* what io.ReadFull of k cells reads
Count       == wire[1]
DataLen     == wire[2 + Count]

\* readMessageWithFixedFromID returns.
Return(r) ==
  /\ result' = r
  /\ pc' = "switch"
  /\ UNCHANGED <<input, buf, hungUp>>

\* buf.Release().
Release == refs' = refs - 1

\* ReadWriteLoop: a message that is not binary is drained.
ReadType ==
  /\ pc = "type"
  /\ IF kind = "binary" THEN pc' = "count" /\ UNCHANGED pos
                        ELSE pc' = "next" /\ pos' = Len(wire)
  /\ UNCHANGED <<input, buf, refs, result, hungUp>>

\* Step 1: the recipient count. None: drain and skip; too many: a violation.
ReadCount ==
  /\ pc = "count"
  /\ \/ Left < 1 /\ Return("ioError") /\ UNCHANGED pos
     \/ Left >= 1 /\ Count = 0 /\ Return("skip") /\ pos' = Len(wire)
     \/ Left >= 1 /\ Count > MaxTargets /\ Return("invalid") /\ pos' = 1
     \/ /\ Left >= 1 /\ Count \in 1..MaxTargets
        /\ pc' = "header" /\ pos' = 1
        /\ UNCHANGED <<input, buf, result, hungUp>>
  /\ UNCHANGED refs

\* A fault: the declared length is not limited.
ReadHeaderNoLimit ==
  /\ pc = "header"
  /\ IF Left < Count + 1 \/ hasDuplicateTarget(Upcoming(Count), Count)
     THEN Return("invalid") /\ pos' = Len(wire) /\ UNCHANGED refs
     ELSE /\ buf' = <<Self, Count>> \o Upcoming(Count + 1)
          /\ refs' = 1
          /\ pc' = "body" /\ pos' = pos + Count + 1
          /\ UNCHANGED <<input, result, hungUp>>

\* Step 2: recipients and DataLen. Step 3: the buffer and all before Data in it.
ReadHeader ==
  /\ pc = "header"
  /\ LET ids == Upcoming(Count) IN
     \/ Left < Count + 1 /\ Return("ioError") /\ pos' = Len(wire) /\ UNCHANGED refs
     \/ /\ Left >= Count + 1 /\ hasDuplicateTarget(ids, Count)
        /\ Return("invalid") /\ pos' = pos + Count + 1 /\ UNCHANGED refs
     \/ /\ Left >= Count + 1 /\ ~hasDuplicateTarget(ids, Count) /\ DataLen > MaxDataLen
        /\ Return("tooLarge") /\ pos' = pos + Count + 1 /\ UNCHANGED refs
     \/ /\ Left >= Count + 1 /\ ~hasDuplicateTarget(ids, Count) /\ DataLen <= MaxDataLen
        /\ buf' = <<Self, Count>> \o Upcoming(Count + 1)
        /\ refs' = 1
        /\ pc' = "body" /\ pos' = pos + Count + 1
        /\ UNCHANGED <<input, result, hungUp>>

\* Data, if there is any, straight into the buffer, which is given up on an error.
ReadBody ==
  /\ pc = "body"
  /\ IF Left < DataLen
     THEN Release /\ Return("ioError") /\ pos' = Len(wire)
     ELSE /\ buf' = buf \o Upcoming(DataLen)
          /\ pc' = "probe" /\ pos' = pos + DataLen
          /\ UNCHANGED <<input, refs, result, hungUp>>

\* A fault: no probe, as if the library reported what is left over.
ProbeNothing == pc = "probe" /\ Return("ok") /\ UNCHANGED <<pos, refs>>

\* A fault: the buffer is given up on surplus bytes, but not when Read fails.
ProbeLeaks ==
  /\ pc = "probe"
  /\ \/ Left > 0 /\ Release /\ Return("invalid") /\ pos' = pos + 1
     \/ Left = 0 /\ ending = "eof" /\ Return("ok") /\ UNCHANGED <<pos, refs>>
     \/ /\ Left = 0 /\ ending # "eof"
        /\ Return(IF ending = "empty" THEN "invalid" ELSE "ioError") /\ UNCHANGED <<pos, refs>>

\* One more Read has to meet the end of the message; or the buffer is given up.
Probe ==
  /\ pc = "probe"
  /\ \/ Left > 0 /\ Release /\ Return("invalid") /\ pos' = pos + 1
     \/ Left = 0 /\ ending = "eof" /\ Return("ok") /\ UNCHANGED <<pos, refs>>
     \/ /\ Left = 0 /\ ending # "eof" /\ Release
        /\ Return(IF ending = "empty" THEN "invalid" ELSE "ioError") /\ UNCHANGED pos

\* ReadWriteLoop on the outcome: relay the message and release it, go on, or
\* hang up where the peer broke the protocol, and return.
Switch ==
  /\ pc = "switch"
  /\ refs' = IF result = "ok" THEN refs - 1 ELSE refs
  /\ hungUp' = (result \in {"invalid", "tooLarge"})
  /\ pc' = IF result \in {"ok", "skip"} THEN "next" ELSE "returned"
  /\ UNCHANGED <<input, pos, buf, result>>

Next == ReadType \/ ReadCount \/ ReadHeader \/ ReadBody \/ Probe \/ Switch

Spec == Init /\ [][Next]_vars /\ WF_vars(Next)

-----------------------------------------------------------------------------
\* Type invariant.
TypeOK == /\ pos \in 0..Len(wire)
          /\ pc \in PCs /\ result \in Results
          /\ refs \in {0, 1} /\ hungUp \in BOOLEAN
          /\ buf = <<>> \/ Len(buf) \in (3 + Count)..(3 + Count + MaxDataLen)

\* A well-formed frame, as Comunication.md describes it: one to MaxTargets
\* different recipients, and exactly as many bytes as declared, up to the limit.
WellFormed ==
  /\ kind = "binary" /\ ending = "eof"
  /\ \E n \in 1..MaxTargets, d \in 0..MaxDataLen :
       /\ Len(wire) = 1 + n + 1 + d
       /\ wire[1] = n /\ wire[n + 2] = d
       /\ IsInjective(SubSeq(wire, 2, n + 1))

\* Exactly the well-formed frames reach HandleMessage: a declared length that is
\* below or above what follows, however it is reached, is not enough.
AcceptsExactlyWellFormed ==
  pc \in {"switch", "next", "returned"} => (result = "ok" <=> WellFormed)

\* Every way through a turn balances the buffer: each of the returns of
\* readMessageWithFixedFromID that follow the allocation releases what it does not
\* hand over, once; "ok" hands over one reference; and none is left when the loop
\* goes on or returns.
TurnLeavesNothing ==
  /\ pc = "switch" => refs = IF result = "ok" THEN 1 ELSE 0
  /\ pc \in {"next", "returned"} => refs = 0

\* What HandleMessage is given: the authenticated sender, the recipients and the
\* payload as they were sent, and no byte that was not.
MessageAsSent ==
  result = "ok" => /\ FromID(buf) = Self
                   /\ ToIDsLen(buf) = wire[1]
                   /\ \A i \in 1..wire[1] : ToIDAt(buf, i - 1) = wire[1 + i]
                   /\ Payload(buf) = SubSeq(wire, wire[1] + 3, Len(wire))

\* ZeroToIDs erases every recipient and nothing else, so that the layout, and
\* with it the payload, is found where it was.
StrippingKeepsTheRest ==
  result = "ok" => LET z == ZeroToIDs(buf) IN
    /\ \A i \in 0..(wire[1] - 1) : ToIDAt(z, i) = Zero
    /\ FromID(z) = Self /\ ToIDsLen(z) = wire[1] /\ Payload(z) = Payload(buf)

\* The targets of an accepted message are its recipients without the sender,
\* each once, in their order.
TargetsExact ==
  result = "ok" => LET ts == ExtractTargets(buf, Self)
                       ids == SubSeq(wire, 2, wire[1] + 1) IN
    /\ ToSet(ts) = ToSet(ids) \ {Self}
    /\ IsInjective(ts)
    /\ \A i, j \in DOMAIN ts, k, l \in DOMAIN ids :
         i < j /\ ts[i] = ids[k] /\ ts[j] = ids[l] => k < l
=============================================================================
