------------------------------ MODULE FrameProofs ------------------------------
(***************************************************************************)
(* What the read loop promises about a message and its buffer, for all      *)
(* limits, any chat client and any message of any other program, and what   *)
(* the chat client and the read loop promise together.                     *)
(*                                                                         *)
(* ProgressOK says for each position in readMessageWithFixedFromID what is  *)
(* known of the message and what is in the buffer: what was checked so far, *)
(* and a copy of what was read so far, behind the sender. The outcome then  *)
(* is "ok" exactly when the checks together say that the frame is well      *)
(* formed.                                                                 *)
(***************************************************************************)
EXTENDS Chat, DataLemmas

\* The positions before the outcome of a turn is known, and those after.
Reading == {"type", "count", "header", "body", "probe"}
Done    == {"switch", "next", "returned"}

\* What is typed, written, read and heard are sequences of cells.
DataOK == /\ wire \in Seq(Cells) /\ buf \in Seq(Cells)
          /\ sock \in Seq(Seq(Cells)) /\ heard \in Seq(Seq(Cells))
          /\ currentRecipients \in Lists \cup {<<>>} /\ line \in Seq(Cells)
          /\ typed \in Seq([ids : Seq(Cells), text : Seq(Cells)]) /\ Len(typed) <= MaxLines

\* The other variables, and how much of the message was read.
ControlOK == /\ pc \in PCs /\ result \in Results /\ at \in {"prompt", "send", "exit"}
             /\ pos \in 0..Len(wire) /\ off \in Nat
             /\ refs \in {0, 1} /\ hungUp \in BOOLEAN

\* The recipients and DataLen of the message are there and in order.
HeaderOK == /\ kind = "binary" /\ wire # <<>> /\ Count \in 1..MaxTargets /\ Count + 2 <= Len(wire)
            /\ ~hasDuplicateTarget(SubSeq(wire, 2, Count + 1), Count)
            /\ DataLen \in 0..MaxDataLen

\* The whole message is in order.
MessageOK == HeaderOK /\ Len(wire) = Count + 2 + DataLen /\ ending = "eof"

\* The sender and the cells read so far.
Received(n) == <<Self>> \o SubSeq(wire, 1, n)

\* What is known of the message, and what was written, at each position.
ProgressOK ==
  /\ pc \in {"type", "count"} => pos = 0
  /\ pc = "count" => kind = "binary"
  /\ pc = "header" => /\ kind = "binary" /\ pos = 1 /\ 1 <= Len(wire)
                      /\ Count \in 1..MaxTargets
  /\ pc \in {"body", "probe"} => HeaderOK /\ buf = Received(pos)
  /\ pc = "body" => pos = Count + 2
  /\ pc = "probe" => pos = Count + 2 + DataLen
  /\ pc \in Reading => result = "none"
  /\ pc \in Done => IF result = "ok" THEN MessageOK /\ buf = Received(Len(wire))
                                     ELSE ~MessageOK
  /\ buf = <<>> \/ (HeaderOK /\ Len(buf) \in (Count + 3)..(Count + 3 + DataLen))

\* One reference between the allocation and the outcome, and with "ok" beyond.
RefOK == refs = IF pc \in {"body", "probe"} \/ (pc = "switch" /\ result = "ok")
                THEN 1 ELSE 0

TurnInv == DataOK /\ ControlOK /\ ProgressOK /\ RefOK

\* A frame of the client: a chunk of a line, for the recipients typed with it.
FrameIsChat(w) == \E i \in DOMAIN typed : \E data \in Seq(Cells) :
                    Len(data) \in 1..ChunkSize /\ w = ChatFrame(typed[i].ids, data)

\* What the connection delivers of such a frame: its beginning.
PartIsChat(w) == \E f : FrameIsChat(f) /\ \E n \in 0..Len(f) : w = SubSeq(f, 1, n)

\* What the client promises of what it writes, and what the read loop makes of it.
ClientOK ==
  /\ kind = "binary" /\ ending \in {"eof", "fail"}
  /\ \A i \in DOMAIN typed : Len(typed[i].ids) <= MaxTargets
  /\ at = "prompt" => off >= Len(line)
  /\ off < Len(line) => /\ typed # <<>>
                        /\ typed[Len(typed)] = [ids |-> Truncated(currentRecipients), text |-> line]
  /\ \A i \in DOMAIN sock : FrameIsChat(sock[i])
  /\ \/ pc \in {"next", "returned"} /\ result = "none"
     \/ IF ending = "eof" THEN FrameIsChat(wire) ELSE PartIsChat(wire)
  /\ result \in {"none", "ok", "skip", "ioError"} \/ (result = "invalid" /\ Repeats)
  /\ pc = "switch" /\ result = "skip" => Count = 0
  /\ pc = "switch" => result # "none"
  /\ hungUp => Repeats

\* Bytes with their recipients: none where there are no recipients. Those of a
\* line, of a message that was heard, and of a frame.
Pairs           == Seq(Cells) \X Cells
Bytes(ids, str) == IF ids = <<>> THEN <<>> ELSE Addressed(ids, str)
TypedIn(t)      == Bytes(t.ids, t.text)
HeardIn(m)      == Addressed([j \in 1..ToIDsLen(m) |-> ToIDAt(m, j - 1)], Payload(m))
InFrame(w)      == Bytes(SubSeq(w, 2, w[1] + 1), SubSeq(w, w[1] + 3, Len(w)))

\* The connection broke, or the server hung up.
Broken == pc = "returned" \/ ending = "fail"

\* Those in transit: in the message that is read, in the frames behind it, and of
\* the line that is being written.
InTurn == IF pc = "next" \/ Broken THEN <<>> ELSE InFrame(wire)
InSock == FlattenSeq([i \in DOMAIN sock |-> InFrame(sock[i])])
Unsent == IF off < Len(line)
          THEN Bytes(Truncated(currentRecipients), SubSeq(line, off + 1, Len(line)))
          ELSE <<>>

\* What was heard, then what is read, waits to be read and waits to be written.
InOrder(h, t, k, u) == h \o (t \o (k \o u))

\* Nothing is lost, added or out of order on the way, until the connection breaks or
\* the server hangs up; and then nothing but the end is lost.
FlowOK == /\ \A i \in DOMAIN heard : HeardIn(heard[i]) \in Seq(Pairs)
          /\ IF Broken THEN IsPrefix(BytesHeard, BytesTyped)
             ELSE BytesTyped = InOrder(BytesHeard, InTurn, InSock, Unsent)

\* A client that left before it typed anything, or any other program, has nothing typed.
ChatInv == (at = "exit" /\ typed = <<>>) \/ (ClientOK /\ FlowOK)

-----------------------------------------------------------------------------
(* What is copied into the buffer. *)

\* The sender and a part of the message are a sequence of cells.
LEMMA ReceivedType ==
  ASSUME wire \in Seq(Cells), NEW n \in 0..Len(wire)
  PROVE  Received(n) \in Seq(Cells) /\ Len(Received(n)) = n + 1
<1>1. SubSeq(wire, 1, n) \in Seq(Cells) /\ Len(SubSeq(wire, 1, n)) = n
  BY SubSeqProperties
<1>2. <<Self>> \in Seq(Cells) /\ Len(<<Self>>) = 1
  BY FrameAssumption
<1> QED
  BY <1>1, <1>2, ConcatProperties DEF Received

\* What is read next is appended.
LEMMA ReceivedMore ==
  ASSUME wire \in Seq(Cells), NEW m \in 0..Len(wire), NEW n \in m..Len(wire)
  PROVE  Received(m) \o SubSeq(wire, m + 1, n) = Received(n)
<1>1. SubSeq(wire, 1, m) \o SubSeq(wire, m + 1, n) = SubSeq(wire, 1, n)
  BY ConcatAdjacentSubSeq
<1>2. /\ <<Self>> \in Seq(Cells) /\ SubSeq(wire, 1, m) \in Seq(Cells)
      /\ SubSeq(wire, m + 1, n) \in Seq(Cells)
  BY FrameAssumption
<1>3. Regroups(<<Self>>, SubSeq(wire, 1, m), SubSeq(wire, m + 1, n))
  BY <1>2, ConcatRegroups, Zenon
<1> QED
  BY <1>1, <1>3 DEF Received, Regroups

\* The header of the buffer.
LEMMA ReceivedHeader ==
  ASSUME wire \in Seq(Cells), NEW n \in 1..Len(wire)
  PROVE  <<Self, Count>> \o SubSeq(wire, 2, n) = Received(n)
<1>1. <<Self, Count>> = Received(1)
  <2>1. 1 \in Int /\ \A i \in 1..1 : wire[i] \in Cells
    OBVIOUS
  <2>2. Len(SubSeq(wire, 1, 1)) = 1 /\ SubSeq(wire, 1, 1)[1] = Count
    BY <2>1, SubSeqProperties DEF Count
  <2>3. SubSeq(wire, 1, 1) \in Seq(Cells) /\ <<Self>> \in Seq(Cells)
    BY <2>1, SubSeqProperties, FrameAssumption
  <2> HIDE DEF Count
  <2> QED
    BY <2>2, <2>3 DEF Received
<1>2. Received(1) \o SubSeq(wire, 2, n) = Received(n)
  <2>1. 1 \in 0..Len(wire) /\ n \in 1..Len(wire) /\ 1 + 1 = 2
    OBVIOUS
  <2> QED
    BY <2>1, ReceivedMore
<1> QED
  BY <1>1, <1>2

-----------------------------------------------------------------------------
(* The invariant of a turn. *)

\* Nothing in a turn but NextMessage changes the message.
LEMMA SameMessage ==
  ASSUME UNCHANGED input
  PROVE  /\ Count' = Count /\ DataLen' = DataLen
         /\ HeaderOK' = HeaderOK /\ MessageOK' = MessageOK
BY DEF input, Count, DataLen, HeaderOK, MessageOK

\* The numbers in a message are natural numbers.
LEMMA CellsAreNumbers ==
  ASSUME wire \in Seq(Cells)
  PROVE  /\ Len(wire) \in Nat /\ MaxTargets \in Nat /\ MaxDataLen \in Nat
         /\ \A i \in 1..Len(wire) : wire[i] \in Nat /\ wire[i] \in Cells
BY FrameAssumption DEF Cells

\* Every way out of readMessageWithFixedFromID that leaves one reference with "ok" and
\* none without, and returns "ok" only when the whole message is in order.
LEMMA ReturnStep ==
  ASSUME TurnInv, UNCHANGED <<input, at, off>>, pc \in Reading,
         NEW r \in Results \ {"none"}, Return(r), pos' \in 0..Len(wire),
         refs' = IF r = "ok" THEN 1 ELSE 0,
         r = "ok" => pc = "probe" /\ MessageOK /\ pos = Len(wire),
         r # "ok" => ~MessageOK
  PROVE  ControlOK' /\ ProgressOK' /\ RefOK'
<1>1. result' = r /\ pc' = "switch" /\ buf' = buf /\ hungUp' = hungUp /\ wire' = wire
  BY DEF Return, input
<1>2. /\ HeaderOK' = HeaderOK /\ MessageOK' = MessageOK /\ Count' = Count
      /\ DataLen' = DataLen
  BY SameMessage
<1>3. ControlOK'
  BY <1>1 DEF TurnInv, ControlOK, PCs
<1>4. RefOK'
  BY <1>1 DEF RefOK
<1>5. r = "ok" => buf = Received(Len(wire))
  BY DEF TurnInv, ProgressOK
<1>6. ProgressOK'
  BY <1>1, <1>2, <1>5 DEF TurnInv, ProgressOK, Reading, Done, Received
<1> QED
  BY <1>3, <1>4, <1>6

\* A message that is not binary is passed over.
LEMMA ReadTypeStep ==
  ASSUME TurnInv, UNCHANGED <<at, off>>, ReadType
  PROVE  ControlOK' /\ ProgressOK' /\ RefOK'
<1>1. /\ pc = "type" /\ wire' = wire /\ kind' = kind /\ buf' = buf /\ refs' = refs
      /\ result' = result /\ hungUp' = hungUp
      /\ IF kind = "binary" THEN pc' = "count" /\ pos' = pos
                            ELSE pc' = "next" /\ pos' = Len(wire)
  BY DEF ReadType, input
<1>2. /\ HeaderOK' = HeaderOK /\ MessageOK' = MessageOK /\ Count' = Count
      /\ DataLen' = DataLen
  BY SameMessage DEF ReadType
<1>3. result = "none" /\ pos = 0 /\ refs = 0
  BY <1>1 DEF TurnInv, ProgressOK, RefOK, Reading
<1>4. kind # "binary" => ~MessageOK
  BY DEF MessageOK, HeaderOK
<1>5. Len(wire) \in Nat
  BY DEF TurnInv, DataOK
<1>6. ControlOK'
  BY <1>1, <1>5 DEF TurnInv, ControlOK, PCs
<1>7. RefOK'
  BY <1>1, <1>3 DEF RefOK
<1>8. ProgressOK'
  BY <1>1, <1>2, <1>3, <1>4 DEF TurnInv, ProgressOK, Reading, Done
<1> QED
  BY <1>6, <1>7, <1>8

\* Without a count, with none or with too many recipients no message is in order.
LEMMA ReadCountStep ==
  ASSUME TurnInv, UNCHANGED <<at, off>>, ReadCount
  PROVE  ControlOK' /\ ProgressOK' /\ RefOK'
<1>1. /\ pc = "count" /\ kind = "binary" /\ pos = 0 /\ refs = 0 /\ wire \in Seq(Cells)
      /\ result = "none"
  BY DEF ReadCount, TurnInv, ProgressOK, RefOK, DataOK, Reading
<1>2. Left = Len(wire) /\ Len(wire) \in Nat /\ (Len(wire) = 0 <=> wire = <<>>)
  BY <1>1 DEF Left
<1>3. Left >= 1 => Count \in Nat
  BY <1>1, <1>2, FrameAssumption DEF Count, Cells
<1>4. UNCHANGED input /\ refs' = 0
  BY <1>1 DEF ReadCount, Return
<1>5. MaxTargets \in Nat
  BY FrameAssumption
<1>6. CASE Left < 1 /\ Return("ioError") /\ UNCHANGED pos
  <2>1. ~MessageOK
    BY <1>2, <1>6 DEF MessageOK, HeaderOK
  <2> QED
    BY <1>1, <1>2, <1>4, <1>6, <2>1, ReturnStep DEF Reading, Results
<1>7. CASE Left >= 1 /\ Count = 0 /\ Return("skip") /\ pos' = Len(wire)
  <2>1. ~MessageOK
    BY <1>7 DEF MessageOK, HeaderOK
  <2> QED
    BY <1>1, <1>2, <1>4, <1>7, <2>1, ReturnStep DEF Reading, Results
<1>8. CASE Left >= 1 /\ Count > MaxTargets /\ Return("invalid") /\ pos' = 1
  <2>1. ~MessageOK
    BY <1>3, <1>5, <1>8 DEF MessageOK, HeaderOK
  <2> QED
    BY <1>1, <1>2, <1>4, <1>8, <2>1, ReturnStep DEF Reading, Results
<1>9. CASE /\ Left >= 1 /\ Count \in 1..MaxTargets
           /\ pc' = "header" /\ pos' = 1
           /\ UNCHANGED <<input, buf, result, hungUp>>
  <2>1. wire' = wire /\ kind' = kind
    BY <1>4 DEF input
  <2>2. /\ HeaderOK' = HeaderOK /\ MessageOK' = MessageOK /\ Count' = Count
        /\ DataLen' = DataLen
    BY <1>4, SameMessage
  <2>3. ControlOK'
    BY <1>2, <1>4, <1>9, <2>1 DEF TurnInv, ControlOK, PCs
  <2>4. RefOK'
    BY <1>4, <1>9 DEF RefOK
  <2>5. ProgressOK'
    BY <1>1, <1>2, <1>9, <2>1, <2>2 DEF TurnInv, ProgressOK, Reading, Done
  <2> QED
    BY <2>3, <2>4, <2>5
<1> QED
  BY <1>6, <1>7, <1>8, <1>9 DEF ReadCount

\* The recipients are there and differ, and DataLen is within the limit; or the
\* message is not in order.
LEMMA ReadHeaderStep ==
  ASSUME TurnInv, UNCHANGED <<at, off>>, ReadHeader
  PROVE  ControlOK' /\ ProgressOK' /\ RefOK'
<1>1. /\ pc = "header" /\ kind = "binary" /\ pos = 1 /\ refs = 0 /\ wire \in Seq(Cells)
      /\ result = "none" /\ 1 <= Len(wire) /\ Count \in 1..MaxTargets
  BY DEF ReadHeader, TurnInv, ProgressOK, RefOK, DataOK, Reading
<1>2. /\ Left = Len(wire) - 1 /\ Len(wire) \in Nat /\ wire # <<>>
      /\ Upcoming(Count) = SubSeq(wire, 2, Count + 1)
      /\ Upcoming(Count + 1) = SubSeq(wire, 2, Count + 2)
  <2>1. MaxTargets \in Nat
    BY FrameAssumption
  <2>2. pos + 1 = 2 /\ pos + Count = Count + 1 /\ pos + (Count + 1) = Count + 2
    BY <1>1, <2>1
  <2> QED
    BY <1>1, <2>2 DEF Left, Upcoming
<1>3. UNCHANGED input /\ wire' = wire /\ kind' = kind
  BY DEF ReadHeader, Return, input
<1>4. MaxTargets \in Nat /\ Count \in Nat /\ MaxDataLen \in Nat
  BY <1>1, FrameAssumption
<1>5. Left >= Count + 1 => DataLen \in Nat
  BY <1>1, <1>2, <1>4, FrameAssumption DEF DataLen, Cells
<1> HIDE DEF Count, DataLen, Left
<1>6. CASE Left < Count + 1 /\ Return("ioError") /\ pos' = Len(wire) /\ UNCHANGED refs
  <2>1. ~MessageOK
    BY <1>2, <1>4, <1>6 DEF MessageOK, HeaderOK
  <2> QED
    BY <1>1, <1>2, <1>3, <1>6, <2>1, ReturnStep DEF Reading, Results
<1>7. CASE /\ Left >= Count + 1 /\ hasDuplicateTarget(Upcoming(Count), Count)
           /\ Return("invalid") /\ pos' = pos + Count + 1 /\ UNCHANGED refs
  <2>1. ~MessageOK
    BY <1>2, <1>7 DEF MessageOK, HeaderOK
  <2>2. pos' \in 0..Len(wire)
    BY <1>1, <1>2, <1>4, <1>7
  <2> QED
    BY <1>1, <1>3, <1>7, <2>1, <2>2, ReturnStep DEF Reading, Results
<1>8. CASE /\ Left >= Count + 1 /\ DataLen > MaxDataLen
           /\ Return("tooLarge") /\ pos' = pos + Count + 1 /\ UNCHANGED refs
  <2>1. ~MessageOK
    BY <1>4, <1>5, <1>8 DEF MessageOK, HeaderOK
  <2>2. pos' \in 0..Len(wire)
    BY <1>1, <1>2, <1>4, <1>8
  <2> QED
    BY <1>1, <1>3, <1>8, <2>1, <2>2, ReturnStep DEF Reading, Results
<1>9. CASE /\ Left >= Count + 1 /\ ~hasDuplicateTarget(Upcoming(Count), Count)
           /\ DataLen <= MaxDataLen
           /\ buf' = <<Self, Count>> \o Upcoming(Count + 1)
           /\ refs' = 1
           /\ pc' = "body" /\ pos' = pos + Count + 1
           /\ UNCHANGED <<input, result, hungUp>>
  <2>1. /\ HeaderOK' = HeaderOK /\ MessageOK' = MessageOK /\ Count' = Count
        /\ DataLen' = DataLen
    BY <1>3, SameMessage
  <2>2. pos' = Count + 2 /\ Count + 2 \in 1..Len(wire)
    BY <1>1, <1>2, <1>4, <1>9
  <2>3. HeaderOK
    BY <1>1, <1>2, <1>4, <1>5, <1>9, <2>2 DEF HeaderOK
  <2>4. buf' = Received(Count + 2)
    BY <1>1, <1>2, <1>9, <2>2, ReceivedHeader
  <2>5. Len(buf') = Count + 3
    BY <1>1, <1>4, <2>2, <2>4, ReceivedType
  <2>6. ControlOK'
    BY <1>2, <1>3, <1>9, <2>2 DEF TurnInv, ControlOK, PCs
  <2>7. RefOK'
    BY <1>1, <1>9 DEF RefOK
  <2>8. DataLen \in Nat
    BY <1>5, <1>9
  <2>9. Len(buf') \in (Count + 3)..(Count + 3 + DataLen)
    BY <1>4, <2>5, <2>8
  <2>10. ProgressOK'
    <3>1. Received(pos)' = buf'
      BY <1>3, <2>2, <2>4 DEF Received
    <3> QED
      BY <1>1, <1>9, <2>1, <2>2, <2>3, <2>9, <3>1 DEF TurnInv, ProgressOK, Reading, Done
  <2> QED
    BY <2>6, <2>7, <2>10
<1> QED
  BY <1>6, <1>7, <1>8, <1>9 DEF ReadHeader

\* Data follows as long as it was declared; or the message is not in order.
LEMMA ReadBodyStep ==
  ASSUME TurnInv, UNCHANGED <<at, off>>, ReadBody
  PROVE  ControlOK' /\ ProgressOK' /\ RefOK'
<1>1. /\ pc = "body" /\ pos = Count + 2 /\ refs = 1 /\ wire \in Seq(Cells)
      /\ result = "none" /\ HeaderOK /\ buf = Received(pos)
  BY DEF ReadBody, TurnInv, ProgressOK, RefOK, DataOK, Reading
<1>2. /\ Count \in Nat /\ DataLen \in Nat /\ Len(wire) \in Nat /\ pos \in 0..Len(wire)
      /\ Left = Len(wire) - pos
  BY <1>1, FrameAssumption DEF HeaderOK, Left
<1>3. UNCHANGED input /\ wire' = wire /\ kind' = kind
  BY DEF ReadBody, Return, input
<1> HIDE DEF Count, DataLen, Left
<1>4. CASE Left < DataLen /\ Release /\ Return("ioError") /\ pos' = Len(wire)
  <2>1. ~MessageOK
    BY <1>1, <1>2, <1>4 DEF MessageOK
  <2>2. refs' = 0
    BY <1>1, <1>4 DEF Release
  <2> QED
    BY <1>1, <1>2, <1>3, <1>4, <2>1, <2>2, ReturnStep DEF Reading, Results
<1>5. CASE /\ Left >= DataLen
           /\ buf' = buf \o Upcoming(DataLen)
           /\ pc' = "probe" /\ pos' = pos + DataLen
           /\ UNCHANGED <<input, refs, result, hungUp>>
  <2>1. /\ HeaderOK' = HeaderOK /\ MessageOK' = MessageOK /\ Count' = Count
        /\ DataLen' = DataLen
    BY <1>3, SameMessage
  <2>2. pos' = Count + 2 + DataLen /\ pos' \in pos..Len(wire)
    BY <1>1, <1>2, <1>5
  <2>3. buf' = Received(pos + DataLen)
    BY <1>1, <1>2, <1>5, <2>2, ReceivedMore DEF Upcoming
  <2>4. Len(buf') = Count + 3 + DataLen
    <3>1. pos + DataLen \in 0..Len(wire) /\ (pos + DataLen) + 1 = Count + 3 + DataLen
      BY <1>1, <1>2, <1>5, <2>2
    <3> QED
      BY <1>1, <2>3, <3>1, ReceivedType
  <2>5. ControlOK'
    BY <1>2, <1>3, <1>5, <2>2 DEF TurnInv, ControlOK, PCs
  <2>6. RefOK'
    BY <1>1, <1>5 DEF RefOK
  <2>7. Len(buf') \in (Count + 3)..(Count + 3 + DataLen)
    BY <1>2, <2>4
  <2>8. ProgressOK'
    <3>1. Received(pos)' = buf'
      BY <1>3, <1>5, <2>3 DEF Received
    <3> QED
      BY <1>1, <1>5, <2>1, <2>2, <2>7, <3>1 DEF TurnInv, ProgressOK, Reading, Done
  <2> QED
    BY <2>5, <2>6, <2>8
<1>6. Left < DataLen \/ Left >= DataLen
  BY <1>2
<1> QED
  BY <1>4, <1>5, <1>6 DEF ReadBody

\* Nothing follows, and the message has ended; or it is not in order.
LEMMA ProbeStep ==
  ASSUME TurnInv, UNCHANGED <<at, off>>, Probe
  PROVE  ControlOK' /\ ProgressOK' /\ RefOK'
<1>1. /\ pc = "probe" /\ pos = Count + 2 + DataLen /\ wire \in Seq(Cells)
      /\ HeaderOK /\ buf = Received(pos) /\ pos \in 0..Len(wire) /\ Len(wire) \in Nat
      /\ refs = 1
  BY DEF Probe, TurnInv, ProgressOK, ControlOK, DataOK, RefOK, Reading
<1>2. UNCHANGED input /\ Left = Len(wire) - pos
  BY DEF Probe, Return, Left
<1>3. MessageOK <=> Left = 0 /\ ending = "eof"
  BY <1>1, <1>2 DEF MessageOK
<1> HIDE DEF Count, DataLen, Left
<1>4. Release => refs' = 0
  BY <1>1 DEF Release
<1>5. CASE Left > 0 /\ Release /\ Return("invalid") /\ pos' = pos + 1
  <2>1. pos' \in 0..Len(wire)
    BY <1>1, <1>2, <1>5
  <2> QED
    BY <1>1, <1>2, <1>3, <1>4, <1>5, <2>1, ReturnStep DEF Reading, Results
<1>6. CASE Left = 0 /\ ending = "eof" /\ Return("ok") /\ UNCHANGED <<pos, refs>>
  <2>1. pos = Len(wire)
    BY <1>1, <1>2, <1>6
  <2> QED
    BY <1>1, <1>2, <1>3, <1>6, <2>1, ReturnStep DEF Reading, Results
<1>7. CASE /\ Left = 0 /\ ending # "eof" /\ Release
           /\ Return(IF ending = "empty" THEN "invalid" ELSE "ioError") /\ UNCHANGED pos
  BY <1>1, <1>2, <1>3, <1>4, <1>7, ReturnStep DEF Reading, Results
<1> QED
  BY <1>5, <1>6, <1>7 DEF Probe

\* The outcome stays what it is while the connection goes on or ends.
LEMMA SwitchStep ==
  ASSUME TurnInv, UNCHANGED <<at, off>>, Switch
  PROVE  ControlOK' /\ ProgressOK' /\ RefOK'
<1>1. /\ pc = "switch" /\ wire' = wire /\ pos' = pos /\ buf' = buf /\ result' = result
      /\ refs' = IF result = "ok" THEN refs - 1 ELSE refs
      /\ hungUp' = (result \in {"invalid", "tooLarge"})
      /\ pc' = IF result \in {"ok", "skip"} THEN "next" ELSE "returned"
  BY DEF Switch, input
<1>2. /\ HeaderOK' = HeaderOK /\ MessageOK' = MessageOK /\ Count' = Count
      /\ DataLen' = DataLen
  BY SameMessage DEF Switch
<1>3. refs' = 0
  BY <1>1 DEF TurnInv, RefOK
<1>4. ControlOK'
  BY <1>1, <1>3 DEF TurnInv, ControlOK, PCs
<1>5. RefOK'
  BY <1>1, <1>3 DEF TurnInv, RefOK
<1>6. ProgressOK'
  BY <1>1, <1>2 DEF TurnInv, ProgressOK, Reading, Done, Received
<1> QED
  BY <1>4, <1>5, <1>6

\* What a turn writes into the buffer, and hands over, are cells.
LEMMA DataTurn ==
  ASSUME TurnInv, TurnStep
  PROVE  DataOK'
<1>1. UNCHANGED <<input, inputVars, sock>> /\ wire \in Seq(Cells) /\ buf \in Seq(Cells)
  BY DEF TurnStep, Next, ReadType, ReadCount, ReadHeader, ReadBody, Probe, Switch, Return,
         TurnInv, DataOK
<1>2. buf' \in Seq(Cells)
  <2>1. CASE ReadHeader /\ buf' # buf
    <3>1. Count \in Nat /\ pos = 1 /\ 1 <= Len(wire) /\ Count \in Cells
      <4>1. pos = 1 /\ 1 <= Len(wire) /\ Count \in 1..MaxTargets
        BY <2>1 DEF ReadHeader, TurnInv, ProgressOK
      <4> QED
        BY <4>1, FrameAssumption DEF Cells
    <3>2. Left >= Count + 1 /\ buf' = <<Self, Count>> \o Upcoming(Count + 1)
      BY <2>1 DEF ReadHeader, Return
    <3>3. SubSeq(wire, pos + 1, pos + (Count + 1)) \in Seq(Cells)
      BY <1>1, <3>1, <3>2, SubSeqProperties DEF Left
    <3>4. <<Self, Count>> \in Seq(Cells)
      BY <3>1, FrameAssumption
    <3> QED
      BY <3>2, <3>3, <3>4 DEF Upcoming
  <2>2. CASE ReadBody /\ buf' # buf
    <3>1. DataLen \in Nat /\ pos \in Nat /\ Left >= DataLen /\ buf' = buf \o Upcoming(DataLen)
      <4>1. DataLen \in 0..MaxDataLen /\ pos \in 0..Len(wire)
        BY <2>2 DEF ReadBody, TurnInv, ProgressOK, HeaderOK, ControlOK
      <4>2. Left >= DataLen /\ buf' = buf \o Upcoming(DataLen)
        BY <1>1, <2>2, <4>1, FrameAssumption DEF ReadBody, Return, Left
      <4> QED
        BY <1>1, <4>1, <4>2, FrameAssumption
    <3>2. SubSeq(wire, pos + 1, pos + DataLen) \in Seq(Cells)
      BY <1>1, <3>1, SubSeqProperties DEF Left
    <3> QED
      BY <1>1, <3>1, <3>2 DEF Upcoming
  <2>3. CASE buf' = buf
    BY <1>1, <2>3
  <2> QED
    BY <2>1, <2>2, <2>3
       DEF TurnStep, Next, ReadType, ReadCount, Probe, Switch, Return
<1>3. heard' \in Seq(Seq(Cells))
  BY <1>1 DEF TurnStep, TurnInv, DataOK
<1> QED
  BY <1>1, <1>2, <1>3 DEF TurnInv, DataOK, input, inputVars

\* The invariant is preserved by the steps of a turn.
LEMMA TurnInvTurn ==
  ASSUME TurnInv, TurnStep
  PROVE  TurnInv'
<1>1. DataOK'
  BY DataTurn
<1>2. UNCHANGED <<at, off>>
  BY DEF TurnStep, inputVars
<1>3. ControlOK' /\ ProgressOK' /\ RefOK'
  BY <1>2, ReadTypeStep, ReadCountStep, ReadHeaderStep, ReadBodyStep, ProbeStep, SwitchStep
     DEF TurnStep, Next
<1> QED
  BY <1>1, <1>3 DEF TurnInv

-----------------------------------------------------------------------------
(* What the chat client writes. *)

\* No more recipients than fit.
LEMMA TruncatedFits ==
  ASSUME NEW ids \in Seq(Cells)
  PROVE  Truncated(ids) \in Seq(Cells) /\ Len(Truncated(ids)) <= MaxTargets
<1>1. MaxTargets \in Nat
  BY FrameAssumption
<1>2. CASE Len(ids) > MaxTargets
  <2>1. \A i \in 1..MaxTargets : ids[i] \in Cells
    BY <1>1, <1>2
  <2>2. /\ SubSeq(ids, 1, MaxTargets) \in Seq(Cells)
        /\ Len(SubSeq(ids, 1, MaxTargets)) = MaxTargets
    BY <1>1, <2>1, SubSeqProperties
  <2> QED
    BY <1>1, <1>2, <2>2 DEF Truncated
<1>3. CASE ~(Len(ids) > MaxTargets)
  BY <1>1, <1>3 DEF Truncated
<1> QED
  BY <1>2, <1>3

\* A chunk is not empty and not too large, and the rest of the line follows it.
LEMMA ChunkThenRest ==
  ASSUME NEW bytes \in Seq(Cells), NEW start \in Nat, start < Len(bytes)
  PROVE  /\ Chunk(bytes, start) \in Seq(Cells) /\ Len(Chunk(bytes, start)) \in 1..ChunkSize
         /\ Chunk(bytes, start) \o SubSeq(bytes, (start + ChunkSize) + 1, Len(bytes))
              = SubSeq(bytes, start + 1, Len(bytes))
         /\ SubSeq(bytes, (start + ChunkSize) + 1, Len(bytes)) \in Seq(Cells)
<1> DEFINE end == IF start + ChunkSize > Len(bytes) THEN Len(bytes) ELSE start + ChunkSize
<1>1. /\ ChunkSize \in Nat \ {0} /\ Len(bytes) \in Nat /\ end \in (start + 1)..Len(bytes)
      /\ end - start \in 1..ChunkSize
  BY ChatAssumption
<1>2. \A i \in (start + 1)..Len(bytes) : bytes[i] \in Cells
  OBVIOUS
<1>3. Chunk(bytes, start) = SubSeq(bytes, start + 1, end)
  BY DEF Chunk
<1>4. end = start + ChunkSize \/ (end = Len(bytes) /\ Len(bytes) <= start + ChunkSize)
  <2>1. start + ChunkSize \in Int /\ Len(bytes) \in Int
    BY <1>1
  <2> QED
    BY <2>1
<1> HIDE DEF end
<1>5. /\ SubSeq(bytes, start + 1, end) \in Seq(Cells)
      /\ Len(SubSeq(bytes, start + 1, end)) = end - start
  BY <1>1, <1>2, SubSeqProperties
<1>6. SubSeq(bytes, (start + ChunkSize) + 1, Len(bytes)) = SubSeq(bytes, end + 1, Len(bytes))
  <2>1. CASE end = start + ChunkSize
    BY <2>1
  <2>2. CASE end = Len(bytes) /\ Len(bytes) <= start + ChunkSize
    <3>1. /\ SubSeq(bytes, (start + ChunkSize) + 1, Len(bytes)) = <<>>
          /\ SubSeq(bytes, end + 1, Len(bytes)) = <<>>
      BY <1>1, <2>2, SubSeqEmpty
    <3> QED
      BY <3>1
  <2> QED
    BY <1>4, <2>1, <2>2
<1>7. SubSeq(bytes, start + 1, end) \o SubSeq(bytes, end + 1, Len(bytes))
        = SubSeq(bytes, start + 1, Len(bytes))
  <2>1. /\ start + 1 \in 1..(Len(bytes) + 1) /\ end \in ((start + 1) - 1)..Len(bytes)
        /\ Len(bytes) \in end..Len(bytes)
    BY <1>1
  <2> QED
    BY <2>1, ConcatAdjacentSubSeq
<1>8. SubSeq(bytes, end + 1, Len(bytes)) \in Seq(Cells)
  BY <1>1, <1>2, SubSeqProperties
<1> QED
  BY <1>1, <1>3, <1>5, <1>6, <1>7, <1>8

\* The layout of a frame of the client, whose recipients and data fit.
LEMMA ChatFrameLayout ==
  ASSUME NEW ids \in Seq(Cells), Len(ids) <= MaxTargets,
         NEW data \in Seq(Cells), Len(data) <= ChunkSize
  PROVE  LET w == ChatFrame(ids, data)
             n == Len(ids)
         IN  /\ w \in Seq(Cells) /\ Len(w) = n + 2 + Len(data)
             /\ w[1] = n /\ w[n + 2] = Len(data)
             /\ SubSeq(w, 2, n + 1) = ids /\ SubSeq(w, n + 3, Len(w)) = data
<1> DEFINE n == Len(ids)
           k == Len(data)
           t == <<n>> \o ids
           u == t \o <<k>>
           w == ChatFrame(ids, data)
<1>1. n \in Nat /\ k \in Nat /\ <<n>> \in Seq(Cells) /\ <<k>> \in Seq(Cells)
  BY FrameAssumption, ChatAssumption DEF Cells
<1>2. w = u \o data
  BY DEF ChatFrame
<1>3. Len(<<n>>) = 1 /\ <<n>>[1] = n /\ Len(<<k>>) = 1 /\ <<k>>[1] = k
  OBVIOUS
<1> HIDE DEF w
<1>4. t \in Seq(Cells) /\ Len(t) = n + 1 /\ t[1] = n
  <2>1. 1 \in 1..Len(<<n>>) /\ Len(<<n>>) + Len(ids) = n + 1
    BY <1>1, <1>3
  <2> HIDE DEF n
  <2> QED
    BY <1>1, <1>3, <2>1, ConcatElements
<1> HIDE DEF n, k, t
<1>5. u \in Seq(Cells) /\ Len(u) = n + 2 /\ u[1] = n /\ u[n + 2] = k
  <2>1. 1 \in 1..Len(t) /\ 1 \in 1..Len(<<k>>) /\ Len(t) + 1 = n + 2
    BY <1>1, <1>3, <1>4
  <2> QED
    BY <1>1, <1>3, <1>4, <2>1, ConcatElements
<1> HIDE DEF u
<1>6. w \in Seq(Cells) /\ Len(w) = n + 2 + k /\ w[1] = n /\ w[n + 2] = k
  <2>1. 1 \in 1..Len(u) /\ n + 2 \in 1..Len(u) /\ Len(data) = k
    BY <1>1, <1>5 DEF k
  <2>2. /\ u \o data \in Seq(Cells) /\ Len(u \o data) = Len(u) + Len(data)
        /\ \A i \in 1..Len(u) : (u \o data)[i] = u[i]
    BY <1>5, ConcatElements
  <2> QED
    BY <1>2, <1>5, <2>1, <2>2
<1>7. SubSeq(w, 2, n + 1) = ids
  <2>1. w = (<<n>> \o ids) \o (<<k>> \o data)
    BY DEF w, n, k, ChatFrame
  <2>2. <<k>> \o data \in Seq(Cells) /\ Len(ids) = n
    BY <1>1 DEF n
  <2>3. SubSeq(w, Len(<<n>>) + 1, Len(<<n>>) + Len(ids)) = ids
    BY <1>1, <2>1, <2>2, MiddlePart
  <2>4. Len(<<n>>) + 1 = 2 /\ Len(<<n>>) + Len(ids) = n + 1
    BY <1>1, <1>3, <2>2
  <2> QED
    BY <2>3, <2>4
<1>8. SubSeq(w, n + 3, Len(w)) = data
  <2>1. SubSeq(w, Len(u) + 1, Len(u) + Len(data)) = data
    BY <1>2, <1>5, SecondPart
  <2>2. Len(u) + 1 = n + 3 /\ Len(u) + Len(data) = Len(w)
    BY <1>1, <1>5, <1>6 DEF k
  <2> QED
    BY <2>1, <2>2
<1> QED
  BY <1>6, <1>7, <1>8 DEF n, k, w

-----------------------------------------------------------------------------
(* The invariant of a turn holds whatever the peer does. *)

\* The invariant holds when the connection is accepted.
LEMMA TurnInvInit == ChatInit => TurnInv
<1> SUFFICES ASSUME ChatInit PROVE TurnInv
  OBVIOUS
<1>1. /\ currentRecipients = <<>> /\ line = <<>> /\ off = 0 /\ sock = <<>> /\ typed = <<>>
      /\ heard = <<>> /\ pos = 0 /\ buf = <<>> /\ refs = 0 /\ result = "none"
      /\ hungUp = FALSE /\ at \in {"prompt", "exit"} /\ pc \in {"type", "next"}
      /\ pc = "next" => wire = <<>>
  BY DEF ChatInit, Init
<1>2. wire \in Seq(Cells)
  <2>1. CASE Init
    <3>1. PICK n \in 0..MaxCells : wire \in [1..n -> Cells]
      BY <2>1 DEF Init, BoundedSeq, SeqOf
    <3> QED
      BY <3>1, FrameAssumption
  <2>2. CASE wire = <<>>
    BY <2>2
  <2> QED
    BY <2>1, <2>2 DEF ChatInit
<1>3. /\ <<>> \in Seq(Cells) /\ <<>> \in Seq(Seq(Cells)) /\ Len(<<>>) = 0
      /\ <<>> \in Seq([ids : Seq(Cells), text : Seq(Cells)]) /\ Len(wire) \in Nat
  BY <1>2
<1>4. DataOK
  BY <1>1, <1>2, <1>3, ChatAssumption DEF DataOK
<1>5. ControlOK
  <2>1. hungUp \in BOOLEAN
    BY <1>1
  <2>2. pos \in 0..Len(wire)
    BY <1>1, <1>3
  <2> QED
    BY <1>1, <2>1, <2>2 DEF ControlOK, PCs, Results
<1>6. ProgressOK
  BY <1>1 DEF ProgressOK, Reading, Done, MessageOK, HeaderOK
<1>7. RefOK
  BY <1>1, <1>3 DEF RefOK
<1> QED
  BY <1>4, <1>5, <1>6, <1>7 DEF TurnInv

\* The recipients chosen are cells.
LEMMA RecipientsAreCells ==
  ASSUME TurnInv
  PROVE  currentRecipients \in Seq(Cells)
<1>1. Lists \subseteq Seq(Cells) /\ <<>> \in Seq(Cells)
  BY ChatAssumption
<1>2. currentRecipients \in Lists \/ currentRecipients = <<>>
  BY DEF TurnInv, DataOK
<1> QED
  BY <1>1, <1>2

\* What is typed are cells.
LEMMA TypeLineData ==
  ASSUME TurnInv, TypeLine
  PROVE  /\ line' \in Seq(Cells) /\ line' # <<>>
         /\ typed' \in Seq([ids : Seq(Cells), text : Seq(Cells)]) /\ Len(typed') <= MaxLines
         /\ Truncated(currentRecipients) \in Seq(Cells)
         /\ Len(Truncated(currentRecipients)) <= MaxTargets
<1>1. line' \in Seq(Cells) /\ line' # <<>>
  <2>1. PICK n \in LineLengths : line' = [i \in 1..n |-> i % MaxCell]
    BY DEF TypeLine
  <2>2. n \in Nat \ {0} /\ MaxCell \in Nat \ {0}
    BY ChatAssumption, FrameAssumption
  <2>3. \A i \in 1..n : i % MaxCell \in Cells
    BY <2>2 DEF Cells
  <2>4. 1 \in DOMAIN line'
    BY <2>1, <2>2
  <2> QED
    BY <2>1, <2>2, <2>3, <2>4
<1>2. /\ Truncated(currentRecipients) \in Seq(Cells)
      /\ Len(Truncated(currentRecipients)) <= MaxTargets
  BY RecipientsAreCells, TruncatedFits
<1>3. /\ typed' = Append(typed, [ids |-> Truncated(currentRecipients), text |-> line'])
      /\ Len(typed) < MaxLines /\ typed \in Seq([ids : Seq(Cells), text : Seq(Cells)])
      /\ MaxLines \in Nat
  BY ChatAssumption DEF TypeLine, TurnInv, DataOK
<1>4. [ids |-> Truncated(currentRecipients), text |-> line']
        \in [ids : Seq(Cells), text : Seq(Cells)]
  BY <1>1, <1>2
<1>5. typed' \in Seq([ids : Seq(Cells), text : Seq(Cells)]) /\ Len(typed') = Len(typed) + 1
  <2> HIDE DEF Truncated
  <2> QED
    BY <1>3, <1>4, AppendProperties
<1> QED
  BY <1>1, <1>2, <1>3, <1>5

\* What the client writes is a frame of a chunk.
LEMMA SendChunkData ==
  ASSUME TurnInv, SendChunk
  PROVE  LET ids == Truncated(currentRecipients) IN
         /\ ids \in Seq(Cells) /\ Len(ids) <= MaxTargets
         /\ Chunk(line, off) \in Seq(Cells) /\ Len(Chunk(line, off)) \in 1..ChunkSize
         /\ ChatFrame(ids, Chunk(line, off)) \in Seq(Cells)
         /\ sock' = Append(sock, ChatFrame(ids, Chunk(line, off)))
         /\ off' \in Nat
<1>1. /\ currentRecipients \in Seq(Cells) /\ line \in Seq(Cells) /\ off \in Nat
      /\ off < Len(line) /\ off' = off + ChunkSize /\ ChunkSize \in Nat
  BY RecipientsAreCells, ChatAssumption DEF SendChunk, TurnInv, DataOK, ControlOK
<1>2. Chunk(line, off) \in Seq(Cells) /\ Len(Chunk(line, off)) \in 1..ChunkSize
  BY <1>1, ChunkThenRest
<1>3. /\ Truncated(currentRecipients) \in Seq(Cells)
      /\ Len(Truncated(currentRecipients)) <= MaxTargets
  BY <1>1, TruncatedFits
<1>4. ChatFrame(Truncated(currentRecipients), Chunk(line, off)) \in Seq(Cells)
  BY <1>1, <1>2, <1>3, ChatFrameLayout
<1> QED
  BY <1>1, <1>2, <1>3, <1>4 DEF SendChunk

\* What the connection delivers of a frame is its beginning: cells, and all of it
\* when the message ends.
LEMMA DeliveredPart ==
  ASSUME TurnInv, NextMessage
  PROVE  /\ wire' \in Seq(Cells) /\ Head(sock) \in Seq(Cells)
         /\ ending' \in {"eof", "fail"}
         /\ ending' = "eof" => wire' = Head(sock)
         /\ \E n \in 0..Len(Head(sock)) : wire' = SubSeq(Head(sock), 1, n)
<1>1. Head(sock) \in Seq(Cells)
  BY DEF NextMessage, TurnInv, DataOK
<1>2. CASE wire' = Head(sock) /\ ending' = "eof"
  <2>1. SubSeq(Head(sock), 1, Len(Head(sock))) = Head(sock) /\ Len(Head(sock)) \in Nat
    BY <1>1, SubSeqFull
  <2> QED
    BY <1>1, <1>2, <2>1
<1>3. CASE /\ \E n \in 0..Len(Head(sock)) : wire' = SubSeq(Head(sock), 1, n)
           /\ ending' = "fail"
  <2>1. PICK n \in 0..Len(Head(sock)) : wire' = SubSeq(Head(sock), 1, n)
    BY <1>3
  <2>2. SubSeq(Head(sock), 1, n) \in Seq(Cells)
    BY <1>1, SubSeqProperties
  <2> QED
    BY <1>1, <1>3, <2>1, <2>2
<1> QED
  BY <1>2, <1>3 DEF NextMessage

\* The invariant is preserved by the client, and by the start of the next turn.
LEMMA TurnInvNext == TurnInv /\ [ChatNext]_allVars => TurnInv'
<1> SUFFICES ASSUME TurnInv, [ChatNext]_allVars PROVE TurnInv'
  OBVIOUS
<1>1. ASSUME UNCHANGED vars, DataOK', at' \in {"prompt", "send", "exit"}, off' \in Nat
      PROVE  TurnInv'
  <2>1. /\ UNCHANGED <<input, pos, pc, buf, refs, result, hungUp>> /\ wire' = wire
        /\ kind' = kind /\ ending' = ending
    BY <1>1 DEF vars, input
  <2>2. /\ Count' = Count /\ DataLen' = DataLen
        /\ HeaderOK' = HeaderOK /\ MessageOK' = MessageOK
    BY <2>1, SameMessage
  <2>3. ControlOK'
    BY <1>1, <2>1 DEF TurnInv, ControlOK
  <2>4. ProgressOK'
    BY <2>1, <2>2 DEF TurnInv, ProgressOK, Received
  <2> QED
    BY <1>1, <2>1, <2>3, <2>4 DEF TurnInv, RefOK
<1>2. CASE Command
  BY <1>1, <1>2 DEF Command, TurnInv, DataOK, ControlOK, vars, input
<1>3. CASE TypeLine
  <2>1. UNCHANGED vars /\ at' = "send" /\ off' = 0
    BY <1>3 DEF TypeLine
  <2>2. DataOK'
    BY <1>3, TypeLineData DEF TypeLine, TurnInv, DataOK, vars, input
  <2> QED
    BY <1>1, <2>1, <2>2
<1>4. CASE SendChunk
  <2>1. UNCHANGED vars /\ at' = at /\ off' \in Nat
    BY <1>4, SendChunkData DEF SendChunk
  <2>2. sock' \in Seq(Seq(Cells))
    <3>1. /\ ChatFrame(Truncated(currentRecipients), Chunk(line, off)) \in Seq(Cells)
          /\ sock' = Append(sock, ChatFrame(Truncated(currentRecipients), Chunk(line, off)))
      BY <1>4, SendChunkData
    <3> QED
      BY <3>1 DEF TurnInv, DataOK
  <2>3. DataOK'
    BY <1>4, <2>2 DEF SendChunk, TurnInv, DataOK, vars, input
  <2> QED
    BY <1>1, <2>1, <2>3 DEF TurnInv, ControlOK
<1>5. CASE LineSent \/ Lost \/ Leave
  BY <1>1, <1>5 DEF LineSent, Lost, Leave, TurnInv, DataOK, ControlOK, vars, input
<1>6. CASE NextMessage
  <2>1. /\ sock' = Tail(sock) /\ sock \in Seq(Seq(Cells)) /\ sock # <<>>
        /\ pos' = 0 /\ pc' = "type" /\ buf' = <<>> /\ refs' = 0 /\ result' = "none"
        /\ UNCHANGED <<hungUp, inputVars, heard>>
    BY <1>6 DEF NextMessage, TurnInv, DataOK
  <2>2. wire' \in Seq(Cells) /\ sock' \in Seq(Seq(Cells)) /\ Len(wire') \in Nat
        /\ <<>> \in Seq(Cells)
    <3>1. wire' \in Seq(Cells)
      BY <1>6, DeliveredPart
    <3>2. sock' \in Seq(Seq(Cells)) /\ <<>> \in Seq(Cells)
      BY <2>1
    <3> QED
      BY <3>1, <3>2
  <2>3. DataOK'
    BY <2>1, <2>2 DEF TurnInv, DataOK, inputVars
  <2>4. ControlOK'
    BY <2>1, <2>2 DEF TurnInv, ControlOK, inputVars, PCs, Results
  <2> QED
    BY <2>1, <2>3, <2>4 DEF TurnInv, ProgressOK, Reading, Done, RefOK
<1>7. CASE ReaderFails
  <2>1. /\ pc = "next" /\ pc' = "returned"
        /\ UNCHANGED <<input, wire, pos, buf, refs, result, hungUp, at, off>>
    BY <1>7 DEF ReaderFails, chatVars, inputVars, input
  <2>2. DataOK'
    BY <1>7, <2>1 DEF ReaderFails, TurnInv, DataOK, chatVars, inputVars
  <2>3. /\ Count' = Count /\ DataLen' = DataLen
        /\ HeaderOK' = HeaderOK /\ MessageOK' = MessageOK
    BY <2>1, SameMessage
  <2>4. ControlOK' /\ RefOK'
    BY <2>1 DEF TurnInv, ControlOK, RefOK, PCs
  <2>5. ProgressOK'
    BY <2>1, <2>3 DEF TurnInv, ProgressOK, Received, Reading, Done
  <2> QED
    BY <2>2, <2>4, <2>5 DEF TurnInv
<1>8. CASE TurnStep
  BY <1>8, TurnInvTurn
<1>9. CASE UNCHANGED allVars
  BY <1>1, <1>9 DEF allVars, chatVars, inputVars, TurnInv, DataOK, ControlOK, vars, input
<1> QED
  BY <1>2, <1>3, <1>4, <1>5, <1>6, <1>7, <1>8, <1>9 DEF ChatNext, ClientStep

\* The invariant holds of every state.
LEMMA TurnInvHolds == ChatSpec => []TurnInv
BY TurnInvInit, TurnInvNext, PTL DEF ChatSpec

-----------------------------------------------------------------------------
(* What the read loop promises. *)

\* readMessageWithFixedFromID and the switch of the read loop: after each of the
\* returns that follow the allocation one reference is left with "ok" and none with
\* an error, and none at all after the turn, whatever the message holds.
THEOREM TurnsLeaveNothing == ChatSpec => []TurnLeavesNothing
<1>1. TurnInv => TurnLeavesNothing
  BY DEF TurnInv, RefOK, TurnLeavesNothing
<1> QED
  BY <1>1, TurnInvHolds, PTL

\* The types, and the buffer's size: it holds the header, and no more than the
\* limit on the data.
THEOREM ChatIsTyped == ChatSpec => []ChatTypeOK
<1>1. TurnInv => ChatTypeOK
  <2> SUFFICES ASSUME TurnInv PROVE ChatTypeOK
    OBVIOUS
  <2>1. buf = <<>> \/ Len(buf) \in (3 + Count)..(3 + Count + MaxDataLen)
    <3>1. CASE HeaderOK /\ Len(buf) \in (Count + 3)..(Count + 3 + DataLen)
      <4>1. Count \in 1..MaxTargets /\ DataLen \in 0..MaxDataLen
        BY <3>1 DEF HeaderOK
      <4> HIDE DEF Count, DataLen
      <4> QED
        BY <3>1, <4>1, FrameAssumption
    <3> QED
      BY <3>1 DEF TurnInv, ProgressOK
  <2>2. TypeOK
    BY <2>1 DEF TurnInv, ControlOK, TypeOK
  <2> QED
    BY <2>2 DEF TurnInv, DataOK, ControlOK, ChatTypeOK
<1> QED
  BY <1>1, TurnInvHolds, PTL

\* The check of the recipients pairwise.
LEMMA NoDuplicates ==
  ASSUME NEW ids \in Seq(Cells)
  PROVE  ~hasDuplicateTarget(ids, Len(ids)) <=> IsInjective(ids)
<1>1. Len(ids) \in Nat /\ DOMAIN ids = 1..Len(ids)
  OBVIOUS
<1>2. ASSUME ~hasDuplicateTarget(ids, Len(ids)), NEW a \in DOMAIN ids, NEW b \in DOMAIN ids,
             ids[a] = ids[b], a # b
      PROVE  FALSE
  <2>1. CASE a < b
    <3>1. a \in 1..(Len(ids) - 1) /\ b \in (a + 1)..Len(ids)
      BY <1>1, <2>1
    <3> QED
      BY <1>2, <3>1 DEF hasDuplicateTarget
  <2>2. CASE b < a
    <3>1. b \in 1..(Len(ids) - 1) /\ a \in (b + 1)..Len(ids)
      BY <1>1, <2>2
    <3> QED
      BY <1>2, <3>1 DEF hasDuplicateTarget
  <2> QED
    BY <1>1, <1>2, <2>1, <2>2
<1>3. ASSUME hasDuplicateTarget(ids, Len(ids)), IsInjective(ids) PROVE FALSE
  <2>1. PICK i \in 1..(Len(ids) - 1) : \E j \in (i + 1)..Len(ids) : ids[i] = ids[j]
    BY <1>3 DEF hasDuplicateTarget
  <2>2. PICK j \in (i + 1)..Len(ids) : ids[i] = ids[j]
    BY <2>1
  <2>3. i \in DOMAIN ids /\ j \in DOMAIN ids /\ i # j
    BY <1>1
  <2> QED
    BY <1>3, <2>2, <2>3 DEF IsInjective
<1> QED
  BY <1>2, <1>3 DEF IsInjective

\* The checks together say that a frame is well formed.
LEMMA CheckedIsWellFormed ==
  ASSUME TurnInv
  PROVE  MessageOK <=> WellFormed
<1>1. /\ Len(wire) \in Nat /\ wire \in Seq(Cells) /\ \A i \in 1..Len(wire) : wire[i] \in Cells
      /\ MaxTargets \in Nat /\ MaxDataLen \in Nat
  BY FrameAssumption DEF TurnInv, DataOK
<1>2. ASSUME NEW n \in 1..MaxTargets, n + 2 <= Len(wire)
      PROVE  ~hasDuplicateTarget(SubSeq(wire, 2, n + 1), n)
               <=> IsInjective(SubSeq(wire, 2, n + 1))
  <2>1. n \in Nat /\ n + 1 \in Int /\ \A i \in 2..(n + 1) : wire[i] \in Cells
    BY <1>1, <1>2
  <2>2. SubSeq(wire, 2, n + 1) \in Seq(Cells) /\ Len(SubSeq(wire, 2, n + 1)) = n
    BY <2>1, SubSeqProperties
  <2> QED
    BY <2>2, NoDuplicates
<1>3. ASSUME MessageOK PROVE WellFormed
  <2>1. /\ Count \in 1..MaxTargets /\ Count + 2 <= Len(wire) /\ DataLen \in 0..MaxDataLen
        /\ Len(wire) = Count + 2 + DataLen
        /\ ~hasDuplicateTarget(SubSeq(wire, 2, Count + 1), Count)
        /\ kind = "binary" /\ ending = "eof"
    BY <1>3 DEF MessageOK, HeaderOK
  <2>2. Len(wire) = 1 + Count + 1 + DataLen /\ Count + 2 = 2 + Count
    BY <1>1, <2>1
  <2>3. wire[1] = Count /\ wire[Count + 2] = DataLen
    BY <2>2 DEF Count, DataLen
  <2>4. IsInjective(SubSeq(wire, 2, Count + 1))
    BY <1>2, <2>1
  <2> HIDE DEF Count, DataLen
  <2> QED
    BY <2>1, <2>2, <2>3, <2>4 DEF WellFormed
<1>4. ASSUME WellFormed PROVE MessageOK
  <2>1. PICK n \in 1..MaxTargets, d \in 0..MaxDataLen :
               /\ Len(wire) = 1 + n + 1 + d
               /\ wire[1] = n /\ wire[n + 2] = d
               /\ IsInjective(SubSeq(wire, 2, n + 1))
    BY <1>4 DEF WellFormed
  <2>2. n + 2 = 2 + n /\ n + 2 <= Len(wire) /\ Len(wire) = n + 2 + d /\ wire # <<>>
    BY <1>1, <2>1
  <2>3. Count = n /\ DataLen = d
    BY <2>1, <2>2 DEF Count, DataLen
  <2>4. ~hasDuplicateTarget(SubSeq(wire, 2, n + 1), n)
    BY <1>2, <2>1, <2>2
  <2> HIDE DEF Count, DataLen
  <2> QED
    BY <1>4, <2>2, <2>3, <2>4 DEF MessageOK, HeaderOK, WellFormed
<1> QED
  BY <1>3, <1>4

\* readMessageWithFixedFromID accepts the frames that Comunication.md describes, and
\* no other: whatever a count or a length promises, and however the message ends.
THEOREM WellFormedIsAccepted == ChatSpec => []AcceptsExactlyWellFormed
<1>1. TurnInv => AcceptsExactlyWellFormed
  BY CheckedIsWellFormed DEF TurnInv, ProgressOK, Done, AcceptsExactlyWellFormed
<1> QED
  BY <1>1, TurnInvHolds, PTL

-----------------------------------------------------------------------------
(* The accepted message. *)

\* The buffer of an accepted message, cell by cell.
LEMMA AcceptedBuffer ==
  ASSUME TurnInv, result = "ok"
  PROVE  /\ MessageOK /\ buf \in Seq(Cells) /\ Len(buf) = Count + DataLen + 3
         /\ Count \in 1..MaxTargets /\ Count \in Nat \ {0} /\ DataLen \in Nat
         /\ Len(wire) = Count + 2 + DataLen /\ wire \in Seq(Cells)
         /\ buf[1] = Self /\ buf[2] = Count /\ buf[Count + 3] = DataLen
         /\ \A i \in 1..Len(wire) : buf[i + 1] = wire[i]
         /\ SubSeq(buf, Count + 4, Count + DataLen + 3) = SubSeq(wire, Count + 3, Len(wire))
<1>1. MessageOK /\ buf = Received(Len(wire)) /\ wire \in Seq(Cells)
  <2>1. pc \in Done
    BY DEF TurnInv, ProgressOK, ControlOK, PCs, Reading, Done
  <2> QED
    BY <2>1 DEF TurnInv, ProgressOK, DataOK
<1>2. /\ Count \in 1..MaxTargets /\ Count \in Nat \ {0} /\ DataLen \in Nat
      /\ Len(wire) = Count + 2 + DataLen
  BY <1>1, FrameAssumption DEF MessageOK, HeaderOK
<1>3. /\ SubSeq(wire, 1, Len(wire)) = wire /\ <<Self>> \in Seq(Cells)
      /\ Len(<<Self>>) = 1 /\ <<Self>>[1] = Self
  BY <1>1, SubSeqFull, FrameAssumption
<1>4. buf = <<Self>> \o wire
  BY <1>1, <1>3 DEF Received
<1>5. /\ buf \in Seq(Cells) /\ Len(buf) = 1 + Len(wire) /\ buf[1] = Self
      /\ \A i \in 1..Len(wire) : buf[1 + i] = wire[i]
  BY <1>1, <1>3, <1>4
<1>6. buf[2] = Count /\ buf[Count + 3] = DataLen
  <2>1. /\ 1 \in 1..Len(wire) /\ 2 + Count \in 1..Len(wire)
        /\ 1 + 1 = 2 /\ 1 + (2 + Count) = Count + 3
    BY <1>2
  <2>2. buf[1 + 1] = wire[1] /\ buf[1 + (2 + Count)] = wire[2 + Count]
    BY <1>5, <2>1
  <2> QED
    BY <2>1, <2>2 DEF Count, DataLen
<1>7. ASSUME NEW i \in 1..Len(wire) PROVE buf[i + 1] = wire[i]
  <2>1. 1 + i = i + 1
    BY <1>2
  <2> QED
    BY <1>5, <2>1
<1>8. SubSeq(buf, Count + 4, Count + DataLen + 3) = SubSeq(wire, Count + 3, Len(wire))
  <2> DEFINE m == Count + 3
             n == Len(wire)
  <2>1. /\ m \in Int /\ n \in Int /\ n - m + 1 = DataLen
        /\ \A i \in m..n : wire[i] \in Cells
    BY <1>1, <1>2
  <2>2. /\ SubSeq(wire, m, n) \in Seq(Cells) /\ Len(SubSeq(wire, m, n)) = DataLen
        /\ \A i \in 1..(n - m + 1) : SubSeq(wire, m, n)[i] = wire[m + i - 1]
    BY <1>2, <2>1, SubSeqProperties
  <2>3. /\ m + 1 \in Int /\ n + 1 \in Int /\ (n + 1) - (m + 1) + 1 = DataLen
        /\ \A i \in (m + 1)..(n + 1) : buf[i] \in Cells
    BY <1>2, <1>5
  <2>4. /\ SubSeq(buf, m + 1, n + 1) \in Seq(Cells) /\ Len(SubSeq(buf, m + 1, n + 1)) = DataLen
        /\ \A i \in 1..((n + 1) - (m + 1) + 1) :
             SubSeq(buf, m + 1, n + 1)[i] = buf[(m + 1) + i - 1]
    BY <1>2, <2>3, SubSeqProperties
  <2>5. ASSUME NEW i \in 1..DataLen
        PROVE  SubSeq(buf, m + 1, n + 1)[i] = SubSeq(wire, m, n)[i]
    <3>1. m + i - 1 \in 1..Len(wire) /\ (m + i - 1) + 1 = (m + 1) + i - 1
      BY <1>2
    <3> QED
      BY <1>7, <2>1, <2>2, <2>3, <2>4, <3>1
  <2>6. SubSeq(buf, m + 1, n + 1) = SubSeq(wire, m, n)
    BY <2>2, <2>4, <2>5, SeqEqual
  <2>7. m + 1 = Count + 4 /\ n + 1 = Count + DataLen + 3
    BY <1>2
  <2> QED
    BY <2>6, <2>7
<1> QED
  BY <1>1, <1>2, <1>5, <1>6, <1>7, <1>8

\* The accessors of core.Message, on a message with the layout they expect.
LEMMA AccessorsFollowLayout ==
  ASSUME NEW m, NEW n \in Nat \ {0}, NEW d \in Nat,
         Len(m) = n + d + 3, m[2] = n, m[n + 3] = d
  PROVE  /\ FromID(m) = m[1] /\ ToIDsLen(m) = n
         /\ \A i \in 1..n : ToIDAt(m, i - 1) = m[i + 2]
         /\ Payload(m) = SubSeq(m, n + 4, n + d + 3)
<1>1. FromID(m) = m[1] /\ ToIDsLen(m) = n
  BY DEF FromID, ToIDsLen
<1>2. ASSUME NEW i \in 1..n PROVE ToIDAt(m, i - 1) = m[i + 2]
  <2>1. i - 1 \in 0..(n - 1) /\ Len(m) >= 2 + (i - 1) + 1 /\ 2 + (i - 1) + 1 = i + 2
    OBVIOUS
  <2> QED
    BY <1>1, <2>1 DEF ToIDAt
<1>3. Payload(m) = SubSeq(m, n + 4, n + d + 3)
  <2>1. /\ 2 + n + 1 = n + 3 /\ ~(Len(m) < n + 3) /\ ~(Len(m) < (n + 3) + d)
        /\ (n + 3) + 1 = n + 4 /\ (n + 3) + d = n + d + 3
    OBVIOUS
  <2> QED
    BY <1>1, <2>1 DEF Payload
<1> QED
  BY <1>1, <1>2, <1>3

\* What the accessors return of an accepted message.
LEMMA AcceptedMessage ==
  ASSUME TurnInv, result = "ok"
  PROVE  /\ FromID(buf) = Self /\ ToIDsLen(buf) = Count
         /\ \A i \in 1..Count : ToIDAt(buf, i - 1) = wire[1 + i]
         /\ Payload(buf) = SubSeq(wire, Count + 3, Len(wire))
<1>1. /\ Len(buf) = Count + DataLen + 3 /\ Count \in Nat \ {0} /\ DataLen \in Nat
      /\ buf[1] = Self /\ buf[2] = Count /\ buf[Count + 3] = DataLen
      /\ Len(wire) = Count + 2 + DataLen
      /\ \A i \in 1..Len(wire) : buf[i + 1] = wire[i]
      /\ SubSeq(buf, Count + 4, Count + DataLen + 3) = SubSeq(wire, Count + 3, Len(wire))
  BY AcceptedBuffer
<1> HIDE DEF Count, DataLen
<1>2. /\ FromID(buf) = buf[1] /\ ToIDsLen(buf) = Count
      /\ \A i \in 1..Count : ToIDAt(buf, i - 1) = buf[i + 2]
      /\ Payload(buf) = SubSeq(buf, Count + 4, Count + DataLen + 3)
  BY <1>1, AccessorsFollowLayout
<1>3. ASSUME NEW i \in 1..Count PROVE ToIDAt(buf, i - 1) = wire[1 + i]
  <2>1. 1 + i \in 1..Len(wire) /\ (1 + i) + 1 = i + 2
    BY <1>1
  <2> QED
    BY <1>1, <1>2, <2>1
<1> QED
  BY <1>1, <1>2, <1>3

\* readMessageWithFixedFromID and the accessors of core.Message together:
\* HandleMessage finds the authenticated sender, and the recipients and the payload
\* as they were sent.
THEOREM AcceptedAsSent == ChatSpec => []MessageAsSent
<1>1. TurnInv => MessageAsSent
  BY AcceptedMessage DEF MessageAsSent, Count
<1> QED
  BY <1>1, TurnInvHolds, PTL

\* ZeroToIDs on an accepted message: the recipients are gone, and the sender, the
\* count and the payload are found where they were.
THEOREM StrippedKeepsTheRest == ChatSpec => []StrippingKeepsTheRest
<1>1. ASSUME TurnInv, result = "ok"
      PROVE  LET z == ZeroToIDs(buf) IN
             /\ \A i \in 0..(wire[1] - 1) : ToIDAt(z, i) = Zero
             /\ FromID(z) = Self /\ ToIDsLen(z) = wire[1] /\ Payload(z) = Payload(buf)
  <2> DEFINE z == ZeroToIDs(buf)
  <2>1. /\ Len(buf) = Count + DataLen + 3 /\ Count \in Nat \ {0} /\ DataLen \in Nat
        /\ buf[1] = Self /\ buf[2] = Count /\ buf[Count + 3] = DataLen
        /\ buf \in Seq(Cells)
    BY <1>1, AcceptedBuffer
  <2>2. ToIDsLen(buf) = Count /\ Payload(buf) = SubSeq(buf, Count + 4, Count + DataLen + 3)
    <3> HIDE DEF Count, DataLen
    <3> QED
      BY <2>1, AccessorsFollowLayout
  <2> HIDE DEF Count, DataLen
  <2>3. z = [i \in 1..Len(buf) |-> IF i \in 3..(2 + Count) THEN Zero ELSE buf[i]]
    <3>1. ~(Len(buf) < 2 + Count) /\ DOMAIN buf = 1..Len(buf)
      BY <2>1
    <3> QED
      BY <2>2, <3>1 DEF ZeroToIDs
  <2>4. \A i \in 1..Len(buf) : z[i] = IF i \in 3..(2 + Count) THEN Zero ELSE buf[i]
    BY <2>3
  <2>5. z \in Seq(Cells) /\ Len(z) = Count + DataLen + 3
    <3>1. \A i \in 1..Len(buf) : buf[i] \in Cells /\ Zero \in Cells /\ Len(buf) \in Nat
      BY <2>1, FrameAssumption DEF Cells, Zero
    <3>2. z \in [1..Len(buf) -> Cells] /\ Len(buf) \in Nat
      BY <2>1, <2>3, <3>1
    <3> HIDE DEF z
    <3> QED
      BY <2>1, <3>2
  <2> HIDE DEF z
  <2>6. z[1] = Self /\ z[2] = Count /\ z[Count + 3] = DataLen
    <3>1. /\ 1 \in 1..Len(buf) /\ 2 \in 1..Len(buf) /\ Count + 3 \in 1..Len(buf)
          /\ 1 \notin 3..(2 + Count) /\ 2 \notin 3..(2 + Count)
          /\ Count + 3 \notin 3..(2 + Count)
      BY <2>1
    <3> QED
      BY <2>1, <2>4, <3>1
  <2>7. /\ FromID(z) = z[1] /\ ToIDsLen(z) = Count
        /\ \A i \in 1..Count : ToIDAt(z, i - 1) = z[i + 2]
        /\ Payload(z) = SubSeq(z, Count + 4, Count + DataLen + 3)
    BY <2>1, <2>5, <2>6, AccessorsFollowLayout
  <2>8. ASSUME NEW i \in 0..(Count - 1) PROVE ToIDAt(z, i) = Zero
    <3>1. i + 1 \in 1..Count /\ (i + 1) - 1 = i /\ (i + 1) + 2 \in 3..(2 + Count)
          /\ (i + 1) + 2 \in 1..Len(buf)
      BY <2>1
    <3> QED
      BY <2>4, <2>7, <3>1
  <2>9. SubSeq(z, Count + 4, Count + DataLen + 3) = SubSeq(buf, Count + 4, Count + DataLen + 3)
    <3> DEFINE m == Count + 4
               n == Count + DataLen + 3
    <3>1. /\ m \in Int /\ n \in Int /\ n - m + 1 = DataLen
          /\ \A i \in m..n : z[i] \in Cells /\ buf[i] \in Cells /\ z[i] = buf[i]
      BY <2>1, <2>4, <2>5
    <3> HIDE DEF m, n
    <3>2. /\ SubSeq(z, m, n) \in Seq(Cells) /\ Len(SubSeq(z, m, n)) = DataLen
          /\ \A i \in 1..(n - m + 1) : SubSeq(z, m, n)[i] = z[m + i - 1]
      BY <2>1, <3>1, SubSeqProperties
    <3>3. /\ SubSeq(buf, m, n) \in Seq(Cells) /\ Len(SubSeq(buf, m, n)) = DataLen
          /\ \A i \in 1..(n - m + 1) : SubSeq(buf, m, n)[i] = buf[m + i - 1]
      BY <2>1, <3>1, SubSeqProperties
    <3>4. ASSUME NEW i \in 1..DataLen PROVE SubSeq(z, m, n)[i] = SubSeq(buf, m, n)[i]
      <4>1. m + i - 1 \in m..n
        BY <2>1, <3>1
      <4> QED
        BY <3>1, <3>2, <3>3, <4>1
    <3>5. SubSeq(z, m, n) = SubSeq(buf, m, n)
      BY <3>2, <3>3, <3>4, SeqEqual
    <3> QED
      BY <3>5 DEF m, n
  <2> QED
    BY <2>2, <2>6, <2>7, <2>8, <2>9 DEF z, Count
<1>2. TurnInv => StrippingKeepsTheRest
  BY <1>1 DEF StrippingKeepsTheRest
<1> QED
  BY <1>2, TurnInvHolds, PTL

-----------------------------------------------------------------------------
(* The targets. *)

\* What the loop of ExtractTargets has collected after each of the recipients.
IsExtraction(f, ids, self) ==
  /\ f \in [0..Len(ids) -> Seq(Cells)] /\ f[0] = <<>>
  /\ \A i \in 1..Len(ids) : f[i] = IF ids[i] = self THEN f[i - 1]
                                   ELSE Append(f[i - 1], ids[i])

\* The loop collects something.
LEMMA ExtractionExists ==
  ASSUME NEW ids \in Seq(Cells), NEW self
  PROVE  \E f : IsExtraction(f, ids, self)
<1> DEFINE V == Seq(Cells)
           n == Len(ids)
           step == [p \in (1..n) \X V |-> IF ids[p[1]] = self THEN p[2]
                                          ELSE Append(p[2], ids[p[1]])]
<1>1. n \in Nat /\ <<>> \in V /\ \A i \in 1..n : ids[i] \in Cells
  OBVIOUS
<1>2. step \in [(1..n) \X V -> V]
  <2>1. ASSUME NEW p \in (1..n) \X V
        PROVE  (IF ids[p[1]] = self THEN p[2] ELSE Append(p[2], ids[p[1]])) \in V
    <3>1. p[1] \in 1..n /\ p[2] \in V /\ ids[p[1]] \in Cells
      BY <1>1
    <3> QED
      BY <3>1
  <2> HIDE DEF n, V
  <2> QED
    BY <2>1
<1>3. PICK f : IsLoop(f, V, <<>>, n, step)
  <2> HIDE DEF V, n, step
  <2> QED
    BY <1>1, <1>2, LoopExists
<1>4. f \in [0..n -> V] /\ f[0] = <<>> /\ \A i \in 1..n : f[i] = step[<<i, f[i - 1]>>]
  BY <1>3 DEF IsLoop
<1>5. ASSUME NEW i \in 1..n
      PROVE  f[i] = IF ids[i] = self THEN f[i - 1] ELSE Append(f[i - 1], ids[i])
  <2>1. <<i, f[i - 1]>> \in (1..n) \X V
    <3>1. i - 1 \in 0..n
      BY <1>1
    <3> HIDE DEF V, n, step
    <3> QED
      BY <1>4, <3>1
  <2>2. step[<<i, f[i - 1]>>] = IF ids[i] = self THEN f[i - 1] ELSE Append(f[i - 1], ids[i])
    <3> HIDE DEF V, n
    <3> QED
      BY <2>1
  <2> QED
    BY <1>4, <2>2
<1>6. IsExtraction(f, ids, self)
  BY <1>4, <1>5 DEF IsExtraction
<1> QED
  BY <1>6

\* What it has collected in the end is what ExtractTargets returns.
LEMMA ExtractTargetsLoop ==
  ASSUME NEW m, NEW self, NEW ids \in Seq(Cells), NEW f, IsExtraction(f, ids, self),
         Len(ids) = ToIDsLen(m), Len(ids) <= MaxTargets,
         \A i \in 1..Len(ids) : ToIDAt(m, i - 1) = ids[i]
  PROVE  ExtractTargets(m, self) = f[Len(ids)]
<1> DEFINE n == Len(ids)
           F(e) == [i \in 0..n |-> IF i = 0 THEN <<>>
                                   ELSE IF ToIDAt(m, i - 1) = self THEN e[i - 1]
                                   ELSE Append(e[i - 1], ToIDAt(m, i - 1))]
<1>1. /\ n \in Nat /\ f \in [0..n -> Seq(Cells)] /\ f[0] = <<>>
      /\ \A i \in 1..n : f[i] = IF ids[i] = self THEN f[i - 1] ELSE Append(f[i - 1], ids[i])
  BY DEF IsExtraction
<1>2. (IF ToIDsLen(m) > MaxTargets THEN MaxTargets ELSE ToIDsLen(m)) = n
  BY <1>1, FrameAssumption
<1>3. ASSUME NEW h, h = F(h) PROVE h = f
  <2>1. /\ h = [i \in 0..n |-> h[i]] /\ h[0] = <<>>
        /\ \A i \in 1..n : h[i] = IF ToIDAt(m, i - 1) = self THEN h[i - 1]
                                  ELSE Append(h[i - 1], ToIDAt(m, i - 1))
    <3>1. h = [i \in 0..n |-> h[i]]
      BY <1>3
    <3>2. \A i \in 0..n : h[i] = IF i = 0 THEN <<>>
                                 ELSE IF ToIDAt(m, i - 1) = self THEN h[i - 1]
                                 ELSE Append(h[i - 1], ToIDAt(m, i - 1))
      BY <1>3
    <3>3. 0 \in 0..n /\ \A i \in 1..n : i \in 0..n /\ i # 0
      BY <1>1
    <3> HIDE DEF n, F
    <3> QED
      BY <3>1, <3>2, <3>3
  <2>2. f = [i \in 0..n |-> f[i]]
    BY <1>1
  <2> HIDE DEF F, n
  <2>3. ASSUME NEW i \in 1..n, f[i - 1] = h[i - 1] PROVE f[i] = h[i]
    <3>1. ToIDAt(m, i - 1) = ids[i]
      BY DEF n
    <3> QED
      BY <1>1, <2>1, <2>3, <3>1
  <2>4. n \in Nat /\ StayEqual(f, h, n)
    BY <1>1, <2>1, <2>3 DEF StayEqual
  <2>5. \A i \in 0..n : f[i] = h[i]
    BY <2>4, SameLoops
  <2> QED
    BY <2>1, <2>2, <2>5
<1>4. f = F(f)
  <2>1. f = [i \in 0..n |-> f[i]]
    BY <1>1
  <2>2. ASSUME NEW i \in 0..n
        PROVE  f[i] = IF i = 0 THEN <<>> ELSE IF ToIDAt(m, i - 1) = self THEN f[i - 1]
                      ELSE Append(f[i - 1], ToIDAt(m, i - 1))
    <3>1. CASE i = 0
      BY <1>1, <3>1
    <3>2. CASE i # 0
      <4>1. i \in 1..n
        BY <1>1, <3>2
      <4>2. ToIDAt(m, i - 1) = ids[i]
        BY <4>1
      <4> HIDE DEF n
      <4> QED
        BY <1>1, <3>2, <4>1, <4>2
    <3> QED
      BY <3>1, <3>2
  <2>3. [i \in 0..n |-> f[i]] = F(f)
    BY <2>2
  <2> QED
    BY <2>1, <2>3
<1>5. (CHOOSE h : h = F(h)) = f
  <2> HIDE DEF F
  <2> QED
    BY <1>3, <1>4, Zenon
<1>6. ExtractTargets(m, self) = (CHOOSE h : h = F(h))[n]
  BY <1>2 DEF ExtractTargets
<1> QED
  BY <1>5, <1>6

\* What ts is after the first k of the recipients ids: all of these but the sender,
\* and nothing else, in their order.
FirstTargets(ts, ids, k, self) ==
  /\ ts \in Seq(Cells)
  /\ \A i \in 1..Len(ts) : ts[i] # self /\ \E a \in 1..k : ts[i] = ids[a]
  /\ \A a \in 1..k : ids[a] # self => \E i \in 1..Len(ts) : ts[i] = ids[a]
  /\ \A i, j \in 1..Len(ts), a, b \in 1..Len(ids) :
       i < j /\ ts[i] = ids[a] /\ ts[j] = ids[b] => a < b

\* One more recipient.
LEMMA OneMoreTarget ==
  ASSUME NEW ids \in Seq(Cells), IsInjective(ids), NEW self, NEW k \in Nat,
         k + 1 <= Len(ids), NEW ts, FirstTargets(ts, ids, k, self)
  PROVE  FirstTargets(IF ids[k + 1] = self THEN ts ELSE Append(ts, ids[k + 1]),
                      ids, k + 1, self)
<1>1. /\ ts \in Seq(Cells) /\ Len(ts) \in Nat /\ k + 1 \in 1..Len(ids) /\ DOMAIN ids = 1..Len(ids)
      /\ \A i \in 1..Len(ts) : ts[i] # self /\ \E a \in 1..k : ts[i] = ids[a]
      /\ \A a \in 1..k : ids[a] # self => \E i \in 1..Len(ts) : ts[i] = ids[a]
      /\ \A i, j \in 1..Len(ts), a, b \in 1..Len(ids) :
           i < j /\ ts[i] = ids[a] /\ ts[j] = ids[b] => a < b
  BY DEF FirstTargets
<1>2. CASE ids[k + 1] = self
  <2>1. \A i \in 1..Len(ts) : ts[i] # self /\ \E a \in 1..(k + 1) : ts[i] = ids[a]
    BY <1>1
  <2>2. ASSUME NEW a \in 1..(k + 1), ids[a] # self
        PROVE  \E i \in 1..Len(ts) : ts[i] = ids[a]
    <3>1. a \in 1..k
      BY <1>2, <2>2
    <3> QED
      BY <1>1, <2>2, <3>1
  <2>3. FirstTargets(ts, ids, k + 1, self)
    BY <1>1, <2>1, <2>2 DEF FirstTargets
  <2> QED
    BY <1>2, <2>3
<1>3. CASE ids[k + 1] # self
  <2> DEFINE new == Append(ts, ids[k + 1])
             n == Len(ts) + 1
  <2>1. /\ new \in Seq(Cells) /\ Len(new) = n /\ new[n] = ids[k + 1]
        /\ \A i \in 1..Len(ts) : new[i] = ts[i]
    BY <1>1
  <2>2. n \in Nat /\ n - 1 = Len(ts)
    BY <1>1
  <2> HIDE DEF new, n
  <2>3. ASSUME NEW i \in 1..n PROVE new[i] # self /\ \E a \in 1..(k + 1) : new[i] = ids[a]
    <3>1. CASE i = n
      BY <1>3, <2>1, <3>1
    <3>2. CASE i # n
      <4>1. i \in 1..Len(ts)
        BY <2>2, <3>2
      <4>2. ts[i] # self /\ \E a \in 1..k : ts[i] = ids[a]
        BY <1>1, <4>1
      <4> QED
        BY <2>1, <4>1, <4>2
    <3> QED
      BY <3>1, <3>2
  <2>4. ASSUME NEW a \in 1..(k + 1), ids[a] # self
        PROVE  \E i \in 1..n : new[i] = ids[a]
    <3>1. CASE a = k + 1
      <4>1. n \in 1..n
        BY <1>1, <2>2
      <4> QED
        BY <2>1, <3>1, <4>1
    <3>2. CASE a # k + 1
      <4>1. a \in 1..k
        BY <3>2
      <4>2. PICK i \in 1..Len(ts) : ts[i] = ids[a]
        BY <1>1, <2>4, <4>1
      <4>3. i \in 1..n
        BY <2>2
      <4> QED
        BY <2>1, <4>2, <4>3
    <3> QED
      BY <3>1, <3>2
  <2>5. ASSUME NEW i \in 1..n, NEW j \in 1..n, NEW a \in 1..Len(ids), NEW b \in 1..Len(ids),
               i < j, new[i] = ids[a], new[j] = ids[b]
        PROVE  a < b
    <3>1. i \in 1..Len(ts) /\ new[i] = ts[i]
      <4>1. i \in 1..Len(ts)
        BY <2>2, <2>5
      <4> QED
        BY <2>1, <4>1
    <3>2. CASE j = n
      <4>1. b = k + 1
        BY <1>1, <2>1, <2>5, <3>2 DEF IsInjective
      <4>2. PICK c \in 1..k : ts[i] = ids[c]
        BY <1>1, <3>1
      <4>3. c \in 1..Len(ids) /\ ids[c] = ids[a]
        BY <1>1, <2>5, <3>1, <4>2
      <4>4. c = a
        BY <1>1, <4>3 DEF IsInjective
      <4> QED
        BY <4>1, <4>4
    <3>3. CASE j # n
      <4>1. j \in 1..Len(ts)
        BY <2>2, <3>3
      <4>2. ts[i] = ids[a] /\ ts[j] = ids[b]
        BY <2>1, <2>5, <3>1, <4>1
      <4> QED
        BY <1>1, <2>5, <3>1, <4>1, <4>2
    <3> QED
      BY <3>2, <3>3
  <2>6. FirstTargets(new, ids, k + 1, self)
    BY <2>1, <2>3, <2>4, <2>5 DEF FirstTargets
  <2> QED
    BY <1>3, <2>6 DEF new
<1> QED
  BY <1>2, <1>3

\* So it is after all of them.
LEMMA AllTargets ==
  ASSUME NEW ids \in Seq(Cells), IsInjective(ids), NEW self, NEW f,
         IsExtraction(f, ids, self)
  PROVE  FirstTargets(f[Len(ids)], ids, Len(ids), self)
<1> DEFINE n == Len(ids)
           S == {k \in Nat : k <= n => FirstTargets(f[k], ids, k, self)}
<1>1. /\ n \in Nat /\ f[0] = <<>>
      /\ \A i \in 1..n : f[i] = IF ids[i] = self THEN f[i - 1] ELSE Append(f[i - 1], ids[i])
  BY DEF IsExtraction
<1>2. \A k : k \in S <=> k \in Nat /\ (k <= n => FirstTargets(f[k], ids, k, self))
  OBVIOUS
<1> HIDE DEF S
<1>3. 0 \in S
  <2>1. <<>> \in Seq(Cells) /\ Len(<<>>) = 0
    OBVIOUS
  <2>2. FirstTargets(f[0], ids, 0, self)
    BY <1>1, <2>1 DEF FirstTargets
  <2> QED
    BY <1>2, <2>2
<1>4. ASSUME NEW k \in S PROVE k + 1 \in S
  <2>1. k \in Nat /\ (k <= n => FirstTargets(f[k], ids, k, self))
    BY <1>2, <1>4
  <2>2. k + 1 \in Nat
    BY <2>1
  <2>3. ASSUME k + 1 <= n PROVE FirstTargets(f[k + 1], ids, k + 1, self)
    <3>1. k <= n /\ k + 1 \in 1..n /\ (k + 1) - 1 = k
      BY <1>1, <2>1, <2>3
    <3>2. f[k + 1] = IF ids[k + 1] = self THEN f[(k + 1) - 1]
                     ELSE Append(f[(k + 1) - 1], ids[k + 1])
      <4> HIDE DEF n
      <4> QED
        BY <1>1, <3>1, Zenon
    <3>3. FirstTargets(IF ids[k + 1] = self THEN f[k] ELSE Append(f[k], ids[k + 1]),
                       ids, k + 1, self)
      BY <2>1, <2>3, <3>1, OneMoreTarget
    <3> QED
      BY <3>1, <3>2, <3>3
  <2> QED
    BY <1>2, <2>2, <2>3
<1>5. S = Nat
  <2>1. S \in SUBSET Nat
    BY <1>2
  <2> QED
    BY <1>3, <1>4, <2>1, SetInduction
<1> QED
  BY <1>1, <1>2, <1>5

\* core.ExtractTargets on an accepted message: every recipient but the sender
\* becomes a target, once and in its place, and nobody else does.
THEOREM TargetsAreRecipients == ChatSpec => []TargetsExact
<1>1. ASSUME TurnInv, result = "ok"
      PROVE  LET ts == ExtractTargets(buf, Self)
                 ids == SubSeq(wire, 2, wire[1] + 1) IN
             /\ ToSet(ts) = ToSet(ids) \ {Self}
             /\ IsInjective(ts)
             /\ \A i, j \in DOMAIN ts, k, l \in DOMAIN ids :
                  i < j /\ ts[i] = ids[k] /\ ts[j] = ids[l] => k < l
  <2> DEFINE ids == SubSeq(wire, 2, Count + 1)
             ts == ExtractTargets(buf, Self)
  <2>1. /\ Count \in 1..MaxTargets /\ Count \in Nat /\ DataLen \in Nat
        /\ Len(wire) = Count + 2 + DataLen /\ wire \in Seq(Cells) /\ MessageOK
    BY <1>1, AcceptedBuffer
  <2>2. /\ ToIDsLen(buf) = Count
        /\ \A i \in 1..Count : ToIDAt(buf, i - 1) = wire[1 + i]
    BY <1>1, AcceptedMessage
  <2> HIDE DEF Count, DataLen
  <2>3. /\ ids \in Seq(Cells) /\ Len(ids) = Count
        /\ \A i \in 1..Count : ids[i] = wire[1 + i]
    <3>1. /\ 2 \in Int /\ Count + 1 \in Int /\ (Count + 1) - 2 + 1 = Count
          /\ \A i \in 2..(Count + 1) : wire[i] \in Cells
      BY <2>1
    <3>2. /\ ids \in Seq(Cells) /\ Len(ids) = Count
          /\ \A i \in 1..((Count + 1) - 2 + 1) : ids[i] = wire[2 + i - 1]
      BY <2>1, <3>1, SubSeqProperties
    <3>3. \A i \in 1..Count : 2 + i - 1 = 1 + i
      BY <2>1
    <3> HIDE DEF ids
    <3> QED
      BY <3>1, <3>2, <3>3
  <2>4. IsInjective(ids)
    <3>1. ~hasDuplicateTarget(ids, Count)
      BY <2>1 DEF MessageOK, HeaderOK
    <3> HIDE DEF ids
    <3> QED
      BY <2>3, <3>1, NoDuplicates
  <2> HIDE DEF ids
  <2>5. PICK f : IsExtraction(f, ids, Self)
    BY <2>3, ExtractionExists
  <2>6. ts = f[Len(ids)]
    <3>1. Len(ids) <= MaxTargets /\ \A i \in 1..Len(ids) : ToIDAt(buf, i - 1) = ids[i]
      BY <2>1, <2>2, <2>3, FrameAssumption
    <3> QED
      BY <2>2, <2>3, <2>5, <3>1, ExtractTargetsLoop
  <2>7. FirstTargets(ts, ids, Len(ids), Self)
    BY <2>3, <2>4, <2>5, <2>6, AllTargets
  <2> HIDE DEF ts
  <2>8. /\ DOMAIN ts = 1..Len(ts) /\ DOMAIN ids = 1..Len(ids) /\ Len(ts) \in Nat
        /\ \A i \in 1..Len(ts) : ts[i] # Self /\ \E a \in 1..Len(ids) : ts[i] = ids[a]
        /\ \A a \in 1..Len(ids) : ids[a] # Self => \E i \in 1..Len(ts) : ts[i] = ids[a]
        /\ \A i, j \in 1..Len(ts), a, b \in 1..Len(ids) :
             i < j /\ ts[i] = ids[a] /\ ts[j] = ids[b] => a < b
    BY <2>3, <2>7 DEF FirstTargets
  <2>9. ToSet(ts) = ToSet(ids) \ {Self}
    <3>1. \A x : x \in ToSet(ts) <=> \E i \in 1..Len(ts) : x = ts[i]
      BY <2>8 DEF ToSet
    <3>2. \A x : x \in ToSet(ids) <=> \E a \in 1..Len(ids) : x = ids[a]
      BY <2>8 DEF ToSet
    <3>3. ASSUME NEW x \in ToSet(ts) PROVE x \in ToSet(ids) \ {Self}
      <4>1. PICK i \in 1..Len(ts) : x = ts[i]
        BY <3>1
      <4>2. ts[i] # Self /\ \E a \in 1..Len(ids) : ts[i] = ids[a]
        BY <2>8
      <4> QED
        BY <3>2, <4>1, <4>2
    <3>4. ASSUME NEW x \in ToSet(ids) \ {Self} PROVE x \in ToSet(ts)
      <4>1. PICK a \in 1..Len(ids) : x = ids[a]
        BY <3>2
      <4>2. \E i \in 1..Len(ts) : ts[i] = ids[a]
        BY <2>8, <4>1
      <4> QED
        BY <3>1, <4>1, <4>2
    <3> QED
      BY <3>3, <3>4
  <2>10. ASSUME NEW i \in DOMAIN ts, NEW j \in DOMAIN ts, ts[i] = ts[j], i < j
         PROVE  FALSE
    <3>1. PICK a \in 1..Len(ids) : ts[i] = ids[a]
      BY <2>8
    <3>2. a < a
      <4>1. i \in 1..Len(ts) /\ j \in 1..Len(ts) /\ ts[j] = ids[a]
        BY <2>8, <2>10, <3>1
      <4>2. \A b, c \in 1..Len(ids) : i < j /\ ts[i] = ids[b] /\ ts[j] = ids[c] => b < c
        BY <2>8, <4>1
      <4> QED
        BY <2>10, <3>1, <4>1, <4>2
    <3> QED
      BY <2>3, <3>2
  <2>11. IsInjective(ts)
    <3>1. \A i, j \in DOMAIN ts : i \in Int /\ j \in Int
      BY <2>8
    <3>2. \A i, j \in DOMAIN ts : ts[i] = ts[j] => ~(i < j) /\ ~(j < i)
      BY <2>10
    <3>3. \A i, j \in DOMAIN ts : ts[i] = ts[j] => i = j
      BY <3>1, <3>2
    <3> QED
      BY <3>3 DEF IsInjective
  <2> QED
    BY <2>8, <2>9, <2>11 DEF ts, ids, Count
<1>2. TurnInv => TargetsExact
  BY <1>1 DEF TargetsExact
<1> QED
  BY <1>2, TurnInvHolds, PTL

-----------------------------------------------------------------------------
(* The frames of the chat client. *)

\* What there is in a frame of the client: everything in order, unless a recipient
\* is repeated.
LEMMA FrameOfClient ==
  ASSUME TurnInv, NEW w, FrameIsChat(w),
         \A i \in DOMAIN typed : Len(typed[i].ids) <= MaxTargets
  PROVE  \E n \in Nat, d \in Nat :
           /\ n <= MaxTargets /\ d <= MaxDataLen /\ d <= ChunkSize
           /\ w \in Seq(Cells) /\ Len(w) = n + 2 + d /\ w[1] = n /\ w[n + 2] = d
           /\ hasDuplicateTarget(SubSeq(w, 2, n + 1), n) => Repeats
<1>1. PICK i \in DOMAIN typed, data \in Seq(Cells) :
             Len(data) \in 1..ChunkSize /\ w = ChatFrame(typed[i].ids, data)
  BY DEF FrameIsChat
<1>2. typed[i].ids \in Seq(Cells) /\ Len(typed[i].ids) <= MaxTargets
  <2>1. typed \in Seq([ids : Seq(Cells), text : Seq(Cells)])
    BY DEF TurnInv, DataOK
  <2> DEFINE Lines == [ids : Seq(Cells), text : Seq(Cells)]
  <2>2. typed[i] \in Lines
    <3>1. typed \in Seq(Lines)
      BY <2>1
    <3> HIDE DEF Lines
    <3> QED
      BY <3>1
  <2> QED
    BY <2>2
<1>3. PICK ids \in Seq(Cells) : ids = typed[i].ids
  BY <1>2
<1>4. PICK n \in Nat, d \in Nat : n = Len(ids) /\ d = Len(data)
  OBVIOUS
<1>5. n <= MaxTargets /\ d <= ChunkSize /\ d <= MaxDataLen
  BY <1>1, <1>2, <1>3, <1>4, ChatAssumption, FrameAssumption
<1>6. /\ w \in Seq(Cells) /\ Len(w) = n + 2 + d /\ w[1] = n /\ w[n + 2] = d
      /\ SubSeq(w, 2, n + 1) = ids
  <2>1. Len(ids) <= MaxTargets /\ Len(data) <= ChunkSize /\ w = ChatFrame(ids, data)
    BY <1>1, <1>3, <1>4, <1>5, ChatAssumption
  <2> QED
    BY <1>4, <2>1, ChatFrameLayout
<1>7. hasDuplicateTarget(ids, n) => Repeats
  BY <1>3, <1>4, NoDuplicates DEF Repeats
<1> QED
  BY <1>5, <1>6, <1>7

\* What the read loop finds in as much of it as was delivered.
LEMMA PartOfClient ==
  ASSUME TurnInv, PartIsChat(wire), \A i \in DOMAIN typed : Len(typed[i].ids) <= MaxTargets
  PROVE  \E n \in Nat, d \in Nat :
           /\ n <= MaxTargets /\ d <= MaxDataLen /\ Len(wire) <= n + 2 + d
           /\ Len(wire) >= 1 => Count = n
           /\ Len(wire) >= n + 2 => DataLen = d
           /\ Len(wire) >= n + 2 /\ hasDuplicateTarget(SubSeq(wire, 2, n + 1), n) => Repeats
<1>1. PICK f : FrameIsChat(f) /\ \E k \in 0..Len(f) : wire = SubSeq(f, 1, k)
  BY DEF PartIsChat
<1>2. PICK n \in Nat, d \in Nat :
           /\ n <= MaxTargets /\ d <= MaxDataLen
           /\ f \in Seq(Cells) /\ Len(f) = n + 2 + d /\ f[1] = n /\ f[n + 2] = d
           /\ hasDuplicateTarget(SubSeq(f, 2, n + 1), n) => Repeats
  BY <1>1, FrameOfClient
<1>3. PICK k \in 0..Len(f) : wire = SubSeq(f, 1, k)
  BY <1>1
<1>4. k \in Nat /\ k <= n + 2 + d
  BY <1>2
<1>5. wire \in Seq(Cells) /\ Len(wire) = k /\ \A i \in 1..k : wire[i] = f[i]
  <2>1. 1 \in Int /\ k \in Int /\ k - 1 + 1 = k /\ \A i \in 1..k : f[i] \in Cells
    BY <1>2, <1>4
  <2>2. /\ SubSeq(f, 1, k) \in Seq(Cells) /\ Len(SubSeq(f, 1, k)) = k
        /\ \A i \in 1..k : SubSeq(f, 1, k)[i] = f[1 + i - 1]
    BY <1>4, <2>1, SubSeqProperties
  <2>3. \A i \in 1..k : 1 + i - 1 = i
    OBVIOUS
  <2> QED
    BY <1>3, <2>2, <2>3
<1>6. k >= 1 => Count = n
  BY <1>2, <1>4, <1>5 DEF Count
<1>7. k >= n + 2 => DataLen = d
  <2>1. SUFFICES ASSUME k >= n + 2 PROVE DataLen = d
    OBVIOUS
  <2>2. n + 2 \in 1..k /\ 2 + n = n + 2 /\ Count = n
    BY <1>4, <1>6, <2>1
  <2> HIDE DEF Count
  <2> QED
    BY <1>2, <1>5, <2>2 DEF DataLen
<1>8. k >= n + 2 => SubSeq(wire, 2, n + 1) = SubSeq(f, 2, n + 1)
  <2>1. SUFFICES ASSUME k >= n + 2 PROVE SubSeq(wire, 2, n + 1) = SubSeq(f, 2, n + 1)
    OBVIOUS
  <2>2. /\ 2 \in Int /\ n + 1 \in Int /\ (n + 1) - 2 + 1 = n
        /\ \A i \in 2..(n + 1) : i \in 1..k /\ wire[i] \in Cells /\ f[i] \in Cells
    BY <1>2, <1>4, <1>5, <2>1
  <2>3. /\ SubSeq(wire, 2, n + 1) \in Seq(Cells) /\ Len(SubSeq(wire, 2, n + 1)) = n
        /\ \A i \in 1..n : SubSeq(wire, 2, n + 1)[i] = wire[2 + i - 1]
    BY <2>2, SubSeqProperties
  <2>4. /\ SubSeq(f, 2, n + 1) \in Seq(Cells) /\ Len(SubSeq(f, 2, n + 1)) = n
        /\ \A i \in 1..n : SubSeq(f, 2, n + 1)[i] = f[2 + i - 1]
    BY <2>2, SubSeqProperties
  <2>5. \A i \in 1..n : 2 + i - 1 \in 2..(n + 1)
    OBVIOUS
  <2>6. \A i \in 1..n : SubSeq(wire, 2, n + 1)[i] = SubSeq(f, 2, n + 1)[i]
    BY <1>5, <2>2, <2>3, <2>4, <2>5
  <2> QED
    BY <2>3, <2>4, <2>6, SeqEqual
<1> HIDE DEF Count, DataLen
<1> QED
  BY <1>2, <1>4, <1>5, <1>6, <1>7, <1>8

\* The client's invariant is preserved by the steps of a turn: the outcome is "ok",
\* or "skip" of a frame without recipients, or "invalid" of one that repeats one, or
\* "ioError" of one that was cut.
LEMMA ClientTurn ==
  ASSUME TurnInv, ClientOK, TurnStep
  PROVE  ClientOK'
<1>1. /\ UNCHANGED <<kind, wire, ending, sock, typed, at, line, off, currentRecipients>>
      /\ Count' = Count /\ Repeats' = Repeats
      /\ pc \notin {"next", "returned"}
  BY DEF TurnStep, Next, ReadType, ReadCount, ReadHeader, ReadBody, Probe, Switch, Return,
         input, inputVars, Count, Repeats
<1>2. /\ IF ending = "eof" THEN FrameIsChat(wire) ELSE PartIsChat(wire)
      /\ kind = "binary" /\ ending \in {"eof", "fail"}
      /\ \A i \in DOMAIN typed : Len(typed[i].ids) <= MaxTargets
      /\ result \in {"none", "ok", "skip", "ioError"} \/ (result = "invalid" /\ Repeats)
      /\ pc = "switch" => result # "none"
      /\ hungUp => Repeats
  BY <1>1 DEF ClientOK
<1>3. PartIsChat(wire)
  <2>1. SUFFICES ASSUME FrameIsChat(wire) PROVE PartIsChat(wire)
    BY <1>2
  <2>2. wire \in Seq(Cells) /\ Len(wire) \in 0..Len(wire)
    BY DEF TurnInv, DataOK
  <2>3. SubSeq(wire, 1, Len(wire)) = wire
    BY <2>2, SubSeqFull
  <2> QED
    BY <2>1, <2>2, <2>3, Zenon DEF PartIsChat
<1>4. PICK n \in Nat, d \in Nat :
           /\ n <= MaxTargets /\ d <= MaxDataLen /\ Len(wire) <= n + 2 + d
           /\ Len(wire) >= 1 => Count = n
           /\ Len(wire) >= n + 2 => DataLen = d
           /\ Len(wire) >= n + 2 /\ hasDuplicateTarget(SubSeq(wire, 2, n + 1), n) => Repeats
  BY <1>2, <1>3, PartOfClient
<1>5. Len(wire) \in Nat /\ MaxTargets \in Nat /\ MaxDataLen \in Nat /\ Left = Len(wire) - pos
  BY FrameAssumption DEF TurnInv, DataOK, Left
<1> HIDE DEF Count, DataLen, Left
<1>6. \/ pc' \notin {"switch", "next", "returned"} /\ result' = result /\ hungUp' = hungUp
      \/ /\ pc' = "switch" /\ hungUp' = hungUp
         /\ \/ result' \in {"ok", "ioError"}
            \/ result' = "skip" /\ Count = 0
            \/ result' = "invalid" /\ Repeats
      \/ /\ pc = "switch" /\ result' = result
         /\ hungUp' = (result \in {"invalid", "tooLarge"})
         /\ pc' = IF result \in {"ok", "skip"} THEN "next" ELSE "returned"
  <2>1. CASE ReadType
    BY <1>2, <2>1 DEF ReadType
  <2>2. CASE ReadCount
    <3>1. pos = 0
      BY <2>2 DEF ReadCount, TurnInv, ProgressOK
    <3>2. Left >= 1 => ~(Count > MaxTargets)
      BY <1>4, <1>5, <3>1
    <3> QED
      BY <2>2, <3>2 DEF ReadCount, Return
  <2>3. CASE ReadHeader
    <3>1. pos = 1 /\ 1 <= Len(wire)
      BY <2>3 DEF ReadHeader, TurnInv, ProgressOK
    <3>2. Count = n
      BY <1>4, <3>1
    <3>3. Left >= Count + 1 => Len(wire) >= n + 2 /\ ~(DataLen > MaxDataLen)
      BY <1>4, <1>5, <3>1, <3>2
    <3>4. Upcoming(Count) = SubSeq(wire, 2, n + 1)
      <4>1. pos + 1 = 2 /\ pos + Count = n + 1
        BY <3>1, <3>2
      <4> QED
        BY <4>1 DEF Upcoming
    <3> QED
      BY <1>4, <2>3, <3>2, <3>3, <3>4 DEF ReadHeader, Return
  <2>4. CASE ReadBody
    BY <2>4 DEF ReadBody, Return
  <2>5. CASE Probe
    <3>1. pos = Count + 2 + DataLen /\ HeaderOK /\ pos \in 0..Len(wire)
      BY <2>5 DEF Probe, TurnInv, ProgressOK, ControlOK
    <3>2. wire # <<>> /\ Count \in Nat /\ Count + 2 <= Len(wire) /\ DataLen \in Nat
      BY <1>5, <3>1 DEF HeaderOK
    <3>3. Count = n
      BY <1>4, <1>5, <3>2
    <3>4. DataLen = d
      BY <1>4, <3>2, <3>3
    <3>5. ~(Left > 0)
      BY <1>4, <1>5, <3>1, <3>3, <3>4
    <3> QED
      BY <1>2, <2>5, <3>5 DEF Probe, Return
  <2>6. CASE Switch
    BY <2>6 DEF Switch
  <2> QED
    BY <2>1, <2>2, <2>3, <2>4, <2>5, <2>6 DEF TurnStep, Next
<1>7. /\ result' \in {"none", "ok", "skip", "ioError"} \/ (result' = "invalid" /\ Repeats')
      /\ pc' = "switch" /\ result' = "skip" => Count = 0
      /\ pc' = "switch" => result' # "none"
      /\ hungUp' => Repeats'
  <2>1. pc' = "switch" => result' # "none" /\ (result' = "skip" => Count = 0)
    BY <1>1, <1>6
  <2>2. result' \in {"none", "ok", "skip", "ioError"} \/ (result' = "invalid" /\ Repeats)
    BY <1>2, <1>6
  <2>3. hungUp' => Repeats
    BY <1>2, <1>6
  <2> QED
    BY <1>1, <2>1, <2>2, <2>3
<1>8. IF ending' = "eof" THEN FrameIsChat(wire)' ELSE PartIsChat(wire)'
  BY <1>1, <1>2 DEF FrameIsChat, PartIsChat
<1>9. \A i \in DOMAIN sock' : FrameIsChat(sock[i])'
  BY <1>1 DEF ClientOK, FrameIsChat
<1>10. /\ \A i \in DOMAIN typed' : Len(typed'[i].ids) <= MaxTargets
       /\ at' = "prompt" => off' >= Len(line')
       /\ off' < Len(line') =>
            /\ typed' # <<>>
            /\ typed'[Len(typed')] = [ids |-> Truncated(currentRecipients), text |-> line]'
  BY <1>1 DEF ClientOK, Truncated
<1> QED
  BY <1>1, <1>2, <1>7, <1>8, <1>9, <1>10 DEF ClientOK

\* Frames and repetitions stay what they are when another line is typed.
LEMMA TypedStays ==
  ASSUME typed \in Seq([ids : Seq(Cells), text : Seq(Cells)]),
         typed' = typed \/ \E t \in [ids : Seq(Cells), text : Seq(Cells)] :
                             typed' = Append(typed, t)
  PROVE  /\ \A w : FrameIsChat(w) => FrameIsChat(w)'
         /\ \A w : PartIsChat(w) => PartIsChat(w)'
         /\ Repeats => Repeats'
<1>1. \A i \in DOMAIN typed : i \in DOMAIN typed' /\ typed'[i] = typed[i]
  <2>1. CASE typed' = typed
    BY <2>1
  <2>2. CASE \E t \in [ids : Seq(Cells), text : Seq(Cells)] : typed' = Append(typed, t)
    <3>1. PICK t \in [ids : Seq(Cells), text : Seq(Cells)] : typed' = Append(typed, t)
      BY <2>2
    <3>2. /\ DOMAIN typed = 1..Len(typed) /\ Len(typed) \in Nat
          /\ DOMAIN typed' = 1..(Len(typed) + 1)
          /\ \A i \in 1..Len(typed) : typed'[i] = typed[i]
      BY <3>1, AppendProperties
    <3> QED
      BY <3>2
  <2> QED
    BY <2>1, <2>2
<1>2. \A w : FrameIsChat(w) => FrameIsChat(w)'
  BY <1>1 DEF FrameIsChat
<1>3. \A w : PartIsChat(w) => PartIsChat(w)'
  BY <1>2 DEF PartIsChat
<1>4. Repeats => Repeats'
  BY <1>1 DEF Repeats
<1> QED
  BY <1>2, <1>3, <1>4

\* The client's invariant is preserved by the client and by what the connection does.
LEMMA ClientSteps ==
  ASSUME TurnInv, ClientOK, ClientStep \/ NextMessage \/ ReaderFails
  PROVE  ClientOK'
<1>1. /\ UNCHANGED <<kind, hungUp>> /\ kind = "binary" /\ ending' \in {"eof", "fail"}
      /\ hungUp => Repeats
      /\ result \in {"none", "ok", "skip", "ioError"} \/ (result = "invalid" /\ Repeats)
  BY DEF ClientStep, Command, TypeLine, SendChunk, LineSent, Lost, Leave, NextMessage,
         ReaderFails, chatVars, vars, input, ClientOK
<1>2. typed \in Seq([ids : Seq(Cells), text : Seq(Cells)])
  BY DEF TurnInv, DataOK
<1>3. ~TypeLine => UNCHANGED typed
  BY DEF ClientStep, Command, TypeLine, SendChunk, LineSent, Lost, Leave, NextMessage,
         ReaderFails, chatVars, vars, input, inputVars
<1>4. typed' = typed \/ \E t \in [ids : Seq(Cells), text : Seq(Cells)] :
                          typed' = Append(typed, t)
  <2>1. CASE TypeLine
    <3>1. /\ line' \in Seq(Cells) /\ Truncated(currentRecipients) \in Seq(Cells)
      BY <2>1, TypeLineData
    <3> QED
      BY <2>1, <3>1 DEF TypeLine
  <2> QED
    BY <1>3, <2>1
<1>5. /\ \A w : FrameIsChat(w) => FrameIsChat(w)'
      /\ \A w : PartIsChat(w) => PartIsChat(w)'
      /\ Repeats => Repeats'
  BY <1>2, <1>4, TypedStays
<1>6. ASSUME UNCHANGED <<wire, ending, pc, result>>
      PROVE  \/ pc' \in {"next", "returned"} /\ result' = "none"
             \/ IF ending' = "eof" THEN FrameIsChat(wire)' ELSE PartIsChat(wire)'
  <2>1. PICK w : w = wire
    OBVIOUS
  <2>2. FrameIsChat(w) => FrameIsChat(wire)'
    BY <1>5, <1>6, <2>1 DEF FrameIsChat
  <2>3. PartIsChat(w) => PartIsChat(wire)'
    BY <1>5, <1>6, <2>1 DEF PartIsChat
  <2> QED
    BY <1>6, <2>1, <2>2, <2>3 DEF ClientOK
<1>7. ASSUME sock' = sock PROVE \A i \in DOMAIN sock' : FrameIsChat(sock[i])'
  <2> TAKE i \in DOMAIN sock'
  <2>1. PICK w : w = sock[i]
    OBVIOUS
  <2>2. FrameIsChat(w)'
    BY <1>5, <1>7, <2>1 DEF ClientOK
  <2> QED
    BY <1>7, <2>1, <2>2 DEF FrameIsChat
<1>8. CASE Command \/ LineSent \/ Lost \/ Leave
  <2>1. /\ UNCHANGED <<wire, ending, pc, result, sock, typed, line, off>> /\ Count' = Count
        /\ Repeats' = Repeats
    BY <1>8 DEF Command, LineSent, Lost, Leave, vars, input, Count, Repeats
  <2>2. \A i \in DOMAIN typed' : Len(typed'[i].ids) <= MaxTargets
    BY <2>1 DEF ClientOK
  <2>3. off' < Len(line') => currentRecipients' = currentRecipients
    <3>1. off \in Nat /\ Len(line) \in Nat
      BY DEF TurnInv, DataOK, ControlOK
    <3> QED
      BY <1>8, <2>1, <3>1 DEF Command, LineSent, Lost, Leave, ClientOK
  <2>4. at' = "prompt" => off' >= Len(line')
    BY <1>8, <2>1 DEF Command, LineSent, Lost, Leave, ClientOK
  <2>5. off' < Len(line') =>
          /\ typed' # <<>>
          /\ typed'[Len(typed')] = [ids |-> Truncated(currentRecipients), text |-> line]'
    BY <2>1, <2>3 DEF ClientOK, Truncated
  <2> QED
    BY <1>1, <1>6, <1>7, <2>1, <2>2, <2>4, <2>5 DEF ClientOK
<1>9. CASE TypeLine
  <2>1. /\ UNCHANGED <<wire, ending, pc, result, sock, currentRecipients>> /\ Count' = Count
        /\ at' = "send"
    BY <1>9 DEF TypeLine, vars, input, Count
  <2> DEFINE t == [ids |-> Truncated(currentRecipients), text |-> line']
  <2>2. /\ t \in [ids : Seq(Cells), text : Seq(Cells)] /\ Len(t.ids) <= MaxTargets
        /\ typed' = Append(typed, t)
    <3>1. /\ line' \in Seq(Cells) /\ Truncated(currentRecipients) \in Seq(Cells)
          /\ Len(Truncated(currentRecipients)) <= MaxTargets
      BY <1>9, TypeLineData
    <3> QED
      BY <1>9, <3>1 DEF TypeLine
  <2>3. t = [ids |-> Truncated(currentRecipients), text |-> line]'
    BY <2>1 DEF Truncated
  <2> HIDE DEF t
  <2>4. /\ DOMAIN typed' = 1..(Len(typed) + 1) /\ Len(typed') = Len(typed) + 1
        /\ \A i \in 1..Len(typed) : typed'[i] = typed[i] /\ i \in DOMAIN typed
        /\ typed'[Len(typed) + 1] = t /\ Len(typed) \in Nat
    BY <1>2, <2>2, AppendProperties
  <2>5. \A i \in DOMAIN typed' : Len(typed'[i].ids) <= MaxTargets
    <3> TAKE i \in DOMAIN typed'
    <3>1. CASE i = Len(typed) + 1
      BY <2>2, <2>4, <3>1
    <3>2. CASE i # Len(typed) + 1
      <4>1. i \in 1..Len(typed)
        BY <2>4, <3>2
      <4> QED
        BY <2>4, <4>1 DEF ClientOK
    <3> QED
      BY <3>1, <3>2
  <2>6. typed' # <<>>
    BY <2>4
  <2> QED
    BY <1>1, <1>5, <1>6, <1>7, <2>1, <2>3, <2>4, <2>5, <2>6 DEF ClientOK
<1>10. CASE SendChunk
  <2>1. /\ UNCHANGED <<wire, ending, pc, result, typed, currentRecipients, line>>
        /\ Count' = Count /\ off < Len(line) /\ at' = "send" /\ Repeats' = Repeats
    BY <1>10 DEF SendChunk, vars, input, Count, Repeats
  <2>2. PICK w : w = ChatFrame(Truncated(currentRecipients), Chunk(line, off))
    OBVIOUS
  <2>3. w \in Seq(Cells) /\ sock' = Append(sock, w)
    BY <1>10, <2>2, SendChunkData
  <2>4. FrameIsChat(w)
    <3>1. /\ typed # <<>>
          /\ typed[Len(typed)] = [ids |-> Truncated(currentRecipients), text |-> line]
      BY <2>1 DEF ClientOK
    <3>2. Len(typed) \in DOMAIN typed
      BY <1>2, <3>1
    <3>3. Chunk(line, off) \in Seq(Cells) /\ Len(Chunk(line, off)) \in 1..ChunkSize
      BY <1>10, SendChunkData
    <3>4. w = ChatFrame(typed[Len(typed)].ids, Chunk(line, off))
      BY <2>2, <3>1
    <3> QED
      BY <3>2, <3>3, <3>4 DEF FrameIsChat
  <2>5. ASSUME NEW i \in DOMAIN sock' PROVE FrameIsChat(sock[i])'
    <3>1. /\ sock \in Seq(Seq(Cells)) /\ DOMAIN sock' = 1..(Len(sock) + 1) /\ Len(sock) \in Nat
          /\ sock'[Len(sock) + 1] = w /\ \A j \in 1..Len(sock) : sock'[j] = sock[j]
      BY <2>3, AppendProperties DEF TurnInv, DataOK
    <3>2. FrameIsChat(sock'[i])
      <4>1. CASE i = Len(sock) + 1
        BY <2>4, <3>1, <4>1
      <4>2. CASE i # Len(sock) + 1
        <5>1. i \in DOMAIN sock /\ sock'[i] = sock[i]
          BY <3>1, <4>2
        <5> QED
          BY <5>1 DEF ClientOK
      <4> QED
        BY <4>1, <4>2
    <3> QED
      BY <2>1, <3>2 DEF FrameIsChat
  <2>6. /\ \A i \in DOMAIN typed' : Len(typed'[i].ids) <= MaxTargets
        /\ typed' # <<>>
        /\ typed'[Len(typed')] = [ids |-> Truncated(currentRecipients), text |-> line]'
    BY <2>1 DEF ClientOK, Truncated
  <2> QED
    BY <1>1, <1>6, <2>1, <2>5, <2>6 DEF ClientOK
<1>11. CASE NextMessage
  <2>1. /\ UNCHANGED <<typed, currentRecipients, line, at, off>> /\ Repeats' = Repeats
        /\ sock # <<>> /\ sock' = Tail(sock)
        /\ pc' = "type" /\ result' = "none"
    BY <1>11 DEF NextMessage, inputVars, Repeats
  <2>2. /\ sock \in Seq(Seq(Cells)) /\ 1 \in DOMAIN sock /\ Head(sock) = sock[1]
        /\ \A i \in DOMAIN sock' : i + 1 \in DOMAIN sock /\ sock'[i] = sock[i + 1]
    <3>1. sock \in Seq(Seq(Cells))
      BY DEF TurnInv, DataOK
    <3> QED
      BY <2>1, <3>1
  <2>3. FrameIsChat(Head(sock))
    BY <2>2 DEF ClientOK
  <2>4. IF ending' = "eof" THEN FrameIsChat(wire') ELSE PartIsChat(wire')
    <3>1. ending' = "eof" => wire' = Head(sock)
      BY <1>11, DeliveredPart
    <3>2. \E n \in 0..Len(Head(sock)) : wire' = SubSeq(Head(sock), 1, n)
      BY <1>11, DeliveredPart
    <3>3. PartIsChat(wire')
      BY <2>3, <3>2, Zenon DEF PartIsChat
    <3> QED
      BY <2>3, <3>1, <3>3
  <2>5. IF ending' = "eof" THEN FrameIsChat(wire)' ELSE PartIsChat(wire)'
    BY <2>1, <2>4 DEF FrameIsChat, PartIsChat
  <2>6. ASSUME NEW i \in DOMAIN sock' PROVE FrameIsChat(sock[i])'
    <3>1. FrameIsChat(sock'[i])
      BY <2>2 DEF ClientOK
    <3> QED
      BY <2>1, <3>1 DEF FrameIsChat
  <2>7. /\ \A i \in DOMAIN typed' : Len(typed'[i].ids) <= MaxTargets
        /\ at' = "prompt" => off' >= Len(line')
        /\ off' < Len(line') =>
             /\ typed' # <<>>
             /\ typed'[Len(typed')] = [ids |-> Truncated(currentRecipients), text |-> line]'
    BY <2>1 DEF ClientOK, Truncated
  <2> QED
    BY <1>1, <2>1, <2>5, <2>6, <2>7 DEF ClientOK
<1>12. CASE ReaderFails
  <2>1. /\ UNCHANGED <<wire, ending, result, sock, typed, currentRecipients, line, at, off>>
        /\ Count' = Count /\ Repeats' = Repeats /\ pc = "next" /\ pc' = "returned"
    BY <1>12 DEF ReaderFails, input, chatVars, inputVars, Count, Repeats
  <2>2. \/ pc' \in {"next", "returned"} /\ result' = "none"
        \/ IF ending' = "eof" THEN FrameIsChat(wire)' ELSE PartIsChat(wire)'
    BY <2>1 DEF ClientOK, FrameIsChat, PartIsChat
  <2>3. /\ \A i \in DOMAIN typed' : Len(typed'[i].ids) <= MaxTargets
        /\ at' = "prompt" => off' >= Len(line')
        /\ off' < Len(line') =>
             /\ typed' # <<>>
             /\ typed'[Len(typed')] = [ids |-> Truncated(currentRecipients), text |-> line]'
    BY <2>1 DEF ClientOK, Truncated
  <2> QED
    BY <1>1, <1>7, <2>1, <2>2, <2>3 DEF ClientOK
<1> QED
  BY <1>8, <1>9, <1>10, <1>11, <1>12 DEF ClientStep

-----------------------------------------------------------------------------
(* The bytes on their way. *)

\* Bytes and recipients are pairs; no byte is none, and parts make up the whole.
LEMMA BytesOfParts ==
  ASSUME NEW ids \in Seq(Cells), NEW a \in Seq(Cells), NEW b \in Seq(Cells)
  PROVE  /\ Bytes(ids, a) \in Seq(Pairs)
         /\ Bytes(ids, a \o b) = Bytes(ids, a) \o Bytes(ids, b)
         /\ Bytes(ids, <<>>) = <<>> /\ Bytes(<<>>, a) = <<>>
<1>1. ASSUME NEW s \in Seq(Cells)
      PROVE  /\ Addressed(ids, s) \in Seq(Pairs) /\ Len(Addressed(ids, s)) = Len(s)
             /\ \A i \in 1..Len(s) : Addressed(ids, s)[i] = <<ids, s[i]>>
  <2>1. DOMAIN s = 1..Len(s) /\ Len(s) \in Nat /\ \A i \in 1..Len(s) : <<ids, s[i]>> \in Pairs
    BY DEF Pairs
  <2>2. Addressed(ids, s) = [i \in 1..Len(s) |-> <<ids, s[i]>>]
    BY <2>1 DEF Addressed
  <2> HIDE DEF Addressed, Pairs
  <2>3. Addressed(ids, s) \in [1..Len(s) -> Pairs]
    BY <2>1, <2>2
  <2> QED
    BY <2>1, <2>2, <2>3
<1>2. Addressed(ids, a \o b) = Addressed(ids, a) \o Addressed(ids, b)
  <2>1. /\ a \o b \in Seq(Cells) /\ Len(a \o b) = Len(a) + Len(b)
        /\ Len(a) \in Nat /\ Len(b) \in Nat
        /\ \A i \in 1..Len(a) : (a \o b)[i] = a[i]
        /\ \A i \in 1..Len(b) : (a \o b)[Len(a) + i] = b[i]
    BY ConcatElements
  <2>2. /\ Addressed(ids, a \o b) \in Seq(Pairs)
        /\ Len(Addressed(ids, a \o b)) = Len(a) + Len(b)
        /\ \A i \in 1..(Len(a) + Len(b)) : Addressed(ids, a \o b)[i] = <<ids, (a \o b)[i]>>
    BY <1>1, <2>1
  <2>3. /\ Addressed(ids, a) \in Seq(Pairs) /\ Len(Addressed(ids, a)) = Len(a)
        /\ \A i \in 1..Len(a) : Addressed(ids, a)[i] = <<ids, a[i]>>
        /\ Addressed(ids, b) \in Seq(Pairs) /\ Len(Addressed(ids, b)) = Len(b)
        /\ \A i \in 1..Len(b) : Addressed(ids, b)[i] = <<ids, b[i]>>
    BY <1>1
  <2> HIDE DEF Addressed, Pairs
  <2>4. ASSUME NEW i \in 1..Len(a) PROVE Addressed(ids, a \o b)[i] = Addressed(ids, a)[i]
    <3>1. i \in 1..(Len(a) + Len(b))
      BY <2>1
    <3> QED
      BY <2>1, <2>2, <2>3, <3>1
  <2>5. ASSUME NEW i \in 1..Len(b)
        PROVE  Addressed(ids, a \o b)[Len(a) + i] = Addressed(ids, b)[i]
    <3>1. Len(a) + i \in 1..(Len(a) + Len(b))
      BY <2>1
    <3> QED
      BY <2>1, <2>2, <2>3, <3>1
  <2> QED
    <3> DEFINE s == Addressed(ids, a)
               t == Addressed(ids, b)
               w == Addressed(ids, a \o b)
    <3>1. /\ s \in Seq(Pairs) /\ t \in Seq(Pairs) /\ w \in Seq(Pairs)
          /\ Len(w) = Len(s) + Len(t) /\ \A i \in 1..Len(s) : w[i] = s[i]
          /\ \A i \in 1..Len(t) : w[Len(s) + i] = t[i]
      BY <2>2, <2>3, <2>4, <2>5
    <3> HIDE DEF s, t, w
    <3>2. w = s \o t
      BY <3>1, ConcatByElements, Zenon
    <3> QED
      BY <3>2 DEF s, t, w
<1>3. Addressed(ids, <<>>) = <<>> /\ <<>> \in Seq(Pairs) /\ <<>> \o <<>> = <<>>
  BY DEF Addressed
<1> QED
  BY <1>1, <1>2, <1>3 DEF Bytes

\* The bytes in a frame are those of its chunk.
LEMMA InFrameOfChunk ==
  ASSUME NEW ids \in Seq(Cells), Len(ids) <= MaxTargets,
         NEW data \in Seq(Cells), Len(data) \in 1..ChunkSize
  PROVE  InFrame(ChatFrame(ids, data)) = Bytes(ids, data)
<1>1. Len(data) <= ChunkSize /\ Len(ids) \in Nat
  BY ChatAssumption
<1>2. PICK w : w = ChatFrame(ids, data)
  OBVIOUS
<1>3. /\ w[1] = Len(ids) /\ SubSeq(w, 2, Len(ids) + 1) = ids
      /\ SubSeq(w, Len(ids) + 3, Len(w)) = data
  BY <1>1, <1>2, ChatFrameLayout
<1> QED
  BY <1>2, <1>3 DEF InFrame

\* What HandleMessage is given of an accepted frame are the bytes of that frame.
LEMMA HeardIsInFrame ==
  ASSUME TurnInv, result = "ok"
  PROVE  HeardIn(buf) = InFrame(wire) /\ HeardIn(buf) \in Seq(Pairs)
<1>1. /\ Count \in 1..MaxTargets /\ Count \in Nat \ {0} /\ DataLen \in Nat
      /\ Len(wire) = Count + 2 + DataLen /\ wire \in Seq(Cells) /\ wire[1] = Count
  BY AcceptedBuffer DEF Count
<1>2. /\ ToIDsLen(buf) = Count
      /\ \A i \in 1..Count : ToIDAt(buf, i - 1) = wire[1 + i]
      /\ Payload(buf) = SubSeq(wire, Count + 3, Len(wire))
  BY AcceptedMessage
<1> HIDE DEF Count, DataLen
<1> DEFINE ids == SubSeq(wire, 2, Count + 1)
           data == SubSeq(wire, Count + 3, Len(wire))
<1>3. /\ ids \in Seq(Cells) /\ Len(ids) = Count
      /\ \A i \in 1..Count : ids[i] = wire[2 + i - 1]
  <2>1. /\ 2 \in Int /\ Count + 1 \in Int /\ (Count + 1) - 2 + 1 = Count /\ 2 <= Count + 1
        /\ \A i \in 2..(Count + 1) : wire[i] \in Cells
    BY <1>1
  <2> QED
    BY <2>1, SubSeqProperties
<1>4. data \in Seq(Cells)
  <2>1. /\ Count + 3 \in Int /\ Len(wire) \in Int
        /\ \A i \in (Count + 3)..Len(wire) : wire[i] \in Cells
    BY <1>1
  <2> QED
    BY <2>1, SubSeqProperties
<1>5. [j \in 1..ToIDsLen(buf) |-> ToIDAt(buf, j - 1)] = ids
  <2>1. ASSUME NEW j \in 1..Count PROVE ToIDAt(buf, j - 1) = ids[j]
    <3>1. 1 + j = 2 + j - 1
      BY <1>1
    <3> QED
      BY <1>2, <1>3, <3>1
  <2>2. ids = [j \in 1..Count |-> ids[j]]
    BY <1>3
  <2> HIDE DEF ids
  <2> QED
    BY <1>2, <2>1, <2>2
<1>6. ids # <<>>
  BY <1>1, <1>3
<1> HIDE DEF ids, data
<1>7. HeardIn(buf) = Bytes(ids, data)
  BY <1>2, <1>5, <1>6 DEF HeardIn, Bytes, data
<1>8. Bytes(ids, data) \in Seq(Pairs)
  BY <1>3, <1>4, BytesOfParts
<1> QED
  BY <1>1, <1>7, <1>8 DEF InFrame, ids, data

\* The bytes typed, heard and in transit are sequences of pairs.
LEMMA BytesTypes ==
  ASSUME TurnInv, ClientOK
  PROVE  /\ [i \in DOMAIN typed |-> TypedIn(typed[i])] \in Seq(Seq(Pairs))
         /\ [i \in DOMAIN sock |-> InFrame(sock[i])] \in Seq(Seq(Pairs))
         /\ Unsent \in Seq(Pairs) /\ InTurn \in Seq(Pairs)
<1> DEFINE Lines == [ids : Seq(Cells), text : Seq(Cells)]
<1>1. typed \in Seq(Lines) /\ sock \in Seq(Seq(Cells)) /\ line \in Seq(Cells) /\ off \in Nat
  BY DEF TurnInv, DataOK, ControlOK
<1>2. ASSUME NEW i \in DOMAIN typed
      PROVE  /\ typed[i].ids \in Seq(Cells) /\ typed[i].text \in Seq(Cells)
             /\ Len(typed[i].ids) <= MaxTargets
  <2>1. typed[i] \in Lines
    <3> HIDE DEF Lines
    <3> QED
      BY <1>1
  <2> QED
    BY <2>1 DEF ClientOK
<1>3. [i \in DOMAIN typed |-> TypedIn(typed[i])] \in Seq(Seq(Pairs))
  <2>1. DOMAIN typed = 1..Len(typed) /\ Len(typed) \in Nat
    <3> HIDE DEF Lines
    <3> QED
      BY <1>1
  <2>2. \A i \in DOMAIN typed : TypedIn(typed[i]) \in Seq(Pairs)
    BY <1>2, BytesOfParts DEF TypedIn
  <2> DEFINE V == Seq(Pairs)
  <2>3. [i \in DOMAIN typed |-> TypedIn(typed[i])] \in [1..Len(typed) -> V]
    BY <2>1, <2>2
  <2> HIDE DEF V
  <2>4. [i \in DOMAIN typed |-> TypedIn(typed[i])] \in Seq(V)
    BY <2>1, <2>3
  <2> QED
    BY <2>4 DEF V
<1>4. ASSUME NEW w, FrameIsChat(w) PROVE InFrame(w) \in Seq(Pairs)
  <2>1. PICK i \in DOMAIN typed, data \in Seq(Cells) :
               Len(data) \in 1..ChunkSize /\ w = ChatFrame(typed[i].ids, data)
    BY <1>4 DEF FrameIsChat
  <2>2. PICK ids \in Seq(Cells) : ids = typed[i].ids /\ Len(ids) <= MaxTargets
    BY <1>2
  <2>3. InFrame(w) = Bytes(ids, data)
    BY <2>1, <2>2, InFrameOfChunk
  <2>4. Bytes(ids, data) \in Seq(Pairs)
    BY BytesOfParts
  <2> QED
    BY <2>3, <2>4
<1>5. [i \in DOMAIN sock |-> InFrame(sock[i])] \in Seq(Seq(Pairs))
  <2>1. DOMAIN sock = 1..Len(sock) /\ Len(sock) \in Nat
    BY <1>1
  <2>2. \A i \in DOMAIN sock : InFrame(sock[i]) \in Seq(Pairs)
    BY <1>4 DEF ClientOK
  <2> DEFINE V == Seq(Pairs)
  <2>3. [i \in DOMAIN sock |-> InFrame(sock[i])] \in [1..Len(sock) -> V]
    BY <2>1, <2>2
  <2> HIDE DEF V
  <2>4. [i \in DOMAIN sock |-> InFrame(sock[i])] \in Seq(V)
    BY <2>1, <2>3
  <2> QED
    BY <2>4 DEF V
<1>6. <<>> \in Seq(Pairs)
  OBVIOUS
<1>7. Unsent \in Seq(Pairs)
  <2>1. Truncated(currentRecipients) \in Seq(Cells)
    BY RecipientsAreCells, TruncatedFits
  <2>2. SubSeq(line, off + 1, Len(line)) \in Seq(Cells)
    <3>1. /\ off + 1 \in Int /\ Len(line) \in Int
          /\ \A i \in (off + 1)..Len(line) : line[i] \in Cells
      BY <1>1
    <3> QED
      BY <3>1, SubSeqProperties
  <2>3. Bytes(Truncated(currentRecipients), SubSeq(line, off + 1, Len(line))) \in Seq(Pairs)
    BY <2>1, <2>2, BytesOfParts
  <2> QED
    BY <1>6, <2>3 DEF Unsent
<1>8. InTurn \in Seq(Pairs)
  BY <1>4, <1>6 DEF InTurn, Broken, ClientOK
<1> QED
  BY <1>3, <1>5, <1>7, <1>8

LongerBy(v, s, u) == v = s \o u

\* How the parts of what was typed are regrouped: a frame leaves the connection,
LEMMA FromSockToTurn ==
  ASSUME NEW A, NEW h \in Seq(A), NEW f \in Seq(A), NEW k \in Seq(A), NEW u \in Seq(A)
  PROVE  InOrder(h, <<>>, f \o k, u) = InOrder(h, f, k, u)
<1>1. f \o (k \o u) \in Seq(A)
  OBVIOUS
<1>2. Regroups(f, k, u)
  BY ConcatRegroups, Zenon
<1>3. <<>> \o (f \o (k \o u)) = f \o (k \o u)
  BY <1>1, ConcatEmptySeq
<1> QED
  BY <1>2, <1>3, Zenon DEF Regroups, InOrder

\* a chunk of the line is written,
LEMMA FromLineToSock ==
  ASSUME NEW A, NEW h \in Seq(A), NEW t \in Seq(A), NEW k \in Seq(A), NEW f \in Seq(A),
         NEW u \in Seq(A)
  PROVE  InOrder(h, t, k, f \o u) = InOrder(h, t, k \o f, u)
<1>1. Regroups(k, f, u)
  BY ConcatRegroups, Zenon
<1> QED
  BY <1>1, Zenon DEF Regroups, InOrder

\* a line is typed,
LEMMA FromUserToLine ==
  ASSUME NEW A, NEW h \in Seq(A), NEW t \in Seq(A), NEW k \in Seq(A), NEW u \in Seq(A),
         NEW s, s = InOrder(h, t, k, <<>>), NEW v, LongerBy(v, s, u)
  PROVE  v = InOrder(h, t, k, u)
<1>1. t \o k \in Seq(A) /\ k \o <<>> = k
  BY ConcatEmptySeq
<1>2. Regroups(h, t \o k, u) /\ Regroups(t, k, u)
  BY <1>1, ConcatRegroups, Zenon
<1> QED
  BY <1>1, <1>2, Zenon DEF Regroups, InOrder, LongerBy

\* and a message is handed to HandleMessage.
LEMMA FromTurnToHandler ==
  ASSUME NEW A, NEW h \in Seq(A), NEW f \in Seq(A), NEW k \in Seq(A), NEW u \in Seq(A)
  PROVE  InOrder(h, f, k, u) = InOrder(h \o f, <<>>, k, u)
<1>1. k \o u \in Seq(A)
  OBVIOUS
<1>2. <<>> \o (k \o u) = k \o u
  BY <1>1, ConcatEmptySeq
<1>3. Regroups(h, f, k \o u)
  BY <1>1, ConcatRegroups, Zenon
<1> QED
  BY <1>2, <1>3, Zenon DEF Regroups, InOrder

\* The bytes typed, heard and in transit so far.
LEMMA FlowTypes ==
  ASSUME TurnInv, ClientOK, FlowOK
  PROVE  /\ [i \in DOMAIN heard |-> HeardIn(heard[i])] \in Seq(Seq(Pairs))
         /\ BytesTyped \in Seq(Pairs) /\ BytesHeard \in Seq(Pairs)
         /\ InTurn \in Seq(Pairs) /\ InSock \in Seq(Pairs) /\ Unsent \in Seq(Pairs)
<1>1. [i \in DOMAIN heard |-> HeardIn(heard[i])] \in Seq(Seq(Pairs))
  <2>1. DOMAIN heard = 1..Len(heard) /\ Len(heard) \in Nat
    BY DEF TurnInv, DataOK
  <2> DEFINE V == Seq(Pairs)
  <2>2. [i \in DOMAIN heard |-> HeardIn(heard[i])] \in [1..Len(heard) -> V]
    BY <2>1 DEF FlowOK
  <2> HIDE DEF V
  <2>3. [i \in DOMAIN heard |-> HeardIn(heard[i])] \in Seq(V)
    BY <2>1, <2>2
  <2> QED
    BY <2>3 DEF V
<1>2. BytesHeard = FlattenSeq([i \in DOMAIN heard |-> HeardIn(heard[i])])
  BY DEF BytesHeard, HeardIn
<1>3. BytesTyped = FlattenSeq([i \in DOMAIN typed |-> TypedIn(typed[i])])
  BY DEF BytesTyped, TypedIn, Bytes
<1>4. BytesHeard \in Seq(Pairs) /\ BytesTyped \in Seq(Pairs) /\ InSock \in Seq(Pairs)
  BY <1>1, <1>2, <1>3, BytesTypes, FlattenType DEF InSock
<1> QED
  BY <1>1, <1>4, BytesTypes

\* A line that is typed adds its bytes.
LEMMA TypedGrows ==
  ASSUME TurnInv, ClientOK, TypeLine
  PROVE  BytesTyped' = BytesTyped \o Bytes(Truncated(currentRecipients), line')
<1> DEFINE t == [ids |-> Truncated(currentRecipients), text |-> line']
           Lines == [ids : Seq(Cells), text : Seq(Cells)]
           ss == [i \in DOMAIN typed |-> TypedIn(typed[i])]
           tt == [i \in DOMAIN typed' |-> TypedIn(typed'[i])]
<1>1. /\ t \in Lines /\ typed' = Append(typed, t) /\ typed \in Seq(Lines)
      /\ Bytes(Truncated(currentRecipients), line') \in Seq(Pairs)
  <2>1. line' \in Seq(Cells) /\ Truncated(currentRecipients) \in Seq(Cells)
    BY TypeLineData
  <2> QED
    BY <2>1, BytesOfParts DEF TypeLine, TurnInv, DataOK
<1> HIDE DEF Lines
<1>2. /\ DOMAIN typed = 1..Len(typed) /\ Len(typed) \in Nat
      /\ DOMAIN typed' = 1..(Len(typed) + 1) /\ typed'[Len(typed) + 1] = t
      /\ \A i \in 1..Len(typed) : typed'[i] = typed[i]
  BY <1>1, AppendProperties
<1>3. ss \in Seq(Seq(Pairs))
  BY BytesTypes
<1>4. /\ tt = [i \in 1..(Len(typed) + 1) |-> tt[i]] /\ Len(ss) = Len(typed)
      /\ \A i \in 1..Len(typed) : tt[i] = ss[i]
      /\ tt[Len(typed) + 1] = Bytes(Truncated(currentRecipients), line')
  BY <1>2, <1>3 DEF TypedIn
<1> HIDE DEF ss, tt
<1>5. FlattenSeq(tt) = FlattenSeq(ss) \o tt[Len(typed) + 1]
  <2>1. tt[Len(typed) + 1] \in Seq(Pairs)
    BY <1>1, <1>4
  <2>2. Len(typed) \in Nat
    BY <1>2
  <2> QED
    BY <1>3, <1>4, <2>1, <2>2, FlattenMapped, Zenon
<1>6. BytesTyped = FlattenSeq(ss) /\ BytesTyped' = FlattenSeq(tt)
  BY DEF BytesTyped, TypedIn, Bytes, ss, tt
<1> QED
  BY <1>4, <1>5, <1>6

\* A message that is handed to HandleMessage adds its bytes.
LEMMA HeardGrows ==
  ASSUME TurnInv, ClientOK, FlowOK, NEW m \in Seq(Cells), HeardIn(m) \in Seq(Pairs),
         heard' = Append(heard, m)
  PROVE  /\ BytesHeard' = BytesHeard \o HeardIn(m)
         /\ \A i \in DOMAIN heard' : HeardIn(heard'[i]) \in Seq(Pairs)
<1> DEFINE ss == [i \in DOMAIN heard |-> HeardIn(heard[i])]
           tt == [i \in DOMAIN heard' |-> HeardIn(heard'[i])]
<1>1. heard \in Seq(Seq(Cells))
  BY DEF TurnInv, DataOK
<1>2. /\ DOMAIN heard = 1..Len(heard) /\ Len(heard) \in Nat
      /\ DOMAIN heard' = 1..(Len(heard) + 1) /\ heard'[Len(heard) + 1] = m
      /\ \A i \in 1..Len(heard) : heard'[i] = heard[i]
  <2> DEFINE V == Seq(Cells)
  <2>1. heard \in Seq(V) /\ m \in V
    BY <1>1
  <2> HIDE DEF V
  <2> QED
    BY <2>1, AppendProperties
<1>3. ss \in Seq(Seq(Pairs))
  BY FlowTypes
<1>4. /\ tt = [i \in 1..(Len(heard) + 1) |-> tt[i]] /\ Len(ss) = Len(heard)
      /\ \A i \in 1..Len(heard) : tt[i] = ss[i]
      /\ tt[Len(heard) + 1] = HeardIn(m)
  BY <1>2, <1>3
<1>5. \A i \in DOMAIN heard' : HeardIn(heard'[i]) \in Seq(Pairs)
  <2> TAKE i \in DOMAIN heard'
  <2>1. CASE i = Len(heard) + 1
    BY <1>2, <2>1
  <2>2. CASE i # Len(heard) + 1
    <3>1. i \in DOMAIN heard /\ heard'[i] = heard[i]
      BY <1>2, <2>2
    <3> QED
      BY <3>1 DEF FlowOK
  <2> QED
    BY <2>1, <2>2
<1> HIDE DEF ss, tt
<1>6. FlattenSeq(tt) = FlattenSeq(ss) \o tt[Len(heard) + 1]
  <2>1. tt[Len(heard) + 1] \in Seq(Pairs)
    BY <1>4
  <2>2. Len(heard) \in Nat
    BY <1>2
  <2> QED
    BY <1>3, <1>4, <2>1, <2>2, FlattenMapped, Zenon
<1>7. BytesHeard = FlattenSeq(ss) /\ BytesHeard' = FlattenSeq(tt)
  BY DEF BytesHeard, HeardIn, ss, tt
<1> QED
  BY <1>4, <1>5, <1>6, <1>7

\* A frame that is written adds its bytes to those in transit.
LEMMA SockGrows ==
  ASSUME TurnInv, ClientOK, NEW w \in Seq(Cells), InFrame(w) \in Seq(Pairs),
         sock' = Append(sock, w)
  PROVE  InSock' = InSock \o InFrame(w)
<1> DEFINE ss == [i \in DOMAIN sock |-> InFrame(sock[i])]
           tt == [i \in DOMAIN sock' |-> InFrame(sock'[i])]
<1>1. sock \in Seq(Seq(Cells))
  BY DEF TurnInv, DataOK
<1>2. /\ DOMAIN sock = 1..Len(sock) /\ Len(sock) \in Nat
      /\ DOMAIN sock' = 1..(Len(sock) + 1) /\ sock'[Len(sock) + 1] = w
      /\ \A i \in 1..Len(sock) : sock'[i] = sock[i]
  <2> DEFINE V == Seq(Cells)
  <2>1. sock \in Seq(V) /\ w \in V
    BY <1>1
  <2> HIDE DEF V
  <2> QED
    BY <2>1, AppendProperties
<1>3. ss \in Seq(Seq(Pairs))
  BY BytesTypes
<1>4. /\ tt = [i \in 1..(Len(sock) + 1) |-> tt[i]] /\ Len(ss) = Len(sock)
      /\ \A i \in 1..Len(sock) : tt[i] = ss[i]
      /\ tt[Len(sock) + 1] = InFrame(w)
  BY <1>2, <1>3
<1> HIDE DEF ss, tt
<1>5. FlattenSeq(tt) = FlattenSeq(ss) \o tt[Len(sock) + 1]
  <2>1. tt[Len(sock) + 1] \in Seq(Pairs)
    BY <1>4
  <2>2. Len(sock) \in Nat
    BY <1>2
  <2> QED
    BY <1>3, <1>4, <2>1, <2>2, FlattenMapped, Zenon
<1>6. InSock = FlattenSeq(ss) /\ InSock' = FlattenSeq(tt)
  BY DEF InSock, InFrame, ss, tt
<1> QED
  BY <1>4, <1>5, <1>6

\* A frame that is taken whole off the connection takes its bytes along.
LEMMA SockShrinks ==
  ASSUME TurnInv, ClientOK, NextMessage, ending' = "eof"
  PROVE  InSock = InTurn' \o InSock' /\ InTurn' \in Seq(Pairs) /\ InSock' \in Seq(Pairs)
<1> DEFINE tt == [i \in DOMAIN sock |-> InFrame(sock[i])]
           ss == [i \in DOMAIN sock' |-> InFrame(sock'[i])]
<1>1. /\ sock \in Seq(Seq(Cells)) /\ sock # <<>> /\ wire' = Head(sock) /\ sock' = Tail(sock)
      /\ pc' = "type"
  BY DeliveredPart DEF TurnInv, DataOK, NextMessage
<1>2. /\ DOMAIN sock = 1..Len(sock) /\ Len(sock) \in Nat \ {0} /\ Len(sock') = Len(sock) - 1
      /\ DOMAIN sock' = 1..(Len(sock) - 1) /\ sock[1] = wire'
      /\ \A i \in 1..(Len(sock) - 1) : sock'[i] = sock[i + 1]
  <2> DEFINE V == Seq(Cells)
  <2>1. sock \in Seq(V)
    BY <1>1
  <2> HIDE DEF V
  <2> QED
    BY <1>1, <2>1
<1>3. tt \in Seq(Seq(Pairs)) /\ Len(tt) = Len(sock)
  BY <1>2, BytesTypes
<1>4. /\ ss = [i \in 1..(Len(sock) - 1) |-> ss[i]]
      /\ \A i \in 1..(Len(sock) - 1) : ss[i] = tt[i + 1]
      /\ tt[1] = InTurn'
  <2>1. tt[1] = InFrame(wire')
    BY <1>2
  <2>2. InTurn' = InFrame(wire')
    BY <1>1 DEF InTurn, Broken, InFrame
  <2> QED
    BY <1>2, <2>1, <2>2
<1>5. ss \in Seq(Seq(Pairs)) /\ Len(tt) = Len(ss) + 1 /\ tt[1] \in Seq(Pairs)
  <2> DEFINE V == Seq(Pairs)
  <2>1. tt \in Seq(V)
    BY <1>3
  <2> HIDE DEF V, ss, tt
  <2>2. \A i \in 1..Len(tt) : tt[i] \in V
    BY <2>1
  <2>3. ASSUME NEW i \in 1..(Len(sock) - 1) PROVE ss[i] \in V
    <3>1. i + 1 \in 1..Len(tt)
      BY <1>2, <1>3
    <3> QED
      BY <1>4, <2>2, <3>1
  <2>4. ss \in [1..(Len(sock) - 1) -> V] /\ Len(sock) - 1 \in Nat
    BY <1>2, <1>4, <2>3
  <2>5. ss \in Seq(V) /\ Len(ss) = Len(sock) - 1
    BY <2>4
  <2>6. tt[1] \in V
    BY <1>2, <1>3, <2>2
  <2> QED
    BY <1>2, <1>3, <2>5, <2>6 DEF V
<1> HIDE DEF ss, tt
<1>6. \A i \in 1..Len(ss) : tt[i + 1] = ss[i]
  <2>1. Len(ss) \in Nat
    BY <1>5
  <2>2. Len(ss) = Len(sock) - 1
    BY <1>2, <1>3, <1>5, <2>1
  <2> QED
    BY <1>4, <2>2
<1>7. FlattenSeq(tt) = tt[1] \o FlattenSeq(ss)
  BY <1>3, <1>5, <1>6, FlattenCons
<1>8. InSock = FlattenSeq(tt) /\ InSock' = FlattenSeq(ss)
  BY DEF InSock, InFrame, ss, tt
<1>9. FlattenSeq(ss) \in Seq(Pairs)
  BY <1>5, FlattenType
<1> QED
  BY <1>4, <1>5, <1>7, <1>8, <1>9

\* What the steps that move no byte leave as it is.
LEMMA BytesStay ==
  /\ UNCHANGED heard =>
       /\ BytesHeard' = BytesHeard
       /\ FlowOK => \A i \in DOMAIN heard' : HeardIn(heard'[i]) \in Seq(Pairs)
  /\ UNCHANGED typed => BytesTyped' = BytesTyped
  /\ UNCHANGED sock => InSock' = InSock
  /\ UNCHANGED <<pc, wire, ending>> => InTurn' = InTurn /\ Broken' = Broken
<1>1. ASSUME UNCHANGED heard PROVE BytesHeard' = BytesHeard
  BY <1>1 DEF BytesHeard, Addressed, ToIDsLen, ToIDAt, Payload, Nil, Zero
<1>2. ASSUME UNCHANGED heard, FlowOK
      PROVE  \A i \in DOMAIN heard' : HeardIn(heard'[i]) \in Seq(Pairs)
  BY <1>2 DEF FlowOK
<1>3. ASSUME UNCHANGED typed PROVE BytesTyped' = BytesTyped
  BY <1>3, Zenon DEF BytesTyped, Addressed
<1>4. ASSUME UNCHANGED sock PROVE InSock' = InSock
  BY <1>4, Zenon DEF InSock, InFrame, Bytes, Addressed
<1>5. ASSUME UNCHANGED <<pc, wire, ending>> PROVE InTurn' = InTurn /\ Broken' = Broken
  BY <1>5 DEF InTurn, Broken, InFrame, Bytes, Addressed
<1> QED
  BY <1>1, <1>2, <1>3, <1>4, <1>5

\* What was heard is a beginning of what was typed.
LEMMA HeardIsPrefix ==
  ASSUME TurnInv, ClientOK, FlowOK
  PROVE  IsPrefix(BytesHeard, BytesTyped)
<1>1. CASE Broken
  BY <1>1 DEF FlowOK
<1>2. CASE ~Broken
  <2>1. BytesTyped = BytesHeard \o (InTurn \o (InSock \o Unsent))
    BY <1>2 DEF FlowOK, InOrder
  <2>2. /\ BytesHeard \in Seq(Pairs) /\ InTurn \in Seq(Pairs) /\ InSock \in Seq(Pairs)
        /\ Unsent \in Seq(Pairs)
    BY FlowTypes
  <2>3. InTurn \o (InSock \o Unsent) \in Seq(Pairs)
    BY <2>2, ConcatElements
  <2> QED
    BY <2>1, <2>2, <2>3, PrefixOfConcat
<1> QED
  BY <1>1, <1>2

\* The prompt is back only when the whole line was written; and what was not written
\* when the client leaves its loop is not written any more.
LEMMA FlowAtPrompt ==
  ASSUME TurnInv, ClientOK, FlowOK, Command \/ LineSent \/ Leave \/ Lost
  PROVE  FlowOK'
<1>1. UNCHANGED <<heard, typed, sock, pc, wire, ending, line, off>>
  BY DEF Command, LineSent, Leave, Lost, vars, input
<1>2. /\ BytesHeard' = BytesHeard /\ BytesTyped' = BytesTyped /\ InSock' = InSock
      /\ InTurn' = InTurn /\ Broken' = Broken
      /\ \A i \in DOMAIN heard' : HeardIn(heard'[i]) \in Seq(Pairs)
  BY <1>1, BytesStay
<1>3. Unsent' = Unsent
  <2>1. off < Len(line) => currentRecipients' = currentRecipients
    <3>1. off \in Nat /\ Len(line) \in Nat
      BY DEF TurnInv, DataOK, ControlOK
    <3> QED
      BY <3>1 DEF Command, LineSent, Leave, Lost, ClientOK
  <2> QED
    BY <1>1, <2>1 DEF Unsent, Bytes, Addressed, Truncated
<1> QED
  BY <1>2, <1>3 DEF FlowOK, HeardIn

\* A line that is typed has yet to be written.
LEMMA FlowTypeLine ==
  ASSUME TurnInv, ClientOK, FlowOK, TypeLine
  PROVE  FlowOK'
<1>1. UNCHANGED <<heard, sock, pc, wire, ending, currentRecipients>> /\ at = "prompt"
      /\ off' = 0
  BY DEF TypeLine, vars, input
<1>2. /\ BytesHeard' = BytesHeard /\ InSock' = InSock /\ InTurn' = InTurn /\ Broken' = Broken
      /\ \A i \in DOMAIN heard' : HeardIn(heard'[i]) \in Seq(Pairs)
  BY <1>1, BytesStay
<1>3. PICK u : u = Bytes(Truncated(currentRecipients), line')
  OBVIOUS
<1>4. line' \in Seq(Cells) /\ line' # <<>> /\ Truncated(currentRecipients) \in Seq(Cells)
  BY TypeLineData
<1>5. u \in Seq(Pairs)
  BY <1>3, <1>4, BytesOfParts
<1>6. BytesTyped' = BytesTyped \o u
  BY <1>3, TypedGrows
<1>7. /\ BytesTyped \in Seq(Pairs) /\ BytesHeard \in Seq(Pairs) /\ InTurn \in Seq(Pairs)
      /\ InSock \in Seq(Pairs)
  BY FlowTypes
<1>8. CASE Broken
  <2>1. IsPrefix(BytesHeard, BytesTyped)
    BY <1>8 DEF FlowOK
  <2>2. IsPrefix(BytesHeard, BytesTyped \o u)
    BY <1>5, <1>7, <2>1, PrefixGrows
  <2>3. IsPrefix(BytesHeard', BytesTyped')
    BY <1>2, <1>6, <2>2
  <2> QED
    BY <1>2, <1>8, <2>3 DEF FlowOK, HeardIn
<1>9. CASE ~Broken
  <2>1. Unsent = <<>>
    <3>1. off \in Nat /\ Len(line) \in Nat /\ off >= Len(line)
      BY <1>1 DEF TurnInv, DataOK, ControlOK, ClientOK
    <3>2. ~(off < Len(line))
      BY <3>1
    <3> QED
      BY <3>2 DEF Unsent
  <2>2. Unsent' = u
    <3>1. SubSeq(line', 0 + 1, Len(line')) = line'
      BY <1>4, SubSeqFull
    <3>2. off' < Len(line')
      BY <1>1, <1>4
    <3>3. Unsent' = Bytes(Truncated(currentRecipients'), SubSeq(line', off' + 1, Len(line')))
      BY <3>2 DEF Unsent, Bytes, Addressed, Truncated
    <3> QED
      BY <1>1, <1>3, <3>1, <3>3
  <2>3. BytesTyped = InOrder(BytesHeard, InTurn, InSock, <<>>)
    BY <1>9, <2>1 DEF FlowOK
  <2>4. BytesTyped' = InOrder(BytesHeard, InTurn, InSock, u)
    <3>1. LongerBy(BytesTyped', BytesTyped, u)
      BY <1>6, Zenon DEF LongerBy
    <3> QED
      BY <1>5, <1>7, <2>3, <3>1, FromUserToLine
  <2>5. BytesTyped' = InOrder(BytesHeard', InTurn', InSock', Unsent')
    BY <1>2, <2>2, <2>4
  <2> QED
    BY <1>2, <1>9, <2>5 DEF FlowOK, HeardIn
<1> QED
  BY <1>8, <1>9

\* A chunk moves from the line to the connection.
LEMMA FlowSendChunk ==
  ASSUME TurnInv, ClientOK, FlowOK, SendChunk
  PROVE  FlowOK'
<1>1. /\ UNCHANGED <<heard, typed, pc, wire, ending, currentRecipients, line>>
      /\ off < Len(line) /\ off' = off + ChunkSize
      /\ off \in Nat /\ line \in Seq(Cells)
  BY DEF SendChunk, vars, input, TurnInv, DataOK, ControlOK
<1>2. /\ BytesHeard' = BytesHeard /\ BytesTyped' = BytesTyped /\ InTurn' = InTurn
      /\ Broken' = Broken
      /\ \A i \in DOMAIN heard' : HeardIn(heard'[i]) \in Seq(Pairs)
  BY <1>1, BytesStay
<1>3. CASE Broken
  BY <1>1, <1>2, <1>3 DEF FlowOK, HeardIn
<1>4. CASE ~Broken
  <2>1. PICK ids, data : ids = Truncated(currentRecipients) /\ data = Chunk(line, off)
    OBVIOUS
  <2>2. /\ ids \in Seq(Cells) /\ Len(ids) <= MaxTargets /\ data \in Seq(Cells)
        /\ Len(data) \in 1..ChunkSize
        /\ ChatFrame(ids, data) \in Seq(Cells) /\ sock' = Append(sock, ChatFrame(ids, data))
    BY <2>1, SendChunkData
  <2>3. InFrame(ChatFrame(ids, data)) = Bytes(ids, data)
    BY <2>2, InFrameOfChunk
  <2>4. PICK f \in Seq(Pairs) : f = Bytes(ids, data)
    BY <2>2, BytesOfParts
  <2>5. InSock' = InSock \o f
    BY <2>2, <2>3, <2>4, SockGrows
  <2> DEFINE rest == SubSeq(line, (off + ChunkSize) + 1, Len(line))
  <2>6. rest \in Seq(Cells)
    <3>1. /\ (off + ChunkSize) + 1 \in Int /\ Len(line) \in Int
          /\ \A i \in ((off + ChunkSize) + 1)..Len(line) : line[i] \in Cells
      BY <1>1, ChatAssumption
    <3> QED
      BY <3>1, SubSeqProperties
  <2>7. data \o rest = SubSeq(line, off + 1, Len(line))
    BY <1>1, <2>1, ChunkThenRest
  <2>8. Unsent' = Bytes(ids, rest) /\ Unsent = Bytes(ids, data \o rest)
    <3>1. ASSUME off + ChunkSize < Len(line) PROVE Unsent' = Bytes(ids, rest)
      <4>1. off' < Len(line')
        BY <1>1, <3>1
      <4>2. Unsent' = Bytes(Truncated(currentRecipients'), SubSeq(line', off' + 1, Len(line')))
        BY <4>1 DEF Unsent, Bytes, Addressed, Truncated
      <4>3. /\ Truncated(currentRecipients') = ids
            /\ SubSeq(line', off' + 1, Len(line')) = rest
        BY <1>1, <2>1
      <4> QED
        BY <4>2, <4>3, Zenon
    <3>2. ASSUME ~(off + ChunkSize < Len(line)) PROVE Unsent' = Bytes(ids, rest)
      <4>1. Unsent' = <<>>
        BY <1>1, <3>2 DEF Unsent
      <4>2. line \in Seq(Cells) /\ off + ChunkSize \in Nat /\ off + ChunkSize >= Len(line)
        BY <1>1, <3>2, ChatAssumption
      <4>3. rest = <<>>
        BY <4>2, SubSeqEmpty
      <4>4. Bytes(ids, <<>>) = <<>>
        BY <2>2, BytesOfParts
      <4> HIDE DEF rest
      <4> QED
        BY <4>1, <4>3, <4>4
    <3>3. Unsent' = Bytes(ids, rest)
      BY <3>1, <3>2, Zenon
    <3>4. Unsent = Bytes(Truncated(currentRecipients), SubSeq(line, off + 1, Len(line)))
      BY <1>1 DEF Unsent
    <3> QED
      BY <2>1, <2>7, <3>3, <3>4
  <2>9. Unsent = f \o Unsent' /\ Unsent' \in Seq(Pairs)
    <3> HIDE DEF rest
    <3> QED
      BY <2>2, <2>4, <2>6, <2>8, BytesOfParts
  <2>10. BytesHeard \in Seq(Pairs) /\ InTurn \in Seq(Pairs) /\ InSock \in Seq(Pairs)
    BY FlowTypes
  <2>11. BytesTyped = InOrder(BytesHeard, InTurn, InSock, Unsent)
    BY <1>4 DEF FlowOK
  <2>12. InOrder(BytesHeard, InTurn, InSock, f \o Unsent')
           = InOrder(BytesHeard, InTurn, InSock \o f, Unsent')
    BY <2>9, <2>10, FromLineToSock
  <2>13. BytesTyped' = InOrder(BytesHeard', InTurn', InSock', Unsent')
    BY <1>2, <2>5, <2>9, <2>11, <2>12, Zenon
  <2> QED
    BY <1>2, <1>4, <2>13 DEF FlowOK, HeardIn
<1> QED
  BY <1>3, <1>4

\* The next frame moves from the connection to the turn, or the connection breaks.
LEMMA FlowNextMessage ==
  ASSUME TurnInv, ClientOK, FlowOK, NextMessage
  PROVE  FlowOK'
<1>1. /\ UNCHANGED <<heard, typed, currentRecipients, line, at, off>>
      /\ pc = "next" /\ pc' = "type" /\ ~Broken
  BY DEF NextMessage, inputVars, Broken
<1>2. /\ BytesHeard' = BytesHeard /\ BytesTyped' = BytesTyped
      /\ \A i \in DOMAIN heard' : HeardIn(heard'[i]) \in Seq(Pairs)
  BY <1>1, BytesStay
<1>3. CASE ending' = "eof"
  <2>1. Unsent' = Unsent
    BY <1>1 DEF Unsent, Bytes, Addressed, Truncated
  <2>2. InTurn = <<>> /\ ~Broken'
    BY <1>1, <1>3 DEF InTurn, Broken
  <2>3. InSock = InTurn' \o InSock' /\ InTurn' \in Seq(Pairs) /\ InSock' \in Seq(Pairs)
    BY <1>3, SockShrinks
  <2>4. BytesHeard \in Seq(Pairs) /\ Unsent \in Seq(Pairs)
    BY FlowTypes
  <2>5. BytesTyped = InOrder(BytesHeard, <<>>, InTurn' \o InSock', Unsent)
    <3>1. BytesTyped = InOrder(BytesHeard, InTurn, InSock, Unsent)
      BY <1>1 DEF FlowOK
    <3> QED
      BY <2>2, <2>3, <3>1, Zenon
  <2>6. InOrder(BytesHeard, <<>>, InTurn' \o InSock', Unsent)
          = InOrder(BytesHeard, InTurn', InSock', Unsent)
    BY <2>3, <2>4, FromSockToTurn
  <2>7. BytesTyped' = InOrder(BytesHeard', InTurn', InSock', Unsent')
    BY <1>2, <2>1, <2>5, <2>6, Zenon
  <2> QED
    BY <1>2, <2>2, <2>7 DEF FlowOK, HeardIn
<1>4. CASE ending' # "eof"
  <2>1. Broken'
    BY <1>4, DeliveredPart DEF Broken
  <2> QED
    BY <1>2, <2>1, HeardIsPrefix DEF FlowOK, HeardIn
<1> QED
  BY <1>3, <1>4

\* The read loop gives up a connection that broke.
LEMMA FlowReaderFails ==
  ASSUME TurnInv, ClientOK, FlowOK, ReaderFails
  PROVE  FlowOK'
<1>1. UNCHANGED <<heard, typed>> /\ Broken'
  BY DEF ReaderFails, chatVars, inputVars, Broken
<1>2. /\ BytesHeard' = BytesHeard /\ BytesTyped' = BytesTyped
      /\ \A i \in DOMAIN heard' : HeardIn(heard'[i]) \in Seq(Pairs)
  BY <1>1, BytesStay
<1> QED
  BY <1>1, <1>2, HeardIsPrefix DEF FlowOK, HeardIn

\* A turn passes the bytes of its frame to HandleMessage, or there are none, or
\* it is the last one.
LEMMA FlowTurn ==
  ASSUME TurnInv, ClientOK, FlowOK, TurnStep
  PROVE  FlowOK'
<1>1. /\ UNCHANGED <<wire, ending, sock, typed, currentRecipients, line, at, off>>
      /\ pc \notin {"next", "returned"}
  BY DEF TurnStep, Next, ReadType, ReadCount, ReadHeader, ReadBody, Probe, Switch, Return,
         input, inputVars
<1>2. BytesTyped' = BytesTyped /\ InSock' = InSock
  BY <1>1, BytesStay
<1>3. Unsent' = Unsent
  BY <1>1 DEF Unsent, Bytes, Addressed, Truncated
<1>4. /\ BytesHeard \in Seq(Pairs) /\ Unsent \in Seq(Pairs) /\ InTurn \in Seq(Pairs)
      /\ InSock \in Seq(Pairs)
  BY FlowTypes
<1>5. CASE Switch /\ result = "ok"
  <2>1. pc = "switch" /\ pc' = "next" /\ heard' = Append(heard, buf)
    BY <1>5 DEF Switch, TurnStep
  <2>2. ~Broken /\ ~Broken'
    BY <1>1, <1>5, <2>1, AcceptedBuffer DEF Broken, MessageOK
  <2>3. BytesTyped = InOrder(BytesHeard, InTurn, InSock, Unsent)
    BY <2>2 DEF FlowOK
  <2>4. InTurn = InFrame(wire) /\ InTurn' = <<>>
    BY <2>1, <2>2 DEF InTurn
  <2>5. HeardIn(buf) = InTurn /\ HeardIn(buf) \in Seq(Pairs) /\ buf \in Seq(Cells)
    BY <1>5, <2>4, HeardIsInFrame DEF TurnInv, DataOK
  <2>6. /\ BytesHeard' = BytesHeard \o InTurn
        /\ \A i \in DOMAIN heard' : HeardIn(heard'[i]) \in Seq(Pairs)
    BY <2>1, <2>5, HeardGrows
  <2>7. InOrder(BytesHeard, InTurn, InSock, Unsent)
          = InOrder(BytesHeard \o InTurn, <<>>, InSock, Unsent)
    BY <1>4, FromTurnToHandler
  <2>8. BytesTyped' = InOrder(BytesHeard', InTurn', InSock', Unsent')
    BY <1>2, <1>3, <2>3, <2>4, <2>6, <2>7, Zenon
  <2> QED
    BY <2>2, <2>6, <2>8 DEF FlowOK, HeardIn
<1>6. CASE ~(Switch /\ result = "ok")
  <2>1. heard' = heard
    BY <1>6 DEF TurnStep, Next, ReadType, ReadCount, ReadHeader, ReadBody, Probe, Switch
  <2>2. /\ BytesHeard' = BytesHeard
        /\ \A i \in DOMAIN heard' : HeardIn(heard'[i]) \in Seq(Pairs)
    BY <2>1, BytesStay
  <2>3. CASE Broken'
    BY <1>2, <2>2, <2>3, HeardIsPrefix DEF FlowOK, HeardIn
  <2>4. CASE ~Broken'
    <3>1. ~Broken
      BY <1>1, <2>4 DEF Broken
    <3>2. InTurn = InFrame(wire) /\ (pc' # "next" => InTurn' = InTurn)
      BY <1>1, <2>4, <3>1 DEF InTurn, InFrame, Bytes, Addressed, Broken
    <3>3. InTurn' = InTurn
      <4>1. CASE pc' = "next"
        <5>1. Switch /\ result = "skip"
          BY <1>6, <4>1 DEF ClientOK, TurnStep, Next, ReadType, ReadCount, ReadHeader, ReadBody,
                            Probe, Switch, Return
        <5>2. wire[1] = 0 /\ wire \in Seq(Cells)
          BY <5>1 DEF Switch, ClientOK, Count, TurnInv, DataOK
        <5>3. SubSeq(wire, 2, 0 + 1) = <<>>
          BY <5>2, SubSeqEmpty
        <5>4. InFrame(wire) = <<>>
          BY <5>2, <5>3 DEF InFrame, Bytes
        <5>5. InTurn' = <<>>
          BY <4>1 DEF InTurn
        <5> QED
          BY <3>2, <5>4, <5>5
      <4> QED
        BY <3>2, <4>1
    <3>4. BytesTyped = InOrder(BytesHeard, InTurn, InSock, Unsent)
      BY <3>1 DEF FlowOK
    <3>5. BytesTyped' = InOrder(BytesHeard', InTurn', InSock', Unsent')
      BY <1>2, <1>3, <2>2, <3>3, <3>4
    <3> QED
      BY <2>2, <2>4, <3>5 DEF FlowOK, HeardIn
  <2> QED
    BY <2>3, <2>4
<1> QED
  BY <1>5, <1>6

\* At first nothing was typed; a client that has not begun is the chat client.
LEMMA ChatInvInit == ChatInit => ChatInv
<1> SUFFICES ASSUME ChatInit, at # "exit" PROVE ClientOK /\ FlowOK
  BY DEF ChatInit, ChatInv
<1>1. /\ kind = "binary" /\ ending = "eof" /\ pc = "next" /\ result = "none" /\ hungUp = FALSE
      /\ at = "prompt" /\ typed = <<>> /\ sock = <<>> /\ heard = <<>>
      /\ off = 0 /\ line = <<>> /\ Len(line) = 0
  BY DEF ChatInit
<1>2. ClientOK
  BY <1>1 DEF ClientOK
<1>3. BytesTyped = <<>> /\ BytesHeard = <<>> /\ InSock = <<>>
  <2>1. FlattenSeq(<<>>) = <<>>
    BY DEF FlattenSeq
  <2>2. \A f : [i \in DOMAIN <<>> |-> f[i]] = <<>>
    OBVIOUS
  <2> QED
    BY <1>1, <2>1 DEF BytesTyped, BytesHeard, InSock
<1>4. InTurn = <<>> /\ Unsent = <<>>
  BY <1>1 DEF InTurn, Unsent
<1>5. ~Broken /\ BytesTyped = InOrder(BytesHeard, InTurn, InSock, Unsent)
  BY <1>1, <1>3, <1>4 DEF InOrder, Broken
<1> QED
  BY <1>1, <1>2, <1>5 DEF FlowOK

\* What the client promises is kept by every step.
LEMMA ChatInvNext == TurnInv /\ ChatInv /\ [ChatNext]_allVars => ChatInv'
<1> SUFFICES ASSUME TurnInv, ChatInv, [ChatNext]_allVars PROVE ChatInv'
  OBVIOUS
<1>1. CASE at = "exit" /\ typed = <<>>
  <2>1. at' = at /\ typed' = typed
    BY <1>1 DEF ChatNext, ClientStep, Command, TypeLine, SendChunk, LineSent, Lost, Leave,
                NextMessage, ReaderFails, TurnStep, allVars, chatVars, inputVars
  <2> QED
    BY <1>1, <2>1 DEF ChatInv
<1>2. CASE ClientOK /\ FlowOK
  <2>1. CASE ClientStep \/ NextMessage \/ ReaderFails
    <3>1. ClientOK'
      BY <1>2, <2>1, ClientSteps
    <3>2. FlowOK'
      BY <1>2, <2>1, FlowAtPrompt, FlowTypeLine, FlowSendChunk, FlowNextMessage, FlowReaderFails
         DEF ClientStep
    <3> QED
      BY <3>1, <3>2 DEF ChatInv
  <2>2. CASE TurnStep
    BY <1>2, <2>2, ClientTurn, FlowTurn DEF ChatInv
  <2>3. CASE UNCHANGED allVars
    <3>1. UNCHANGED <<kind, wire, ending, pc, result, hungUp, typed, at, currentRecipients, line,
                      sock, off, heard>>
      BY <2>3 DEF allVars, vars, input, chatVars, inputVars
    <3>2. ClientOK'
      <4>1. Repeats' = Repeats /\ Count' = Count
        BY <3>1 DEF Repeats, Count
      <4>2. FrameIsChat(wire)' = FrameIsChat(wire) /\ PartIsChat(wire)' = PartIsChat(wire)
        BY <3>1 DEF FrameIsChat, PartIsChat
      <4>3. \A i \in DOMAIN sock' : FrameIsChat(sock[i])'
        BY <1>2, <3>1 DEF FrameIsChat, ClientOK
      <4>4. Truncated(currentRecipients)' = Truncated(currentRecipients)
        BY <3>1 DEF Truncated
      <4> QED
        BY <1>2, <3>1, <4>1, <4>2, <4>3, <4>4 DEF ClientOK
    <3>3. /\ BytesHeard' = BytesHeard /\ BytesTyped' = BytesTyped /\ InSock' = InSock
          /\ InTurn' = InTurn /\ Broken' = Broken
          /\ \A i \in DOMAIN heard' : HeardIn(heard'[i]) \in Seq(Pairs)
      BY <1>2, <3>1, BytesStay
    <3>4. Unsent' = Unsent
      BY <3>1 DEF Unsent, Bytes, Addressed, Truncated
    <3>5. FlowOK'
      BY <1>2, <3>1, <3>3, <3>4 DEF FlowOK, HeardIn
    <3> QED
      BY <3>2, <3>5 DEF ChatInv
  <2> QED
    BY <2>1, <2>2, <2>3 DEF ChatNext
<1> QED
  BY <1>1, <1>2 DEF ChatInv

\* Nothing typed is lost, added or out of order on its way.
LEMMA FlowImpliesArrival ==
  ASSUME TurnInv, ChatInv
  PROVE  ArrivesAsTyped
<1> SUFFICES ASSUME ClientOK, FlowOK PROVE ArrivesAsTyped
  BY DEF ChatInv, ArrivesAsTyped, ByChat
<1>1. BytesHeard \in Seq(Pairs)
  BY FlowTypes
<1>2. IsPrefix(BytesHeard, BytesTyped)
  BY HeardIsPrefix
<1>3. ASSUME Settled PROVE BytesHeard = BytesTyped
  <2>1. pc = "next" /\ sock = <<>> /\ ~Broken /\ ~(off < Len(line))
    <3>1. off \in Nat /\ Len(line) \in Nat
      BY DEF TurnInv, DataOK, ControlOK
    <3> QED
      BY <1>3, <3>1 DEF Settled, Broken
  <2>2. InTurn = <<>> /\ Unsent = <<>>
    BY <2>1 DEF InTurn, Unsent
  <2>3. InSock = <<>>
    <3>1. FlattenSeq(<<>>) = <<>>
      BY DEF FlattenSeq
    <3> QED
      BY <2>1, <3>1 DEF InSock
  <2>4. BytesTyped = BytesHeard \o (<<>> \o (<<>> \o <<>>))
    BY <2>1, <2>2, <2>3 DEF FlowOK, InOrder
  <2>5. BytesHeard \o <<>> = BytesHeard
    BY <1>1, ConcatEmptySeq
  <2>6. <<>> \o (<<>> \o <<>>) = <<>>
    OBVIOUS
  <2> QED
    BY <2>4, <2>5, <2>6
<1>4. hungUp => Repeats
  BY DEF ClientOK
<1> QED
  BY <1>2, <1>3, <1>4 DEF ArrivesAsTyped

\* What is typed for somebody reaches HandleMessage byte by byte, in order, for the
\* recipients chosen when it was typed, for all limits and any schedule of the two
\* sides; what a client that ends between two chunks, or a connection that breaks in
\* the middle of a frame, takes away is the end of it.
THEOREM TypedArrives == ChatSpec => []ArrivesAsTyped
<1>1. ChatInit => ChatInv
  BY ChatInvInit
<1>2. TurnInv /\ ChatInv /\ [ChatNext]_allVars => ChatInv'
  BY ChatInvNext
<1>3. TurnInv /\ ChatInv => ArrivesAsTyped
  BY FlowImpliesArrival
<1> QED
  BY <1>1, <1>2, <1>3, TurnInvHolds, PTL DEF ChatSpec

\* How long an accepted message can be, its sender and header included: of any
\* peer, and of the chat client.
AcceptedFits ==
  result = "ok" => /\ Len(buf) <= MaxTargets + 3 + MaxDataLen
                   /\ ByChat => Len(buf) <= MaxTargets + 3 + ChunkSize

\* What is relayed is a chunk and at most a full header: the limit that would let
\* every client read it, where ReadableByClients fails for the header.
THEOREM AcceptedLength == ChatSpec => []AcceptedFits
<1>1. TurnInv /\ ChatInv => AcceptedFits
  <2> SUFFICES ASSUME TurnInv, ChatInv, result = "ok"
               PROVE  /\ Len(buf) <= MaxTargets + 3 + MaxDataLen
                      /\ ByChat => Len(buf) <= MaxTargets + 3 + ChunkSize
    BY DEF AcceptedFits
  <2>1. /\ MessageOK /\ Len(buf) = Count + DataLen + 3 /\ Count \in 1..MaxTargets
        /\ Count \in Nat /\ DataLen \in Nat
    BY AcceptedBuffer
  <2>2. DataLen <= MaxDataLen
    BY <2>1, FrameAssumption DEF MessageOK, HeaderOK
  <2>3. ASSUME ByChat PROVE DataLen <= ChunkSize
    <3>1. ClientOK
      BY <2>3 DEF ChatInv, ByChat
    <3>2. FrameIsChat(wire) /\ \A i \in DOMAIN typed : Len(typed[i].ids) <= MaxTargets
      BY <2>1, <3>1 DEF ClientOK, MessageOK
    <3>3. PICK n \in Nat, d \in Nat : d <= ChunkSize /\ wire[1] = n /\ wire[n + 2] = d
      BY <3>2, FrameOfClient
    <3>4. 2 + n = n + 2
      OBVIOUS
    <3> QED
      BY <3>3, <3>4 DEF DataLen, Count
  <2>4. MaxTargets \in Nat /\ MaxDataLen \in Nat /\ ChunkSize \in Nat
    BY FrameAssumption, ChatAssumption
  <2> HIDE DEF Count, DataLen
  <2>5. Count <= MaxTargets
    BY <2>1, <2>4
  <2> QED
    BY <2>1, <2>2, <2>3, <2>4, <2>5
<1>2. ChatSpec => []ChatInv
  BY ChatInvInit, ChatInvNext, TurnInvHolds, PTL DEF ChatSpec
<1> QED
  BY <1>1, <1>2, TurnInvHolds, PTL
=============================================================================
