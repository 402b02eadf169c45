--------------------------------- MODULE Chat ---------------------------------
(***************************************************************************)
(* The interactive client (cmd/client/main.go) at the other end of a        *)
(* connection whose read loop is Frame: commands choose the recipients, a   *)
(* line is cut into chunks, each chunk becomes a frame, and the server      *)
(* reads the frames at its own pace. The peer of a connection may also be   *)
(* any other program, which sends one message of any shape.                 *)
(***************************************************************************)
EXTENDS Frame

CONSTANTS ChunkSize,   \* maxPayloadPerFrame
          ReadLimit,   \* the WebSocket library's default, which no client changes
          Lists,       \* bound: recipient lists that are typed
          LineLengths, \* bound: lengths of lines
          MaxLines     \* bound: lines typed

ASSUME ChatAssumption == /\ ChunkSize \in Nat \ {0} /\ ChunkSize <= MaxDataLen
                         /\ ReadLimit \in Nat
                         /\ Lists \subseteq Seq(Cells)
                         /\ LineLengths \subseteq Nat \ {0}
                         /\ MaxLines \in Nat

VARIABLES
  currentRecipients, \* <<>>: no session
  at,                \* main's loop: "prompt", "send" or "exit"
  line, off,         \* the line typed last, and how much of it was written
  sock,              \* frames written and not read yet
  typed,             \* history: the lines typed, with their recipients
  heard              \* history: what was handed to HandleMessage

inputVars == <<currentRecipients, at, line, off, typed>>
chatVars  == <<inputVars, sock, heard>>
allVars   == <<vars, chatVars>>

\* The peer is any program, or the chat client, which has written nothing yet.
ChatInit ==
  /\ currentRecipients = <<>> /\ line = <<>> /\ off = 0
  /\ sock = <<>> /\ typed = <<>> /\ heard = <<>>
  /\ \/ Init /\ at = "exit"
     \/ /\ at = "prompt"
        /\ kind = "binary" /\ wire = <<>> /\ ending = "eof" /\ pos = 0 /\ pc = "next"
        /\ buf = <<>> /\ refs = 0 /\ result = "none" /\ hungUp = FALSE

-----------------------------------------------------------------------------
\* The recipients that fit into a frame.
Truncated(ids) == IF Len(ids) > MaxTargets THEN SubSeq(ids, 1, MaxTargets) ELSE ids

\* A fault: the chunks overlap by a byte.
ChunkOverlapping(bytes, from) ==
  LET start == IF from = 0 THEN 1 ELSE from IN
  SubSeq(bytes, start, IF from + ChunkSize > Len(bytes) THEN Len(bytes) ELSE from + ChunkSize)

Chunk(bytes, from) ==
  SubSeq(bytes, from + 1, IF from + ChunkSize > Len(bytes) THEN Len(bytes) ELSE from + ChunkSize)

\* ToIDsLen, ToIDs, DataLen, Data.
ChatFrame(ids, data) == <<Len(ids)>> \o ids \o <<Len(data)>> \o data

\* /chat, and /exit, which leaves no recipients.
Command ==
  /\ at = "prompt" /\ currentRecipients' \in Lists \cup {<<>>}
  /\ UNCHANGED <<vars, at, line, off, typed, sock, heard>>

TypeLine ==
  /\ at = "prompt" /\ Len(typed) < MaxLines
  /\ \E n \in LineLengths : line' = [i \in 1..n |-> i % MaxCell]
  /\ off' = 0 /\ at' = "send"
  /\ typed' = Append(typed, [ids |-> Truncated(currentRecipients), text |-> line'])
  /\ UNCHANGED <<vars, currentRecipients, sock, heard>>

\* conn.Write hands one chunk to the connection.
SendChunk ==
  /\ at = "send" /\ off < Len(line)
  /\ sock' = Append(sock, ChatFrame(Truncated(currentRecipients), Chunk(line, off)))
  /\ off' = off + ChunkSize
  /\ UNCHANGED <<vars, currentRecipients, at, line, typed, heard>>

LineSent ==
  /\ at = "send" /\ off >= Len(line)
  /\ at' = "prompt"
  /\ UNCHANGED <<vars, currentRecipients, line, off, typed, sock, heard>>

\* A signal, or a Read that failed, cancelled ctx: main leaves its loop where it
\* looks at ctx, or where conn.Write fails, in the middle of a line too.
Lost ==
  /\ at # "exit"
  /\ at' = "exit"
  /\ UNCHANGED <<vars, currentRecipients, line, off, typed, sock, heard>>

\* /quit, or the end of stdin.
Leave ==
  /\ at = "prompt"
  /\ at' = "exit"
  /\ UNCHANGED <<vars, currentRecipients, line, off, typed, sock, heard>>

ClientStep == Command \/ TypeLine \/ SendChunk \/ LineSent \/ Lost \/ Leave

\* ReadWriteLoop comes round to the next message, of which the connection delivers
\* all, or what it got of it when it broke.
NextMessage ==
  /\ pc = "next" /\ sock # <<>> /\ ending = "eof"
  /\ \/ wire' = Head(sock) /\ ending' = "eof"
     \/ /\ \E n \in 0..Len(Head(sock)) : wire' = SubSeq(Head(sock), 1, n)
        /\ ending' = "fail"
  /\ sock' = Tail(sock)
  /\ pos' = 0 /\ pc' = "type" /\ buf' = <<>> /\ refs' = 0 /\ result' = "none"
  /\ UNCHANGED <<kind, hungUp, inputVars, heard>>

\* conn.Reader fails: the connection broke, or ctx was cancelled. The loop returns.
ReaderFails ==
  /\ pc = "next"
  /\ pc' = "returned"
  /\ UNCHANGED <<input, pos, buf, refs, result, hungUp, chatVars>>

\* One step of the turn; an accepted message goes to HandleMessage.
TurnStep ==
  /\ Next
  /\ heard' = IF pc = "switch" /\ result = "ok" THEN Append(heard, buf) ELSE heard
  /\ UNCHANGED <<inputVars, sock>>

ChatNext == ClientStep \/ NextMessage \/ ReaderFails \/ TurnStep

ChatSpec == ChatInit /\ [][ChatNext]_allVars

-----------------------------------------------------------------------------
\* Type invariant.
ChatTypeOK == /\ TypeOK
              /\ currentRecipients \in Lists \cup {<<>>}
              /\ at \in {"prompt", "send", "exit"}
              /\ line \in Seq(Cells) /\ off \in Nat
              /\ sock \in Seq(Seq(Cells)) /\ heard \in Seq(Seq(Cells))
              /\ Len(typed) <= MaxLines

\* Every byte with the recipients it is for, as it was typed and as it was heard.
Addressed(ids, bytes) == [i \in DOMAIN bytes |-> <<ids, bytes[i]>>]
BytesTyped == FlattenSeq([i \in DOMAIN typed |->
                IF typed[i].ids = <<>> THEN <<>> ELSE Addressed(typed[i].ids, typed[i].text)])
BytesHeard == FlattenSeq([i \in DOMAIN heard |->
                Addressed([j \in 1..ToIDsLen(heard[i]) |-> ToIDAt(heard[i], j - 1)],
                          Payload(heard[i]))])

ByChat  == typed # <<>>
Repeats == \E i \in DOMAIN typed : ~IsInjective(typed[i].ids)
\* All of the line was written, and every frame was read.
Settled == off >= Len(line) /\ sock = <<>> /\ pc = "next" /\ ending = "eof"

\* What is typed for somebody reaches HandleMessage byte by byte, in order, for
\* the recipients chosen when it was typed, however far the server is behind and
\* however the line was cut. A client that ends in the middle of a line, and a
\* connection that breaks, take the end of it away and nothing else; the server
\* hangs up only where a recipient was repeated. What is typed for nobody is not
\* broadcast, as main.go of the client says it is, but discarded: it is no part of
\* BytesTyped, and the first conjunct says that it is not heard either.
ArrivesAsTyped ==
  ByChat => /\ IsPrefix(BytesHeard, BytesTyped)
            /\ Settled => BytesHeard = BytesTyped
            /\ hungUp => Repeats

\* main.go of the client chunks large payloads "to avoid library hard read
\* limit": what is relayed would then stay within it at the recipient.
ReadableByClients == result = "ok" => Len(buf) <= ReadLimit
=============================================================================
