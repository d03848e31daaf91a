----------------------------- MODULE PipeFraming -----------------------------
(* One direction of a KernelPipe, byte by byte (KernelContext.swift).       *)
(*                                                                          *)
(* send puts a header with the length in front of the message and appends   *)
(* both to the file with one call of write.  recv_raw reads the file in     *)
(* pieces of at most scratchBufferSize bytes until a read returns nothing;  *)
(* recv then cuts the bytes into messages.                                  *)
(*                                                                          *)
(* The kernel of the operating system need not make the bytes of a write    *)
(* visible at once: a reader of the same file can see the first pages of it *)
(* before the others.                                                       *)
(*                                                                          *)
(* A byte is a record that says where it comes from; the bytes of a header  *)
(* encode the length when they are all there, and no eight bytes of a       *)
(* message read as a header make a length that can be allocated.  Empty     *)
(* messages, which send drops, are left out.                                *)
EXTENDS Naturals, Sequences

CONSTANTS
  HeaderSize,      \* bytes of the header (8)
  ScratchSize,     \* scratchBufferSize (1024)
  MaxLength,       \* bound on the length of a message
  MaxMessages      \* bound on the number of messages

ASSUME SizesAssumption ==
  /\ HeaderSize \in Nat \ {0}
  /\ ScratchSize \in Nat \ {0}
  /\ MaxLength \in Nat
  /\ MaxMessages \in Nat

VARIABLES
  sent,       \* history: the messages sent
  file,       \* the bytes that a reader can see
  pending,    \* the bytes of the latest write that it cannot see yet
  offset,     \* position of the reader's handle
  reading,    \* the reader is in recv_raw
  output,     \* the bytes that recv_raw has read
  received,   \* history: the messages that recv returned
  malformed,  \* the reader ended with "Malformed pipe contents."
  torn        \* history: a part of a write was seen before the rest

vars == <<sent, file, pending, offset, reading, output, received, malformed, torn>>

Header(length) == [k \in 1 .. HeaderSize |-> [part |-> k, length |-> length]]
Body(n, length) == [k \in 1 .. length |-> [message |-> n, byte |-> k]]

Message == {Body(n, length) : n \in 1 .. MaxMessages, length \in 1 .. MaxLength}

Init ==
  /\ sent = <<>> /\ file = <<>> /\ pending = <<>>
  /\ offset = 0 /\ reading = FALSE /\ output = <<>>
  /\ received = <<>> /\ malformed = FALSE /\ torn = FALSE

-----------------------------------------------------------------------------
(* The first n bytes of a write become visible.                             *)
Show(bytes, n) ==
  /\ file' = file \o SubSeq(bytes, 1, n)
  /\ pending' = SubSeq(bytes, n + 1, Len(bytes))
  /\ torn' = (torn \/ n \in 1 .. Len(bytes) - 1)

(* The process at one end sends a message.                                  *)
Send ==
  /\ pending = <<>>
  /\ Len(sent) < MaxMessages
  /\ \E length \in 1 .. MaxLength :
       LET body == Body(Len(sent) + 1, length)
           frame == Header(length) \o body
       IN  /\ sent' = Append(sent, body)
           /\ \E n \in 0 .. Len(frame) : Show(frame, n)
  /\ UNCHANGED <<offset, reading, output, received, malformed>>

Appear ==
  /\ pending # <<>>
  /\ \E n \in 1 .. Len(pending) : Show(pending, n)
  /\ UNCHANGED <<sent, offset, reading, output, received, malformed>>

-----------------------------------------------------------------------------
(* The process at the other end calls recv.                                 *)
BeginRecv ==
  /\ ~reading /\ ~malformed
  /\ reading' = TRUE
  /\ output' = <<>>
  /\ UNCHANGED <<sent, file, pending, offset, received, malformed, torn>>

Smaller(a, b) == IF a < b THEN a ELSE b

(* A mistake: a short read is taken for a full one.                         *)
ReadPastEnd ==
  /\ reading
  /\ offset < Len(file)
  /\ offset' = offset + ScratchSize
  /\ output' = output \o SubSeq(file, offset + 1, Smaller(Len(file), offset'))
  /\ UNCHANGED <<sent, file, pending, reading, received, malformed, torn>>

(* A mistake: a piece is read again from the start of the file.             *)
ReadFromStart ==
  /\ reading
  /\ offset < Len(file)
  /\ output' = output \o SubSeq(file, 1, Smaller(Len(file), offset + ScratchSize))
  /\ offset' = Smaller(Len(file), offset + ScratchSize)
  /\ UNCHANGED <<sent, file, pending, reading, received, malformed, torn>>

(* One call of read. *)
Read ==
  /\ reading
  /\ offset < Len(file)
  /\ offset' = Smaller(Len(file), offset + ScratchSize)
  /\ output' = output \o SubSeq(file, offset + 1, offset')
  /\ UNCHANGED <<sent, file, pending, reading, received, malformed, torn>>

(* The header at a position of the bytes, and where its message ends.       *)
IsHeader(bytes, p, length) ==
  /\ p + HeaderSize - 1 <= Len(bytes)
  /\ SubSeq(bytes, p, p + HeaderSize - 1) = Header(length)
MessageEnd(p, length) == p + HeaderSize + length - 1

(* The lengths that the header at a position can have: one at most.         *)
Fitting(bytes, p) ==
  {length \in 1 .. MaxLength : /\ IsHeader(bytes, p, length)
                               /\ MessageEnd(p, length) <= Len(bytes)}

(* The messages from a position on, or what there is up to the place where  *)
(* a header or a message is not complete.                                   *)
MessagesFrom(bytes, p, rest) ==
  IF p > Len(bytes) THEN [messages |-> <<>>, ok |-> TRUE]
  ELSE IF Fitting(bytes, p) = {} THEN [messages |-> <<>>, ok |-> FALSE]
  ELSE LET length == CHOOSE length \in Fitting(bytes, p) : TRUE
           message == SubSeq(bytes, p + HeaderSize, MessageEnd(p, length))
           more == rest[MessageEnd(p, length) + 1]
       IN  [messages |-> <<message>> \o more.messages, ok |-> more.ok]

(* recv: the bytes cut into messages.                                       *)
Decode(bytes) ==
  LET rest[p \in 1 .. Len(bytes) + 1] == MessagesFrom(bytes, p, rest)
  IN  rest[1]

(* A mistake: only the first message is taken out of the bytes.             *)
EndRecvWithFirst ==
  /\ reading
  /\ offset = Len(file)
  /\ reading' = FALSE
  /\ LET decoded == Decode(output)
     IN  IF decoded.ok
           THEN /\ received' = received \o SubSeq(decoded.messages, 1, Smaller(1, Len(decoded.messages)))
                /\ UNCHANGED malformed
           ELSE malformed' = TRUE /\ UNCHANGED received
  /\ UNCHANGED <<sent, file, pending, offset, output, torn>>

(* A mistake: recv_raw stops after one piece.                               *)
EndRecvEarly ==
  /\ reading
  /\ reading' = FALSE
  /\ LET decoded == Decode(output)
     IN  IF decoded.ok
           THEN received' = received \o decoded.messages /\ UNCHANGED malformed
           ELSE malformed' = TRUE /\ UNCHANGED received
  /\ UNCHANGED <<sent, file, pending, offset, output, torn>>

(* read has returned nothing, and the bytes are cut into messages.  The two *)
(* are one step: what is sent between them is not in the bytes.             *)
EndRecv ==
  /\ reading
  /\ offset = Len(file)
  /\ reading' = FALSE
  /\ LET decoded == Decode(output)
     IN  IF decoded.ok
           THEN received' = received \o decoded.messages /\ UNCHANGED malformed
           ELSE malformed' = TRUE /\ UNCHANGED received
  /\ UNCHANGED <<sent, file, pending, offset, output, torn>>

-----------------------------------------------------------------------------
Next == Send \/ Appear \/ BeginRecv \/ Read \/ EndRecv

Spec == Init /\ [][Next]_vars

(* A write is finished, and the reader polls.                               *)
FairSpec == Spec /\ WF_vars(Appear) /\ WF_vars(BeginRecv \/ Read \/ EndRecv)

-----------------------------------------------------------------------------
(* Properties.                                                              *)

Byte == [part : 1 .. HeaderSize, length : 1 .. MaxLength]
        \cup [message : 1 .. MaxMessages, byte : 1 .. MaxLength]

(* The types: the handle never leaves the file, and what recv_raw has in    *)
(* hand is no longer than what it has read of the file.                     *)
TypeOK ==
  /\ sent \in Seq(Message) /\ received \in Seq(Message)
  /\ file \in Seq(Byte) /\ pending \in Seq(Byte) /\ output \in Seq(Byte)
  /\ offset \in 0 .. Len(file)
  /\ Len(output) <= offset
  /\ reading \in BOOLEAN /\ malformed \in BOOLEAN /\ torn \in BOOLEAN

(* However a write becomes visible and wherever the reads cut it, recv      *)
(* returns the messages that were sent, in order, none twice and none       *)
(* invented, up to the point where it gives up.                             *)
ReceivedInOrder ==
  /\ Len(received) <= Len(sent)
  /\ received = SubSeq(sent, 1, Len(received))

(* The pipe is the queue of messages that CellExecution takes it for, once a *)
(* message counts as sent when the last of its bytes can be seen.            *)
Queue == INSTANCE MessageQueue WITH
  Message <- Message,
  sent <- IF pending = <<>> THEN sent ELSE SubSeq(sent, 1, Len(sent) - 1)
ImplementsMessageQueue == Queue!Spec

(* A reader that polls gets every message, unless it gives up.               *)
EveryMessageArrives ==
  \A n \in 1 .. MaxMessages : Len(sent) >= n ~> (Len(received) >= n \/ malformed)

(* "Malformed pipe contents." (KernelContext.swift:283) is an assertion: it  *)
(* fails only when a part of a write was seen before the rest.               *)
MalformedOnlyWhenTorn == malformed => torn

(* The invariant: the types, the order and the one reason to give up.        *)
RecvInv == TypeOK /\ ReceivedInOrder /\ MalformedOnlyWhenTorn
=============================================================================
