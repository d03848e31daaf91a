---------------------------- MODULE FrontEndProofs ----------------------------
(* Proofs about FrontEnd, for any number of requests, commands, lines and    *)
(* pieces of output: who gets what from the socket and the terminals.        *)
EXTENDS FrontEnd, SequenceTheorems, WellFoundedInduction, TLAPS

InRequest == at \in {"check deadline", "read reply"}
IsLine(k)  == socket[k][1] = "line"
IsReply(k) == socket[k][1] = "reply"

-----------------------------------------------------------------------------
(* The inductive invariant of the socket.                                    *)

SocketTyped ==
  /\ socket \in Seq({"reply", "line"} \X Nat) /\ entered \in Seq(Nat)
  /\ typed \in Nat /\ msg_id \in Nat /\ commands \in Nat
  /\ msg_id + commands <= MaxOperations
  /\ unanswered \subseteq 1 .. msg_id
  /\ \A k \in DOMAIN socket :
       /\ IsReply(k) => socket[k][2] \in 1 .. msg_id
       /\ IsLine(k) => socket[k][2] \in 1 .. typed

(* A request is answered once.                                               *)
RepliesOnce ==
  /\ \A j, k \in DOMAIN socket : IsReply(j) /\ socket[j] = socket[k] => j = k
  /\ \A k \in DOMAIN socket : IsReply(k) => socket[k][2] \notin unanswered

(* A request returns once: the one that waits has not returned yet.          *)
ReturnsOnce ==
  /\ InRequest => message_id \in 1 .. msg_id
  /\ \A r \in replies : r[1] \in 1 .. msg_id /\ (InRequest => r[1] # message_id)

(* What is on the socket was typed after what was entered.                   *)
LinesInOrder ==
  /\ \A j, k \in DOMAIN socket : IsLine(j) /\ IsLine(k) /\ j < k => socket[j][2] < socket[k][2]
  /\ \A i \in DOMAIN entered : entered[i] <= typed
  /\ \A i \in DOMAIN entered, k \in DOMAIN socket : IsLine(k) => entered[i] < socket[k][2]

SocketInv ==
  /\ SocketTyped /\ RepliesOnce /\ ReturnsOnce /\ OwnReplyOrNone
  /\ LinesInOrder /\ InputInOrder

-----------------------------------------------------------------------------
(* The inductive invariant of the commands.                                  *)

MonitorTyped ==
  /\ at \in {"cell", "check deadline", "read reply", "poll", "wait", "forward input",
             "end of round", "interrupt"}
  /\ output \in Seq(Nat) /\ shown \in Seq(Nat) /\ printed \in Nat
  /\ alive \in BOOLEAN /\ background \in BOOLEAN /\ echo \in {"on", "off"}
  /\ events \subseteq Event /\ registered \subseteq Event
  /\ (alive \/ background) => InCommand
  /\ (widget = "hidden") = ~InCommand

(* The monitor is right about a command that has ended and about a terminal  *)
(* that nobody holds, and reading comes after both.                          *)
HangUpSeen ==
  /\ InCommand => {"EPOLLIN", "EPOLLHUP"} \subseteq registered
  /\ terminated => ~alive /\ at \in {"wait", "forward input", "end of round"}
  /\ ~is_pty_still_connected => InCommand /\ ~alive /\ ~background
  /\ at \in {"forward input", "end of round"} /\ ~is_pty_still_connected
       /\ "EPOLLIN" \notin events => output = <<>>
  /\ result = "returned" => ~InCommand

CommandInv == MonitorTyped /\ HangUpSeen /\ OutputComplete

IInv == SocketInv /\ CommandInv
-----------------------------------------------------------------------------
(* The socket.                                                               *)

Entry == {"reply", "line"} \X Nat

LEMMA Appended ==
  ASSUME NEW S, NEW s \in Seq(S), NEW x \in S, NEW t, t = Append(s, x)
  PROVE  /\ t \in Seq(S) /\ Len(t) = Len(s) + 1 /\ t[Len(t)] = x
         /\ DOMAIN s = 1 .. Len(s) /\ DOMAIN t = 1 .. Len(t) /\ Len(s) \in Nat
         /\ \A k \in DOMAIN s : t[k] = s[k]
         /\ \A k \in DOMAIN t : k \in DOMAIN s \/ k = Len(t)
<1>1. /\ t \in Seq(S) /\ Len(t) = Len(s) + 1 /\ t[Len(t)] = x /\ Len(s) \in Nat
      /\ \A k \in 1 .. Len(s) : t[k] = s[k]
  OBVIOUS
<1>2. DOMAIN s = 1 .. Len(s) /\ DOMAIN t = 1 .. Len(t) OBVIOUS
<1> QED BY <1>1, <1>2

LEMMA Dropped ==
  ASSUME NEW S, NEW s \in Seq(S), NEW d \in 0 .. Len(s), NEW t,
         t = SubSeq(s, d + 1, Len(s))
  PROVE  /\ t \in Seq(S) /\ Len(t) = Len(s) - d
         /\ DOMAIN s = 1 .. Len(s) /\ DOMAIN t = 1 .. Len(t)
         /\ \A k \in DOMAIN t : k \in Nat /\ k >= 1 /\ k + d \in DOMAIN s /\ t[k] = s[k + d]
<1>1. Len(s) \in Nat /\ d + 1 \in 1 .. Len(s) + 1 OBVIOUS
<1>2. \A k \in d + 1 .. Len(s) : s[k] \in S OBVIOUS
<1>3. t = [k \in 1 .. Len(s) - d |-> s[k + d]] BY <1>1
<1>4. t \in Seq(S) /\ Len(t) = Len(s) - d BY <1>1, <1>2, <1>3
<1> QED BY <1>1, <1>3, <1>4

(* What a step that leaves the socket alone keeps.                           *)
LEMMA SocketKept ==
  ASSUME SocketInv, InRequest' => InRequest,
         UNCHANGED <<socket, typed, msg_id, unanswered, message_id, replies, commands, entered>>
  PROVE  SocketInv'
<1> USE DEF SocketInv
<1>1. SocketTyped' BY DEF SocketTyped, IsReply, IsLine
<1>2. RepliesOnce' BY DEF RepliesOnce, IsReply
<1>3. ReturnsOnce' BY DEF ReturnsOnce
<1>4. LinesInOrder' /\ InputInOrder' BY DEF LinesInOrder, IsLine, InputInOrder
<1>5. OwnReplyOrNone' BY DEF OwnReplyOrNone
<1> QED BY <1>1, <1>2, <1>3, <1>4, <1>5

LEMMA TypeLineKeeps ==
  ASSUME SocketInv, TypeLine
  PROVE  SocketInv'
<1> USE DEF SocketInv, TypeLine, callVars, commandVars
<1>1. typed' \in Nat /\ typed' = typed + 1 /\ <<"line", typed'>> \in Entry
  BY DEF SocketTyped, Entry
<1>2. socket \in Seq(Entry) BY DEF SocketTyped, Entry
<1>3. /\ socket' \in Seq(Entry) /\ Len(socket') = Len(socket) + 1
      /\ socket'[Len(socket')] = <<"line", typed'>>
      /\ DOMAIN socket = 1 .. Len(socket) /\ DOMAIN socket' = 1 .. Len(socket')
      /\ Len(socket) \in Nat
      /\ \A k \in DOMAIN socket : socket'[k] = socket[k]
      /\ \A k \in DOMAIN socket' : k \in DOMAIN socket \/ k = Len(socket')
  BY <1>1, <1>2, Appended
<1>4. SocketTyped' BY <1>1, <1>3 DEF SocketTyped, IsReply, IsLine, Entry
<1>5. RepliesOnce' BY <1>3 DEF RepliesOnce, IsReply
<1>6. ReturnsOnce' BY DEF ReturnsOnce, InRequest
<1>7. LinesInOrder' /\ InputInOrder'
  <2>1. \A k \in DOMAIN socket : IsLine(k) => socket[k][2] < typed'
    BY <1>1 DEF SocketTyped
  <2>2. \A i \in DOMAIN entered : entered[i] \in Nat /\ entered[i] <= typed /\ entered[i] < typed'
    BY <1>1 DEF SocketTyped, LinesInOrder
  <2>3. <<"line", typed'>>[2] = typed' OBVIOUS
  <2>4. UNCHANGED entered OBVIOUS
  <2>5. \A j, k \in DOMAIN socket' : IsLine(j)' /\ IsLine(k)' /\ j < k => socket'[j][2] < socket'[k][2]
    BY <1>3, <2>1, <2>3 DEF LinesInOrder, IsLine
  <2>6. \A i \in DOMAIN entered, k \in DOMAIN socket' : IsLine(k)' => entered[i] < socket'[k][2]
    BY <1>3, <2>2, <2>3 DEF LinesInOrder, IsLine
  <2>7. \A i \in DOMAIN entered : entered[i] <= typed' BY <1>1, <2>2 DEF SocketTyped
  <2> QED BY <2>4, <2>5, <2>6, <2>7 DEF LinesInOrder, InputInOrder
<1>8. OwnReplyOrNone' BY <1>3 DEF OwnReplyOrNone
<1> QED BY <1>4, <1>5, <1>6, <1>7, <1>8

LEMMA AnswerKeeps ==
  ASSUME SocketInv, Answer
  PROVE  SocketInv'
<1> USE DEF SocketInv
<1>1. /\ UNCHANGED <<at, isInterrupted, typed, msg_id, routed, callVars, commandVars>>
  BY DEF Answer
<1>2. PICK id \in unanswered :
        unanswered' = unanswered \ {id} /\ socket' = Append(socket, <<"reply", id>>)
  BY DEF Answer
<1>3. id \in 1 .. msg_id /\ <<"reply", id>> \in Entry BY <1>2 DEF SocketTyped, Entry
<1>4. socket \in Seq(Entry) BY DEF SocketTyped, Entry
<1>5. /\ socket' \in Seq(Entry) /\ Len(socket') = Len(socket) + 1
      /\ socket'[Len(socket')] = <<"reply", id>>
      /\ DOMAIN socket = 1 .. Len(socket) /\ DOMAIN socket' = 1 .. Len(socket')
      /\ Len(socket) \in Nat
      /\ \A k \in DOMAIN socket : socket'[k] = socket[k]
      /\ \A k \in DOMAIN socket' : k \in DOMAIN socket \/ k = Len(socket')
  BY <1>2, <1>3, <1>4, Appended
<1>6. UNCHANGED <<typed, msg_id, at, message_id, replies, commands, entered>>
  BY <1>1 DEF callVars, commandVars
<1>7. SocketTyped' BY <1>2, <1>3, <1>5, <1>6 DEF SocketTyped, IsReply, IsLine, Entry
<1>8. RepliesOnce'
  <2>1. \A k \in DOMAIN socket : IsReply(k) => socket[k] # <<"reply", id>>
    BY <1>2 DEF RepliesOnce, IsReply
  <2> QED BY <1>2, <1>5, <2>1 DEF RepliesOnce, IsReply
<1>9. ReturnsOnce' BY <1>6 DEF ReturnsOnce, InRequest
<1>10. LinesInOrder' /\ InputInOrder'
  <2>1. socket'[Len(socket')][1] # "line" BY <1>5
  <2> QED BY <1>5, <1>6, <2>1 DEF LinesInOrder, InputInOrder, IsLine
<1>11. OwnReplyOrNone'
  <2>1. \A r \in replies : r[2] # 0 => r[1] # id BY <1>2 DEF OwnReplyOrNone
  <2>2. \A r \in replies : r[2] # 0 => <<"reply", id>> # <<"reply", r[1]>> BY <2>1
  <2> QED BY SMTT(30), <1>2, <1>5, <1>6, <2>2 DEF OwnReplyOrNone
<1> QED BY <1>7, <1>8, <1>9, <1>10, <1>11
LEMMA BlockingRequestKeeps ==
  ASSUME SocketInv, BlockingRequest
  PROVE  SocketInv'
<1> USE DEF SocketInv
<1>1. /\ at = "cell" /\ at' = "check deadline" /\ msg_id + commands < MaxOperations
      /\ msg_id' = msg_id + 1 /\ message_id' = msg_id'
      /\ unanswered' = unanswered \cup {msg_id'}
      /\ UNCHANGED <<socket, typed, replies, commands, entered>>
  BY DEF BlockingRequest, commandVars
<1>2. msg_id \in Nat /\ commands \in Nat /\ MaxOperations \in Nat
  BY BoundsAssumption DEF SocketTyped
<1>3. msg_id' = msg_id + 1 BY <1>1
<1>4. /\ msg_id' \in Nat /\ msg_id' \in 1 .. msg_id' /\ 1 .. msg_id \subseteq 1 .. msg_id'
      /\ msg_id' \notin 1 .. msg_id
  <2>1. msg_id' \in Nat /\ msg_id' \in 1 .. msg_id' /\ msg_id' \notin 1 .. msg_id
    BY <1>2, <1>3
  <2>2. \A k \in 1 .. msg_id : k \in 1 .. msg_id' BY <1>2, <1>3
  <2> QED BY <2>1, <2>2
<1>5. SocketTyped'
  <2>1. msg_id' + commands' <= MaxOperations
    <3>1. commands' = commands /\ msg_id + commands < MaxOperations BY <1>1
    <3> QED BY <1>2, <1>3, <3>1
  <2> QED BY <1>1, <1>4, <2>1 DEF SocketTyped, IsReply, IsLine
<1>6. RepliesOnce'
  BY <1>1, <1>4 DEF RepliesOnce, IsReply, SocketTyped
<1>7. ReturnsOnce' BY <1>1, <1>4 DEF ReturnsOnce
<1>8. LinesInOrder' /\ InputInOrder' BY <1>1 DEF LinesInOrder, InputInOrder, IsLine
<1>9. OwnReplyOrNone' BY <1>1, <1>4 DEF OwnReplyOrNone, ReturnsOnce
<1> QED BY <1>5, <1>6, <1>7, <1>8, <1>9

(* The end of the wait, without a reply or with the one that was waited for. *)
LEMMA Returned ==
  ASSUME SocketInv, InRequest, NEW value \in {0, message_id}, Return(value)
  PROVE  /\ ~InRequest'
         /\ \A r \in replies' : r[1] \in 1 .. msg_id
         /\ \A r \in replies' : r[2] \in {r[1], 0}
         /\ \A r, s \in replies' : r[1] = s[1] => r = s
         /\ \A r \in replies' : r \in replies \/ r = <<message_id, value>>
<1>1. /\ at' = "cell" /\ replies' = replies \cup {<<message_id, value>>}
      /\ message_id \in 1 .. msg_id
      /\ \A r \in replies : r[1] \in 1 .. msg_id /\ r[1] # message_id /\ r[2] \in {r[1], 0}
      /\ \A r, s \in replies : r[1] = s[1] => r = s
  BY DEF SocketInv, ReturnsOnce, OwnReplyOrNone, Return
<1>2. <<message_id, value>>[1] = message_id /\ <<message_id, value>>[2] = value OBVIOUS
<1>3. \A r \in replies' : r \in replies \/ r = <<message_id, value>> BY <1>1
<1> QED BY <1>1, <1>2, <1>3 DEF InRequest

LEMMA CheckDeadlineKeeps ==
  ASSUME SocketInv, CheckDeadline
  PROVE  SocketInv'
<1> USE DEF SocketInv
<1>1. at = "check deadline" /\ UNCHANGED <<isInterrupted, socketVars, commandVars>>
  BY DEF CheckDeadline
<1>2. CASE at' = "read reply" /\ UNCHANGED callVars
  BY <1>1, <1>2, SocketKept DEF InRequest, socketVars, callVars, commandVars
<1>3. CASE Return(0)
  <2>1. /\ ~InRequest' /\ \A r \in replies' : r[1] \in 1 .. msg_id
        /\ \A r \in replies' : r[2] \in {r[1], 0}
        /\ \A r, s \in replies' : r[1] = s[1] => r = s
        /\ \A r \in replies' : r \in replies \/ r = <<message_id, 0>>
    BY <1>1, <1>3, Returned DEF InRequest
  <2>2. UNCHANGED <<socket, typed, msg_id, unanswered, commands, entered>>
    BY <1>1 DEF socketVars, commandVars
  <2>3. SocketTyped' /\ RepliesOnce' /\ LinesInOrder' /\ InputInOrder'
    BY <2>2 DEF SocketTyped, RepliesOnce, LinesInOrder, InputInOrder, IsReply, IsLine
  <2>4. ReturnsOnce' BY <2>1, <2>2 DEF ReturnsOnce
  <2>5. OwnReplyOrNone' BY <2>1, <2>2 DEF OwnReplyOrNone
  <2> QED BY <2>3, <2>4, <2>5
<1> QED BY <1>2, <1>3 DEF CheckDeadline

(* What is left of the socket when its first entries are taken.              *)
LEMMA SocketDropped ==
  ASSUME SocketInv, NEW d \in 0 .. Len(socket), socket' = SubSeq(socket, d + 1, Len(socket)),
         UNCHANGED <<typed, msg_id, unanswered>>
  PROVE  /\ socket' \in Seq(Entry)
         /\ \A k \in DOMAIN socket' : k \in Nat /\ k + d \in DOMAIN socket /\ socket'[k] = socket[k + d]
         /\ \A k \in DOMAIN socket' :
              /\ IsReply(k)' => socket'[k][2] \in 1 .. msg_id'
              /\ IsLine(k)' => socket'[k][2] \in 1 .. typed'
         /\ RepliesOnce'
         /\ \A j, k \in DOMAIN socket' : IsLine(j)' /\ IsLine(k)' /\ j < k => socket'[j][2] < socket'[k][2]
<1>1. socket \in Seq(Entry) BY DEF SocketInv, SocketTyped, Entry
<1>2. /\ socket' \in Seq(Entry) /\ Len(socket') = Len(socket) - d
      /\ DOMAIN socket = 1 .. Len(socket) /\ DOMAIN socket' = 1 .. Len(socket')
      /\ \A k \in DOMAIN socket' : k + d \in DOMAIN socket /\ socket'[k] = socket[k + d]
  BY <1>1, Dropped
<1>3. \A k \in DOMAIN socket' : k \in Nat BY <1>2
<1>4. d \in Nat /\ \A j, k \in DOMAIN socket' : (j < k => j + d < k + d) /\ (j + d = k + d => j = k)
  BY <1>3
<1>5. \A k \in DOMAIN socket' :
        /\ IsReply(k)' => socket'[k][2] \in 1 .. msg_id'
        /\ IsLine(k)' => socket'[k][2] \in 1 .. typed'
  BY <1>2 DEF SocketInv, SocketTyped, IsReply, IsLine
<1>6. RepliesOnce'
  <2>1. ASSUME NEW j \in DOMAIN socket', NEW k \in DOMAIN socket',
               IsReply(j)', socket'[j] = socket'[k]
        PROVE  j = k
    <3>1. /\ j + d \in DOMAIN socket /\ k + d \in DOMAIN socket
          /\ socket'[j] = socket[j + d] /\ socket'[k] = socket[k + d]
      BY <1>2
    <3>2. IsReply(j + d) /\ socket[j + d] = socket[k + d] BY <2>1, <3>1 DEF IsReply
    <3>3. j + d = k + d BY <3>1, <3>2 DEF SocketInv, RepliesOnce
    <3> QED BY <1>4, <3>3
  <2>2. ASSUME NEW k \in DOMAIN socket', IsReply(k)'
        PROVE  socket'[k][2] \notin unanswered'
    <3>1. k + d \in DOMAIN socket /\ socket'[k] = socket[k + d] BY <1>2
    <3>2. IsReply(k + d) BY <2>2, <3>1 DEF IsReply
    <3> QED BY <3>1, <3>2 DEF SocketInv, RepliesOnce
  <2> QED BY <1>4, <2>1, <2>2 DEF RepliesOnce
<1>7. \A j, k \in DOMAIN socket' : IsLine(j)' /\ IsLine(k)' /\ j < k => socket'[j][2] < socket'[k][2]
  <2> SUFFICES ASSUME NEW j \in DOMAIN socket', NEW k \in DOMAIN socket',
                      IsLine(j)', IsLine(k)', j < k
               PROVE  socket'[j][2] < socket'[k][2]
    OBVIOUS
  <2>1. j + d \in DOMAIN socket /\ k + d \in DOMAIN socket /\ j + d < k + d BY <1>2, <1>4
  <2>2. socket'[j] = socket[j + d] /\ socket'[k] = socket[k + d] BY <1>2
  <2> QED BY <2>1, <2>2 DEF SocketInv, LinesInOrder, IsLine
<1> QED BY <1>2, <1>3, <1>5, <1>6, <1>7

LEMMA ReadReplyKeeps ==
  ASSUME SocketInv, ReadReply
  PROVE  SocketInv'
<1> USE DEF SocketInv
<1>1. /\ at = "read reply" /\ InRequest
      /\ UNCHANGED <<isInterrupted, typed, msg_id, unanswered, routed, commandVars>>
      /\ socket' = IF socket = <<>> THEN <<>> ELSE Tail(socket)
  BY DEF ReadReply, InRequest
<1>2. socket \in Seq(Entry) BY DEF SocketTyped, Entry
<1>3. CASE socket = <<>>
  <2>1. UNCHANGED <<socket, callVars>> /\ at' = "check deadline" BY <1>1, <1>3 DEF ReadReply
  <2> QED BY <1>1, <2>1, SocketKept DEF InRequest, callVars, commandVars
<1>4. CASE socket # <<>>
  <2>1. /\ 1 \in 0 .. Len(socket) /\ socket' = SubSeq(socket, 1 + 1, Len(socket))
        /\ Head(socket) = socket[1] /\ 1 \in DOMAIN socket
    <3>1. Len(socket) \in Nat \ {0} BY <1>2, <1>4
    <3>2. Tail(socket) = SubSeq(socket, 2, Len(socket)) BY <1>2, <1>4
    <3>3. 1 \in 0 .. Len(socket) /\ 1 + 1 = 2 /\ 1 \in DOMAIN socket BY <1>2, <3>1
    <3>4. Head(socket) = socket[1] BY <1>2, <1>4
    <3> QED BY <1>1, <1>4, <3>2, <3>3, <3>4
  <2>2. /\ socket' \in Seq(Entry)
        /\ \A k \in DOMAIN socket' : k \in Nat /\ k + 1 \in DOMAIN socket /\ socket'[k] = socket[k + 1]
        /\ \A k \in DOMAIN socket' :
             /\ IsReply(k)' => socket'[k][2] \in 1 .. msg_id'
             /\ IsLine(k)' => socket'[k][2] \in 1 .. typed'
        /\ RepliesOnce'
        /\ \A j, k \in DOMAIN socket' : IsLine(j)' /\ IsLine(k)' /\ j < k => socket'[j][2] < socket'[k][2]
    BY <1>1, <2>1, SocketDropped
  <2>3. UNCHANGED <<typed, msg_id, unanswered, commands, entered>> BY <1>1 DEF commandVars
  <2>4. SocketTyped' BY <2>2, <2>3 DEF SocketTyped, Entry
  <2>5. LinesInOrder' /\ InputInOrder'
    BY <2>2, <2>3 DEF LinesInOrder, InputInOrder, IsLine
  <2>6. CASE Head(socket) = <<"reply", message_id>> /\ Return(message_id)
    <3>1. /\ ~InRequest' /\ \A r \in replies' : r[1] \in 1 .. msg_id
          /\ \A r \in replies' : r[2] \in {r[1], 0}
          /\ \A r, s \in replies' : r[1] = s[1] => r = s
          /\ \A r \in replies' : r \in replies \/ r = <<message_id, message_id>>
      BY <1>1, <2>6, Returned
    <3>2. ReturnsOnce' BY <2>3, <3>1 DEF ReturnsOnce
    <3>3. IsReply(1) /\ socket[1][2] = message_id BY <2>1, <2>6 DEF IsReply
    <3>4. message_id \notin unanswered BY <2>1, <3>3 DEF RepliesOnce
    <3>5. \A k \in DOMAIN socket' : socket'[k] # <<"reply", message_id>>
      <4> SUFFICES ASSUME NEW k \in DOMAIN socket', socket'[k] = <<"reply", message_id>>
                   PROVE  FALSE
        OBVIOUS
      <4>1. k \in Nat /\ k + 1 \in DOMAIN socket /\ socket[k + 1] = socket[1]
        BY <2>1, <2>2, <2>6
      <4>2. k + 1 = 1 BY <2>1, <3>3, <4>1 DEF RepliesOnce
      <4>3. k = 0 BY <4>1, <4>2
      <4>4. 0 \notin DOMAIN socket' BY <2>2
      <4> QED BY <4>3, <4>4
    <3>6. \A r \in replies : r[2] # 0 => \A k \in DOMAIN socket' : socket'[k] # <<"reply", r[1]>>
      BY <2>2 DEF OwnReplyOrNone
    <3>7. OwnReplyOrNone'
      BY <2>3, <3>1, <3>4, <3>5, <3>6 DEF OwnReplyOrNone
    <3> QED BY <2>2, <2>4, <2>5, <3>2, <3>7
  <2>7. CASE at' = "check deadline" /\ UNCHANGED callVars
    <3>1. ReturnsOnce' BY <1>1, <2>3, <2>7 DEF ReturnsOnce, InRequest, callVars
    <3>2. OwnReplyOrNone' BY <2>2, <2>3, <2>7 DEF OwnReplyOrNone, callVars
    <3> QED BY <2>2, <2>4, <2>5, <3>1, <3>2
  <2> QED BY <1>4, <2>6, <2>7 DEF ReadReply
<1> QED BY <1>3, <1>4
(* A set of natural numbers has a least element.                             *)
LEMMA LeastOf ==
  ASSUME NEW T, T \subseteq Nat, T # {}
  PROVE  \E x \in T : \A y \in T : x <= y
<1>1. PICK x \in T : \A y \in T : <<y, x>> \notin OpToRel(<, Nat)
  BY NatLessThanWellFounded, WFMin
<1>2. \A y \in T : ~(y < x) BY <1>1 DEF OpToRel
<1>3. \A y \in T : x <= y BY <1>2
<1> QED BY <1>3

(* The line that is forwarded is the first on the socket.                    *)
LEMMA FirstOfLines ==
  ASSUME SocketInv, Lines # {}
  PROVE  /\ FirstLine \in DOMAIN socket /\ FirstLine \in Nat /\ IsLine(FirstLine)
         /\ \A k \in Lines : FirstLine <= k
<1>1. socket \in Seq(Entry) BY DEF SocketInv, SocketTyped, Entry
<1>2. Lines \subseteq Nat /\ Lines \subseteq DOMAIN socket BY <1>1 DEF Lines
<1>3. \E k \in Lines : \A l \in Lines : k <= l BY <1>2, LeastOf
<1>4. FirstLine \in Lines /\ \A k \in Lines : FirstLine <= k BY <1>3 DEF FirstLine
<1> QED BY <1>2, <1>4 DEF Lines, IsLine

LEMMA ForwardInputKeeps ==
  ASSUME SocketInv, ForwardInput
  PROVE  SocketInv'
<1> USE DEF SocketInv
<1>1. /\ at = "forward input" /\ at' = "end of round"
      /\ UNCHANGED <<typed, msg_id, unanswered, message_id, replies, commands>>
  BY DEF ForwardInput, callVars
<1>2. ~InRequest /\ ~InRequest' BY <1>1 DEF InRequest
<1>3. socket \in Seq(Entry) /\ Len(socket) \in Nat BY DEF SocketTyped, Entry
<1>4. ASSUME NEW d \in 0 .. Len(socket), socket' = SubSeq(socket, d + 1, Len(socket)),
             entered' \in Seq(Nat),
             \A i \in DOMAIN entered' : entered'[i] <= typed,
             \A i \in DOMAIN entered', k \in DOMAIN socket' : IsLine(k)' => entered'[i] < socket'[k][2],
             InputInOrder'
      PROVE  SocketInv'
  <2>1. /\ socket' \in Seq(Entry)
        /\ \A k \in DOMAIN socket' : k \in Nat /\ k + d \in DOMAIN socket /\ socket'[k] = socket[k + d]
        /\ \A k \in DOMAIN socket' :
             /\ IsReply(k)' => socket'[k][2] \in 1 .. msg_id'
             /\ IsLine(k)' => socket'[k][2] \in 1 .. typed'
        /\ RepliesOnce'
        /\ \A j, k \in DOMAIN socket' : IsLine(j)' /\ IsLine(k)' /\ j < k => socket'[j][2] < socket'[k][2]
    BY <1>1, <1>4, SocketDropped
  <2>2. SocketTyped' BY <1>1, <1>4, <2>1 DEF SocketTyped, Entry
  <2>3. LinesInOrder' BY <1>1, <1>4, <2>1 DEF LinesInOrder
  <2>4. ReturnsOnce' BY <1>1, <1>2 DEF ReturnsOnce
  <2>5. OwnReplyOrNone' BY ZenonT(30), <1>1, <2>1 DEF OwnReplyOrNone
  <2> QED BY <1>4, <2>1, <2>2, <2>3, <2>4, <2>5
<1>5. CASE UNCHANGED <<socket, entered>>
  BY <1>1, <1>2, <1>5, SocketKept
<1>6. CASE Lines = {} /\ socket' = <<>> /\ UNCHANGED entered
  <2>1. Len(socket) \in 0 .. Len(socket) /\ socket' = SubSeq(socket, Len(socket) + 1, Len(socket))
    BY <1>3, <1>6
  <2>2. DOMAIN socket' = {} BY <1>6
  <2>3. /\ entered' \in Seq(Nat) /\ InputInOrder'
        /\ \A i \in DOMAIN entered' : entered'[i] <= typed
    BY <1>6 DEF SocketTyped, LinesInOrder, InputInOrder
  <2> QED BY <1>4, <2>1, <2>2, <2>3
<1>7. CASE /\ Lines # {}
           /\ socket' = SubSeq(socket, FirstLine + 1, Len(socket))
           /\ entered' = Append(entered, socket[FirstLine][2])
  <2> DEFINE f == FirstLine
             x == socket[f][2]
  <2>1. f \in DOMAIN socket /\ f \in Nat /\ IsLine(f) /\ f \in 0 .. Len(socket)
    BY <1>3, <1>7, FirstOfLines
  <2>2. x \in 1 .. typed /\ x \in Nat /\ x <= typed BY <2>1 DEF SocketTyped
  <2>3. entered \in Seq(Nat) BY DEF SocketTyped
  <2>4. /\ entered' \in Seq(Nat) /\ Len(entered') = Len(entered) + 1
        /\ entered'[Len(entered')] = x
        /\ DOMAIN entered = 1 .. Len(entered) /\ DOMAIN entered' = 1 .. Len(entered')
        /\ Len(entered) \in Nat
        /\ \A k \in DOMAIN entered : entered'[k] = entered[k]
        /\ \A k \in DOMAIN entered' : k \in DOMAIN entered \/ k = Len(entered')
    BY <1>7, <2>2, <2>3, Appended
  <2>5. /\ socket' = SubSeq(socket, f + 1, Len(socket))
        /\ \A k \in DOMAIN socket' :
             k \in Nat /\ k >= 1 /\ k + f \in DOMAIN socket /\ socket'[k] = socket[k + f]
    BY <1>3, <1>7, <2>1, Dropped
  <2>6. \A i \in DOMAIN entered : entered[i] < x BY <2>1 DEF LinesInOrder
  <2> HIDE DEF f, x
  <2>7. \A i \in DOMAIN entered' : entered'[i] <= typed
    BY <2>2, <2>4 DEF LinesInOrder
  <2>8. InputInOrder'
    <3> SUFFICES ASSUME NEW i \in DOMAIN entered', NEW j \in DOMAIN entered', i < j
                 PROVE  entered'[i] < entered'[j]
      BY DEF InputInOrder
    <3>1. i \in DOMAIN entered BY <2>4
    <3>2. CASE j \in DOMAIN entered BY <2>4, <3>1, <3>2 DEF InputInOrder
    <3>3. CASE j = Len(entered') BY <2>4, <2>6, <3>1, <3>3
    <3> QED BY <2>4, <3>2, <3>3
  <2>9. ASSUME NEW i \in DOMAIN entered', NEW k \in DOMAIN socket', IsLine(k)'
        PROVE  entered'[i] < socket'[k][2]
    <3>1. k + f \in DOMAIN socket /\ socket'[k] = socket[k + f] /\ k \in Nat /\ k >= 1
      BY <2>5, <2>9
    <3>2. IsLine(k + f) BY <2>9, <3>1 DEF IsLine
    <3>3. f < k + f BY <2>1, <3>1
    <3>4. x < socket[k + f][2] BY <2>1, <3>1, <3>2, <3>3 DEF LinesInOrder, x
    <3>5. CASE i \in DOMAIN entered
      BY <2>4, <3>1, <3>2, <3>5 DEF LinesInOrder
    <3>6. CASE i = Len(entered') BY <2>4, <3>1, <3>4, <3>6
    <3> QED BY <2>4, <3>5, <3>6
  <2> QED BY <1>4, <2>1, <2>4, <2>5, <2>7, <2>8, <2>9
<1> QED BY <1>5, <1>6, <1>7 DEF ForwardInput
LEMMA SocketStep == SocketInv /\ [Next]_vars => SocketInv'
<1> SUFFICES ASSUME SocketInv, [Next]_vars PROVE SocketInv'
  OBVIOUS
<1> USE DEF socketVars, callVars, commandVars
<1>1. CASE UNCHANGED vars
  BY <1>1, SocketKept DEF vars, InRequest
<1>2. CASE \/ Expire \/ Interrupt \/ PrintPiece \/ CommandSteps \/ BeginCell
  BY <1>2, SocketKept DEF Expire, Interrupt, PrintPiece, CommandSteps, BeginCell, InRequest
<1>3. CASE Poll \/ ReadEvents \/ EndRound \/ GiveUp
  <2>1. ~InRequest' BY <1>3 DEF Poll, ReadEvents, EndRound, GiveUp, InRequest
  <2> QED BY <1>3, <2>1, SocketKept DEF Poll, ReadEvents, EndRound, GiveUp
<1>4. CASE RunCommand
  <2>1. /\ at' = "poll" /\ commands' = commands + 1 /\ msg_id + commands < MaxOperations
        /\ UNCHANGED <<socket, typed, msg_id, unanswered, message_id, replies, entered>>
    BY <1>4 DEF RunCommand
  <2>2. msg_id \in Nat /\ commands \in Nat /\ MaxOperations \in Nat
    BY BoundsAssumption DEF SocketInv, SocketTyped
  <2>3. commands' \in Nat /\ msg_id' + commands' <= MaxOperations BY <2>1, <2>2
  <2>4. SocketTyped' BY <2>1, <2>3 DEF SocketInv, SocketTyped, IsReply, IsLine
  <2>5. RepliesOnce' /\ LinesInOrder' /\ InputInOrder'
    BY <2>1 DEF SocketInv, RepliesOnce, LinesInOrder, InputInOrder, IsReply, IsLine
  <2>6. ReturnsOnce' /\ OwnReplyOrNone'
    BY <2>1 DEF SocketInv, ReturnsOnce, OwnReplyOrNone, InRequest
  <2> QED BY <2>4, <2>5, <2>6 DEF SocketInv
<1> QED
  BY <1>1, <1>2, <1>3, <1>4, TypeLineKeeps, AnswerKeeps, BlockingRequestKeeps,
     CheckDeadlineKeeps, ReadReplyKeeps, ForwardInputKeeps DEF Next, Kernel

-----------------------------------------------------------------------------
(* The commands.                                                             *)

(* What a step that leaves the command and its monitor alone keeps.          *)
LEMMA CommandKept ==
  ASSUME CommandInv, at' = at \/ (~InCommand /\ at' \in {"cell", "check deadline", "read reply"}),
         UNCHANGED <<alive, background, echo, printed, output, shown, monitorVars, result>>
  PROVE  CommandInv'
<1> USE DEF CommandInv, monitorVars
<1>1. InCommand' = InCommand BY DEF InCommand
<1>2. MonitorTyped' BY <1>1 DEF MonitorTyped
<1>3. HangUpSeen' BY <1>1 DEF HangUpSeen, InCommand
<1>4. OutputComplete' BY DEF OutputComplete
<1> QED BY <1>2, <1>3, <1>4

LEMMA PrintPieceKeeps ==
  ASSUME CommandInv, PrintPiece
  PROVE  CommandInv'
<1> USE DEF CommandInv
<1>1. /\ (alive \/ background)
      /\ printed' = printed + 1 /\ output' = Append(output, printed')
      /\ UNCHANGED <<at, alive, background, echo, shown, monitorVars, result>>
  BY DEF PrintPiece
<1>2. printed \in Nat /\ output \in Seq(Nat) /\ shown \in Seq(Nat)
  BY DEF MonitorTyped
<1>8. printed' \in Nat BY <1>1, <1>2
<1>3. output' \in Seq(Nat) BY <1>1, <1>2, <1>8
<1>4. InCommand' = InCommand BY <1>1 DEF InCommand
<1>5. MonitorTyped'
  <2>1. /\ at' = at /\ echo' = echo /\ widget' = widget /\ shown' = shown
        /\ alive' = alive /\ background' = background
        /\ events' = events /\ registered' = registered
    BY <1>1 DEF monitorVars
  <2> QED BY <1>2, <1>3, <1>4, <1>8, <2>1 DEF MonitorTyped
<1>6. HangUpSeen' BY <1>1, <1>4 DEF HangUpSeen, monitorVars
<1>7. OutputComplete'
  <2>1. shown \o output = [k \in 1 .. printed |-> k] BY DEF OutputComplete
  <2>2. shown' \o output' = Append(shown \o output, printed') BY <1>1, <1>2
  <2>3. Append([k \in 1 .. printed |-> k], printed') = [k \in 1 .. printed' |-> k] BY <1>1,
                                                                                      <1>2
  <2>4. result' # "returned" BY <1>1 DEF OutputComplete
  <2> QED BY <2>1, <2>2, <2>3, <2>4 DEF OutputComplete
<1> QED BY <1>5, <1>6, <1>7

LEMMA CommandStepsKeeps ==
  ASSUME CommandInv, CommandSteps
  PROVE  CommandInv'
<1> USE DEF CommandInv
<1>1. /\ (alive \/ background)
      /\ alive' \in BOOLEAN /\ background' \in BOOLEAN /\ echo' \in {"on", "off"}
      /\ UNCHANGED <<at, printed, output, shown, monitorVars, result>>
  BY DEF CommandSteps, MonitorTyped, Other
<1>2. InCommand /\ InCommand' = InCommand BY <1>1 DEF InCommand, MonitorTyped
<1>3. MonitorTyped' BY <1>1, <1>2 DEF MonitorTyped, monitorVars
<1>4. (terminated => ~alive') /\ is_pty_still_connected
  BY <1>1 DEF CommandSteps, HangUpSeen
<1>5. HangUpSeen' BY <1>1, <1>2, <1>4 DEF HangUpSeen, monitorVars
<1>6. result # "returned" BY <1>1 DEF OutputComplete
<1>7. OutputComplete' BY <1>1, <1>6 DEF OutputComplete
<1> QED BY <1>3, <1>5, <1>7

LEMMA RunCommandKeeps ==
  ASSUME CommandInv, RunCommand
  PROVE  CommandInv'
<1> USE DEF CommandInv, RunCommand, Event
<1>1. InCommand' BY DEF InCommand
<1>2. MonitorTyped'
  <2>1. /\ at' = "poll" /\ output' \in Seq(Nat) /\ shown' \in Seq(Nat) /\ printed' \in Nat
        /\ echo' \in {"on", "off"} /\ registered' \subseteq Event /\ widget' # "hidden"
    OBVIOUS
  <2>3. alive' \in BOOLEAN /\ background' \in BOOLEAN
    <3>1. alive' = TRUE /\ background' = FALSE OBVIOUS
    <3> QED BY <3>1
  <2>2. events' \subseteq Event BY DEF MonitorTyped
  <2> QED BY <1>1, <2>1, <2>2, <2>3 DEF MonitorTyped
<1>3. HangUpSeen'
  <2>1. terminated' = FALSE BY DEF HangUpSeen, MonitorTyped
  <2> QED BY <1>1, <2>1 DEF HangUpSeen, None
<1>4. OutputComplete'
  <2>1. <<>> \o <<>> = [k \in 1 .. 0 |-> k] OBVIOUS
  <2> QED BY <2>1 DEF OutputComplete, None
<1> QED BY <1>2, <1>3, <1>4

LEMMA PollKeeps ==
  ASSUME CommandInv, Poll
  PROVE  CommandInv'
<1> USE DEF CommandInv, Poll, processVars
<1>1. InCommand /\ InCommand' BY DEF InCommand
<1>2. MonitorTyped' BY <1>1 DEF MonitorTyped
<1>3. HangUpSeen' BY <1>1 DEF HangUpSeen, Event, MonitorTyped
<1>4. OutputComplete' BY DEF OutputComplete
<1> QED BY <1>2, <1>3, <1>4

LEMMA Associative == \A s, t, u \in Seq(Nat) : (s \o t) \o u = s \o (t \o u)
  BY SMTT(30), ConcatAssociative

(* A read moves the first n pieces.                                          *)
LEMMA ReadPart ==
  ASSUME NEW s \in Seq(Nat), NEW t \in Seq(Nat), NEW n \in 1 .. Len(t)
  PROVE  /\ s \o SubSeq(t, 1, n) \in Seq(Nat) /\ SubSeq(t, n + 1, Len(t)) \in Seq(Nat)
         /\ (s \o SubSeq(t, 1, n)) \o SubSeq(t, n + 1, Len(t)) = s \o t
<1>0. Len(t) \in Nat OBVIOUS
<1>1. SubSeq(t, 1, n) \in Seq(Nat) /\ SubSeq(t, n + 1, Len(t)) \in Seq(Nat)
  OBVIOUS
<1>2. SubSeq(t, 1, n) \o SubSeq(t, n + 1, Len(t)) = t
  <2>1. 1 \in 1 .. Len(t) + 1 /\ n \in 1 - 1 .. Len(t) /\ Len(t) \in n .. Len(t) BY <1>0
  <2>2. SubSeq(t, 1, n) \o SubSeq(t, n + 1, Len(t)) = SubSeq(t, 1, Len(t))
    BY <2>1, ConcatAdjacentSubSeq
  <2> QED BY <2>2, SubSeqFull
<1> DEFINE a == SubSeq(t, 1, n)
           b == SubSeq(t, n + 1, Len(t))
<1>3. a \in Seq(Nat) /\ b \in Seq(Nat) /\ a \o b = t BY <1>1, <1>2
<1> HIDE DEF a, b
<1>4. (s \o a) \o b = s \o (a \o b)
  <2>1. a \in Seq(Nat) /\ b \in Seq(Nat) BY <1>3
  <2> QED BY <2>1, Associative
<1>5. s \o a \in Seq(Nat) BY <1>3
<1>6. /\ s \o a \in Seq(Nat) /\ b \in Seq(Nat) /\ (s \o a) \o b = s \o t
  BY <1>3, <1>4, <1>5
<1> QED BY <1>6 DEF a, b

LEMMA ReadEventsKeeps ==
  ASSUME CommandInv, ReadEvents
  PROVE  CommandInv'
<1> USE DEF CommandInv
<1>1. /\ at = "wait" /\ at' = "forward input" /\ events' = Ready \cap registered
      /\ is_pty_still_connected' = (is_pty_still_connected /\ "EPOLLHUP" \notin events')
      /\ UNCHANGED <<alive, background, echo, printed, terminated, registered, widget, result>>
  BY DEF ReadEvents, processVars
<1>2. InCommand /\ InCommand' BY <1>1 DEF InCommand
<1>3. output \in Seq(Nat) /\ shown \in Seq(Nat) BY DEF MonitorTyped
<1>4. /\ output' \in Seq(Nat) /\ shown' \in Seq(Nat) /\ shown' \o output' = shown \o output
      /\ "EPOLLIN" \notin events' => output' = output
  <2>1. CASE UNCHANGED <<shown, output>> BY <1>3, <2>1
  <2>2. CASE "EPOLLIN" \in events'
    <3>1. PICK n \in 1 .. Len(output) :
            /\ shown' = shown \o SubSeq(output, 1, n)
            /\ output' = SubSeq(output, n + 1, Len(output))
      BY <2>2 DEF ReadEvents
    <3> QED BY <1>3, <2>2, <3>1, ReadPart
  <2> QED BY <2>1, <2>2 DEF ReadEvents
<1>5. MonitorTyped' BY <1>1, <1>2, <1>4 DEF MonitorTyped
<1>6. HangUpSeen'
  <2>1. "EPOLLIN" \in registered /\ "EPOLLHUP" \in registered BY <1>2 DEF HangUpSeen
  <2>2. ~is_pty_still_connected' => ~alive /\ ~background
    BY <1>1 DEF HangUpSeen, Ready
  <2>3. "EPOLLIN" \notin events' => output = <<>> BY <1>1, <2>1 DEF Ready
  <2>4. "EPOLLIN" \notin events' => output' = <<>> BY <1>4, <2>3
  <2> QED BY <1>1, <1>2, <2>2, <2>4 DEF HangUpSeen
<1>7. OutputComplete' BY <1>1, <1>2, <1>4 DEF OutputComplete, HangUpSeen
<1> QED BY <1>5, <1>6, <1>7

LEMMA ForwardInputCommand ==
  ASSUME CommandInv, ForwardInput
  PROVE  CommandInv'
<1> USE DEF CommandInv, processVars, monitorVars
<1>1. /\ at = "forward input" /\ at' = "end of round"
      /\ UNCHANGED <<alive, background, echo, printed, output, shown, terminated, registered,
                     events, is_pty_still_connected, widget, result>>
  BY DEF ForwardInput
<1>2. InCommand /\ InCommand' BY <1>1 DEF InCommand
<1>3. MonitorTyped' BY <1>1, <1>2 DEF MonitorTyped
<1>4. HangUpSeen' BY <1>1, <1>2 DEF HangUpSeen
<1>5. OutputComplete' BY <1>1 DEF OutputComplete
<1> QED BY <1>3, <1>4, <1>5

LEMMA EndRoundKeeps ==
  ASSUME CommandInv, EndRound
  PROVE  CommandInv'
<1> USE DEF CommandInv
<1>1. /\ at = "end of round" /\ terminated' = FALSE /\ events' = {}
      /\ UNCHANGED <<alive, background, printed, output, shown>>
  BY DEF EndRound
<1>2. InCommand BY <1>1 DEF InCommand
<1>3. CASE Over
  <2>1. /\ at' = "cell" /\ result' = "returned" /\ registered' = {}
        /\ is_pty_still_connected' = TRUE /\ echo' = "on" /\ widget' = "hidden"
    BY <1>3 DEF EndRound, CloseTerminal
  <2>2. ~alive /\ ~background /\ output = <<>> BY <1>1, <1>3 DEF Over, HangUpSeen
  <2>3. ~InCommand' BY <2>1 DEF InCommand
  <2>4. MonitorTyped' BY <1>1, <2>1, <2>2, <2>3 DEF MonitorTyped
  <2>5. HangUpSeen' BY <1>1, <2>1, <2>3 DEF HangUpSeen
  <2>6. OutputComplete' BY <1>1, <2>2 DEF OutputComplete
  <2> QED BY <2>4, <2>5, <2>6
<1>4. CASE ~Over
  <2>1. /\ at' \in {"interrupt", "poll"} /\ widget' = echo
        /\ UNCHANGED <<result, echo, registered, is_pty_still_connected>>
    BY <1>4 DEF EndRound
  <2>2. InCommand' BY <2>1 DEF InCommand
  <2>3. MonitorTyped' BY <1>1, <2>1, <2>2 DEF MonitorTyped
  <2>4. HangUpSeen' BY <1>1, <1>2, <2>1, <2>2 DEF HangUpSeen
  <2>5. OutputComplete' BY <1>1, <2>1 DEF OutputComplete
  <2> QED BY <2>3, <2>4, <2>5
<1> QED BY <1>3, <1>4

LEMMA GiveUpKeeps ==
  ASSUME CommandInv, GiveUp
  PROVE  CommandInv'
<1> USE DEF CommandInv, GiveUp, CloseTerminal
<1>1. ~InCommand' BY DEF InCommand
<1>2. MonitorTyped'
  <2>1. /\ at' = "cell" /\ output' \in Seq(Nat) /\ shown' \in Seq(Nat) /\ printed' \in Nat
        /\ alive' = FALSE /\ background' = FALSE /\ echo' \in {"on", "off"}
        /\ registered' \subseteq Event /\ widget' = "hidden"
    OBVIOUS
  <2>2. events' \subseteq Event BY DEF MonitorTyped
  <2> QED BY <1>1, <2>1, <2>2 DEF MonitorTyped
<1>3. HangUpSeen' BY <1>1 DEF HangUpSeen
<1>4. OutputComplete'
  <2>1. <<>> \o <<>> = [k \in 1 .. 0 |-> k] OBVIOUS
  <2> QED BY <2>1 DEF OutputComplete
<1> QED BY <1>2, <1>3, <1>4

LEMMA CommandStep == CommandInv /\ [Next]_vars => CommandInv'
<1> SUFFICES ASSUME CommandInv, [Next]_vars PROVE CommandInv'
  OBVIOUS
<1> USE DEF commandVars, processVars
<1>1. CASE UNCHANGED vars \/ TypeLine \/ Answer \/ Expire \/ Interrupt \/ BeginCell
  BY <1>1, CommandKept DEF vars, TypeLine, Answer, Expire, Interrupt, BeginCell
<1>2. CASE BlockingRequest \/ CheckDeadline \/ ReadReply
  <2>1. ~InCommand /\ at' \in {"cell", "check deadline", "read reply"}
    BY <1>2 DEF BlockingRequest, CheckDeadline, ReadReply, Return, InCommand
  <2> QED BY <1>2, <2>1, CommandKept DEF BlockingRequest, CheckDeadline, ReadReply
<1> QED
  BY <1>1, <1>2, PrintPieceKeeps, CommandStepsKeeps, RunCommandKeeps, PollKeeps,
     ReadEventsKeeps, ForwardInputCommand, EndRoundKeeps, GiveUpKeeps DEF Next, Kernel

-----------------------------------------------------------------------------
(* The theorems.                                                             *)

LEMMA InitInvariant == Init => IInv
<1> SUFFICES ASSUME Init PROVE IInv
  OBVIOUS
<1> USE DEF Init
<1>1. SocketTyped BY BoundsAssumption DEF SocketTyped, IsReply, IsLine
<1>2. RepliesOnce /\ ReturnsOnce /\ OwnReplyOrNone
  BY DEF RepliesOnce, ReturnsOnce, OwnReplyOrNone, InRequest
<1>3. LinesInOrder /\ InputInOrder BY DEF LinesInOrder, InputInOrder
<1>4. ~InCommand BY DEF InCommand
<1>5. MonitorTyped
  <2>1. alive \in BOOLEAN /\ background \in BOOLEAN /\ ~alive /\ ~background OBVIOUS
  <2>2. /\ output \in Seq(Nat) /\ shown \in Seq(Nat) /\ printed \in Nat
        /\ at = "cell" /\ echo = "on" /\ widget = "hidden"
        /\ events \subseteq Event /\ registered \subseteq Event
    OBVIOUS
  <2> QED BY <1>4, <2>1, <2>2 DEF MonitorTyped
<1>6. HangUpSeen BY <1>4 DEF HangUpSeen, None
<1>7. OutputComplete
  <2>1. <<>> \o <<>> = [k \in 1 .. 0 |-> k] OBVIOUS
  <2> QED BY <2>1 DEF OutputComplete, None
<1> QED BY <1>1, <1>2, <1>3, <1>5, <1>6, <1>7 DEF IInv, SocketInv, CommandInv

LEMMA Invariant == Spec => []IInv
<1>1. IInv /\ [Next]_vars => IInv' BY SocketStep, CommandStep DEF IInv
<1> QED BY InitInvariant, <1>1, PTL DEF Spec

(* However late the front end's replies come and whoever reads them first, a *)
(* request of read_reply_from_input returns its own reply or none, once.     *)
THEOREM OwnReplies == Spec => []OwnReplyOrNone
<1>1. IInv => OwnReplyOrNone BY DEF IInv, SocketInv
<1> QED BY <1>1, Invariant, PTL

(* _monitor_process over any number of rounds and commands: the lines of the *)
(* user are written in order and once each; what a command prints is shown   *)
(* in order, and all of it was shown when the command returned, which nobody *)
(* who could print outlives.                                                 *)
THEOREM TerminalsAreFaithful == Spec => []TerminalInv
<1>1. IInv => TypeOK
  <2> SUFFICES ASSUME IInv PROVE TypeOK
    OBVIOUS
  <2>1. SocketTyped /\ MonitorTyped BY DEF IInv, SocketInv, CommandInv
  <2>2. ASSUME NEW k \in DOMAIN socket
        PROVE  socket[k] \in ({"reply"} \X (1 .. msg_id)) \cup ({"line"} \X (1 .. typed))
    <3>1. socket[k] \in {"reply", "line"} \X Nat BY <2>1 DEF SocketTyped
    <3>2. socket[k] = <<socket[k][1], socket[k][2]>> BY <3>1
    <3>3. CASE socket[k][1] = "reply"
      BY <2>1, <3>2, <3>3 DEF SocketTyped, IsReply
    <3>4. CASE socket[k][1] = "line"
      BY <2>1, <3>2, <3>4 DEF SocketTyped, IsLine
    <3> QED BY <3>1, <3>3, <3>4
  <2>3. msg_id \in 0 .. MaxOperations
    <3>1. /\ msg_id \in Nat /\ commands \in Nat /\ MaxOperations \in Nat
          /\ msg_id + commands <= MaxOperations
      BY <2>1, BoundsAssumption DEF SocketTyped
    <3> QED BY <3>1
  <2> QED BY <2>1, <2>2, <2>3 DEF TypeOK, SocketTyped, MonitorTyped
<1>2. IInv => InputInOrder /\ OutputComplete BY DEF IInv, SocketInv, CommandInv
<1>3. IInv => TerminalInv BY <1>1, <1>2 DEF TerminalInv
<1> QED BY <1>3, Invariant, PTL

(* Only a request that waits for its reply takes a line from a later command *)
(* (the comment at HandleIO.swift:295-299): _read_stdin_message skips what   *)
(* is before the line that it returns, and no line is among it.              *)
LEMMA KeptInStep ==
  ASSUME SocketInv, [Next]_vars, NEW n \in Nat, n \in Waiting, n \notin Waiting',
         ~ReadReply
  PROVE  n \in Typed'
<1>1. PICK i \in DOMAIN socket : socket[i] = <<"line", n>> BY DEF Waiting
<1>2. n \in 1 .. typed /\ typed \in Nat /\ socket \in Seq(Entry)
  BY DEF Waiting, SocketInv, SocketTyped, Entry
<1>3. ASSUME n \in 1 .. typed', NEW j \in DOMAIN socket', socket'[j] = <<"line", n>>
      PROVE  FALSE
  BY <1>3 DEF Waiting
<1>9. socket[i][1] = "line" /\ socket[i][2] = n BY <1>1
<1> USE DEF socketVars, callVars, commandVars
<1>4. CASE UNCHANGED <<socket, typed>>
  BY <1>1, <1>2, <1>3, <1>4
<1>5. CASE TypeLine \/ Answer
  <2>0. unanswered \subseteq Nat BY DEF SocketInv, SocketTyped
  <2>1. PICK e \in Entry : socket' = Append(socket, e) /\ typed' \in {typed, typed + 1}
    <3>1. CASE TypeLine
      <4>1. socket' = Append(socket, <<"line", typed + 1>>) /\ typed' = typed + 1
        BY <3>1 DEF TypeLine
      <4>2. <<"line", typed + 1>> \in Entry BY <1>2 DEF Entry
      <4> QED BY <4>1, <4>2
    <3>2. CASE Answer
      <4>1. PICK id \in unanswered : socket' = Append(socket, <<"reply", id>>) /\ typed' = typed
        BY <3>2 DEF Answer
      <4>2. <<"reply", id>> \in Entry BY <2>0 DEF Entry
      <4> QED BY <4>1, <4>2
    <3> QED BY <1>5, <3>1, <3>2
  <2>2. i \in DOMAIN socket' /\ socket'[i] = <<"line", n>>
    <3>1. /\ DOMAIN socket = 1 .. Len(socket) /\ DOMAIN socket' = 1 .. Len(socket')
          /\ Len(socket) \in Nat /\ Len(socket') = Len(socket) + 1
          /\ \A k \in DOMAIN socket : socket'[k] = socket[k]
      BY <1>2, <2>1, Appended
    <3> QED BY <1>1, <3>1
  <2>3. n \in 1 .. typed' BY <1>2, <2>1
  <2> QED BY <1>3, <2>2, <2>3
<1>6. CASE ForwardInput
  <2>1. i \in Lines BY <1>9 DEF Lines
  <2>2. CASE UNCHANGED <<socket, entered>> BY <1>4, <1>6, <2>2 DEF ForwardInput
  <2>3. CASE /\ socket' = SubSeq(socket, FirstLine + 1, Len(socket))
             /\ entered' = Append(entered, socket[FirstLine][2])
    <3> DEFINE f == FirstLine
    <3>0. f \in DOMAIN socket /\ f \in Nat /\ f <= i BY <2>1, FirstOfLines
    <3> HIDE DEF f
    <3>5. typed' = typed BY <1>6 DEF ForwardInput
    <3>6. DOMAIN socket = 1 .. Len(socket) /\ Len(socket) \in Nat BY <1>2
    <3>1. /\ f \in DOMAIN socket /\ f \in Nat /\ f <= i /\ typed' = typed
          /\ DOMAIN socket = 1 .. Len(socket) /\ Len(socket) \in Nat
      BY <3>0, <3>5, <3>6
    <3>2. entered \in Seq(Nat) /\ socket[f][2] \in Nat
      <4>1. socket[f] \in Entry BY <1>2, <3>1
      <4>2. socket[f][2] \in Nat BY <4>1 DEF Entry
      <4> QED BY <4>2 DEF SocketInv, SocketTyped
    <3>3. CASE f = i
      <4>1. /\ Len(entered') \in DOMAIN entered'
            /\ entered'[Len(entered')] = socket[f][2]
        <5>1. entered' = Append(entered, socket[f][2]) BY <2>3 DEF f
        <5>2. /\ Len(entered') = Len(entered) + 1 /\ entered'[Len(entered')] = socket[f][2]
              /\ DOMAIN entered' = 1 .. Len(entered') /\ Len(entered) \in Nat
          BY <3>2, <5>1, Appended
        <5> QED BY <5>2
      <4>2. entered'[Len(entered')] = n BY <1>9, <3>3, <4>1
      <4>3. n \in 1 .. typed' BY <1>2, <3>1
      <4> QED BY <4>1, <4>2, <4>3 DEF Typed
    <3>4. CASE f # i
      <4>1. f \in 0 .. Len(socket) BY <3>1
      <4>2. socket' = SubSeq(socket, f + 1, Len(socket)) BY <2>3 DEF f
      <4>3. /\ Len(socket') = Len(socket) - f /\ DOMAIN socket' = 1 .. Len(socket')
            /\ \A k \in DOMAIN socket' : socket'[k] = socket[k + f]
        BY <1>2, <4>1, <4>2, Dropped, SMTT(30)
      <4>4. i - f \in DOMAIN socket' /\ (i - f) + f = i BY <1>1, <3>1, <3>4, <4>3
      <4>5. socket'[i - f] = <<"line", n>> BY <1>1, <4>3, <4>4
      <4> QED BY <1>2, <1>3, <3>1, <4>4, <4>5
    <3> QED BY <3>3, <3>4
  <2> QED BY <1>6, <2>1, <2>2, <2>3 DEF ForwardInput
<1>7. CASE \/ Expire \/ Interrupt \/ PrintPiece \/ CommandSteps \/ BeginCell
           \/ BlockingRequest \/ RunCommand \/ CheckDeadline \/ Poll \/ ReadEvents
           \/ EndRound \/ GiveUp \/ UNCHANGED vars
  BY <1>4, <1>7 DEF Expire, Interrupt, PrintPiece, CommandSteps, BeginCell, BlockingRequest,
     RunCommand, CheckDeadline, Poll, ReadEvents, EndRound, GiveUp, vars
<1> QED BY <1>5, <1>6, <1>7 DEF Next, Kernel

(* A line that was typed is never lost between commands: it leaves the       *)
(* socket for a terminal, or to a request that waits for its reply.          *)
THEOREM LinesSurvive == Spec => LinesAreKept
<1>1. IInv /\ [Next]_vars =>
        [\A k \in Waiting \ Waiting' : k \in Typed' \/ at = "read reply"]_vars
  <2> SUFFICES ASSUME IInv, [Next]_vars, NEW n \in Waiting \ Waiting', n \notin Typed'
               PROVE  at = "read reply"
    OBVIOUS
  <2>1. n \in Nat BY DEF Waiting, IInv, SocketInv, SocketTyped
  <2>2. SocketInv BY DEF IInv
  <2>3. ReadReply BY <2>1, <2>2, KeptInStep
  <2> QED BY <2>3 DEF ReadReply
<1> QED BY <1>1, Invariant, PTL DEF Spec, LinesAreKept
=============================================================================
