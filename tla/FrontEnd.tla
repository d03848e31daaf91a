------------------------------- MODULE FrontEnd -------------------------------
(* The stdin channel and the commands of %system (HandleIO.swift from line   *)
(* 140 on): the kernel waits for the front end's reply to a request, or      *)
(* polls a command that runs in a pseudo-terminal and hands it what the user *)
(* types.  Replies and lines arrive on the same socket, at any time, and     *)
(* stay there until somebody reads it.                                       *)
(*                                                                           *)
(* The kernel does one thing at a time (at); the front end, the clock, the   *)
(* command and what it leaves running in the background take their own       *)
(* steps.                                                                    *)
EXTENDS Naturals, Sequences

CONSTANTS
  MaxOperations, \* bound on the requests and commands
  MaxLines,      \* bound on the lines the user types
  MaxOutput      \* bound on the pieces a command prints

ASSUME BoundsAssumption ==
  MaxOperations \in Nat /\ MaxLines \in Nat /\ MaxOutput \in Nat

None == "None"
Event == {"EPOLLIN", "EPOLLOUT", "EPOLLHUP"}

VARIABLES
  at,            \* what the kernel does next
  isInterrupted,
  (* the socket *)
  socket,        \* stdin_socket: <<"reply", id>> and <<"line", number>>
  typed,         \* number of lines typed
  msg_id,        \* _msg_id
  unanswered,    \* requests the front end may still answer
  routed,        \* history: all requests were sent with a parent
  message_id,    \* the request that read_reply_from_input waits for
  deadline,      \* None, or if it is ahead or has passed
  replies,       \* history: <<request, reply>>, or <<request, 0>> for None
  (* the command *)
  commands,      \* number of commands run
  alive,         \* the command runs
  background,    \* a process that the command left holds the terminal
  echo,          \* ECHO of the terminal
  output,        \* pieces in the pseudo-terminal
  printed,       \* history: number of pieces printed by this command
  shown,         \* history: pieces that were sent
  entered,       \* history: what was written to the terminals
  (* its monitor *)
  terminated,    \* the command had ended when the round began
  registered,    \* the events that are polled for
  events,        \* what epoll.poll returned; EPOLLIN is output_available
  is_pty_still_connected,
  widget,        \* the stdin widget: hidden, shown, or told the echo_status
  result         \* of the last command

socketVars  == <<socket, typed, msg_id, unanswered, routed>>
callVars    == <<message_id, deadline, replies>>
processVars == <<alive, background, echo, printed>>
monitorVars == <<terminated, registered, events, is_pty_still_connected, widget>>
commandVars == <<commands, processVars, output, shown, entered, monitorVars, result>>
vars == <<at, isInterrupted, socketVars, callVars, commandVars>>

Init ==
  /\ at = "cell" /\ isInterrupted = FALSE
  /\ socket = <<>> /\ typed = 0 /\ msg_id = 0 /\ unanswered = {} /\ routed = TRUE
  /\ message_id = 0 /\ deadline = None /\ replies = {}
  /\ commands = 0 /\ alive = FALSE /\ background = FALSE /\ echo = "on"
  /\ output = <<>> /\ printed = 0 /\ shown = <<>> /\ entered = <<>>
  /\ terminated = FALSE /\ registered = {} /\ events = {}
  /\ is_pty_still_connected = TRUE /\ widget = "hidden"
  /\ result = None

-----------------------------------------------------------------------------
(* The world around the kernel.                                              *)

TypeLine ==
  /\ typed < MaxLines
  /\ typed' = typed + 1
  /\ socket' = Append(socket, <<"line", typed'>>)
  /\ UNCHANGED <<at, isInterrupted, msg_id, unanswered, routed, callVars, commandVars>>

Answer ==
  /\ \E id \in unanswered :
       /\ unanswered' = unanswered \ {id}
       /\ socket' = Append(socket, <<"reply", id>>)
  /\ UNCHANGED <<at, isInterrupted, typed, msg_id, routed, callVars, commandVars>>

Expire ==
  /\ deadline = "ahead"
  /\ deadline' = "passed"
  /\ UNCHANGED <<at, isInterrupted, socketVars, message_id, replies, commandVars>>

(* The thread of InitSwift.swift sees SIGINT. *)
Interrupt ==
  /\ ~isInterrupted
  /\ isInterrupted' = TRUE
  /\ UNCHANGED <<at, socketVars, callVars, commandVars>>

PrintPiece ==
  /\ (alive \/ background) /\ printed < MaxOutput
  /\ printed' = printed + 1
  /\ output' = Append(output, printed')
  /\ UNCHANGED <<at, isInterrupted, socketVars, callVars, commands, alive, background,
                 echo, shown, entered, monitorVars, result>>

Other(e) == IF e = "on" THEN "off" ELSE "on"

(* The command asks for a password, leaves a process behind, or ends. *)
CommandSteps ==
  /\ \/ alive /\ echo' = Other(echo) /\ UNCHANGED <<alive, background>>
     \/ alive /\ ~background /\ background' = TRUE /\ UNCHANGED <<alive, echo>>
     \/ alive /\ alive' = FALSE /\ UNCHANGED <<background, echo>>
     \/ background /\ background' = FALSE /\ UNCHANGED <<alive, echo>>
  /\ UNCHANGED <<at, isInterrupted, socketVars, callVars, commands, printed, output,
                 shown, entered, monitorVars, result>>

-----------------------------------------------------------------------------
(* Requests.                                                                 *)

(* doExecute starts the next cell. *)
BeginCell ==
  /\ at = "cell" /\ isInterrupted
  /\ isInterrupted' = FALSE
  /\ UNCHANGED <<at, socketVars, callVars, commandVars>>

(* blocking_request and send_request: a parent is put together from the      *)
(* session of the kernel's parent header, and the message is sent with the   *)
(* parent that was given.                                                    *)
BlockingRequest ==
  /\ at = "cell" /\ msg_id + commands < MaxOperations
  /\ msg_id' = msg_id + 1 /\ message_id' = msg_id'
  /\ unanswered' = unanswered \cup {msg_id'}
  /\ \E parent \in {None, "cell"} :
       LET parent_copy == IF parent = None THEN "session" ELSE parent
       IN  routed' = (routed /\ parent # None)
  /\ deadline' \in {None, "ahead"}
  /\ at' = "check deadline"
  /\ UNCHANGED <<isInterrupted, socket, typed, replies, commandVars>>

Return(value) ==
  /\ at' = "cell"
  /\ replies' = replies \cup {<<message_id, value>>}
  /\ message_id' = 0 /\ deadline' = None

(* The condition of the loop of read_reply_from_input. *)
CheckDeadline ==
  /\ at = "check deadline"
  /\ IF deadline = "passed"
       THEN Return(0)
       ELSE at' = "read reply" /\ UNCHANGED callVars
  /\ UNCHANGED <<isInterrupted, socketVars, commandVars>>

(* A mistake: any reply is taken for the one that is waited for.             *)
ReadAnyReply ==
  /\ at = "read reply"
  /\ socket' = IF socket = <<>> THEN <<>> ELSE Tail(socket)
  /\ IF socket # <<>> /\ Head(socket)[1] = "reply"
       THEN Return(Head(socket)[2])
       ELSE at' = "check deadline" /\ UNCHANGED callVars
  /\ UNCHANGED <<isInterrupted, typed, msg_id, unanswered, routed, commandVars>>

(* A mistake: the wait goes on until there is a reply.                       *)
ReadWithoutDeadline ==
  /\ at = "read reply"
  /\ socket' = IF socket = <<>> THEN <<>> ELSE Tail(socket)
  /\ IF socket # <<>> /\ Head(socket) = <<"reply", message_id>>
       THEN Return(message_id)
       ELSE UNCHANGED <<at, callVars>>
  /\ UNCHANGED <<isInterrupted, typed, msg_id, unanswered, routed, commandVars>>

(* Its body: what is not the reply is dropped, lines that were typed too. *)
ReadReply ==
  /\ at = "read reply"
  /\ socket' = IF socket = <<>> THEN <<>> ELSE Tail(socket)
  /\ IF socket # <<>> /\ Head(socket) = <<"reply", message_id>>
       THEN Return(message_id)
       ELSE at' = "check deadline" /\ UNCHANGED callVars
  /\ UNCHANGED <<isInterrupted, typed, msg_id, unanswered, routed, commandVars>>

-----------------------------------------------------------------------------
(* Commands.                                                                 *)

(* _run_command *)
RunCommand ==
  /\ at = "cell" /\ msg_id + commands < MaxOperations
  /\ commands' = commands + 1
  /\ alive' = TRUE /\ background' = FALSE /\ echo' = "on"
  /\ output' = <<>> /\ printed' = 0 /\ shown' = <<>>
  /\ registered' = Event /\ is_pty_still_connected' = TRUE
  /\ widget' = "shown" /\ result' = None
  /\ at' = "poll"
  /\ UNCHANGED <<isInterrupted, socketVars, callVars, entered, terminated, events>>

Poll ==
  /\ at = "poll"
  /\ terminated' = ~alive
  /\ registered' = IF ~alive THEN Event \ {"EPOLLOUT"} ELSE registered
  /\ at' = "wait"
  /\ UNCHANGED <<isInterrupted, socketVars, callVars, commands, processVars, output, shown,
                 entered, events, is_pty_still_connected, widget, result>>

(* epoll.poll returns when there are events: something to read, room for     *)
(* input, or no process that holds the terminal.                             *)
Ready ==
  (IF output # <<>> THEN {"EPOLLIN"} ELSE {}) \cup {"EPOLLOUT"}
  \cup (IF alive \/ background THEN {} ELSE {"EPOLLHUP"})

(* A mistake: that the terminal was closed is not remembered.                *)
ReadEventsOnly ==
  /\ at = "wait"
  /\ events' = Ready \cap registered /\ events' # {}
  /\ IF "EPOLLIN" \in events'
       THEN \E n \in 1 .. Len(output) :
              /\ shown' = shown \o SubSeq(output, 1, n)
              /\ output' = SubSeq(output, n + 1, Len(output))
       ELSE UNCHANGED <<shown, output>>
  /\ at' = "forward input"
  /\ UNCHANGED <<isInterrupted, socketVars, callVars, commands, processVars, entered,
                 terminated, registered, is_pty_still_connected, widget, result>>

(* A read takes what the terminal gives it, which may be less than there is. *)
ReadEvents ==
  /\ at = "wait"
  /\ events' = Ready \cap registered /\ events' # {}
  /\ IF "EPOLLIN" \in events'
       THEN \E n \in 1 .. Len(output) :
              /\ shown' = shown \o SubSeq(output, 1, n)
              /\ output' = SubSeq(output, n + 1, Len(output))
       ELSE UNCHANGED <<shown, output>>
  /\ is_pty_still_connected' = (is_pty_still_connected /\ "EPOLLHUP" \notin events')
  /\ at' = "forward input"
  /\ UNCHANGED <<isInterrupted, socketVars, callVars, commands, processVars, entered,
                 terminated, registered, widget, result>>

Lines == {k \in DOMAIN socket : socket[k][1] = "line"}
FirstLine == CHOOSE k \in Lines : \A l \in Lines : k <= l

(* A mistake: what follows the line is dropped with the replies before it.   *)
ForwardInputAndFlush ==
  /\ at = "forward input"
  /\ IF "EPOLLOUT" \in events
       THEN /\ socket' = <<>>
            /\ entered' = IF Lines = {} THEN entered ELSE Append(entered, socket[FirstLine][2])
       ELSE UNCHANGED <<socket, entered>>
  /\ at' = "end of round"
  /\ UNCHANGED <<isInterrupted, typed, msg_id, unanswered, routed, callVars, commands,
                 processVars, output, shown, monitorVars, result>>

(* A mistake: the line is read without being taken from the socket.          *)
ForwardInputAgain ==
  /\ at = "forward input"
  /\ IF "EPOLLOUT" \in events /\ Lines # {}
       THEN /\ socket' = SubSeq(socket, FirstLine, Len(socket))
            /\ entered' = Append(entered, socket[FirstLine][2])
       ELSE UNCHANGED <<socket, entered>>
  /\ at' = "end of round"
  /\ UNCHANGED <<isInterrupted, typed, msg_id, unanswered, routed, callVars, commands,
                 processVars, output, shown, monitorVars, result>>

(* _read_stdin_message skips replies up to the next line, which is written.  *)
ForwardInput ==
  /\ at = "forward input"
  /\ \/ "EPOLLOUT" \notin events /\ UNCHANGED <<socket, entered>>
     \/ "EPOLLOUT" \in events /\ Lines = {} /\ socket' = <<>> /\ UNCHANGED entered
     \/ /\ "EPOLLOUT" \in events /\ Lines # {}
        /\ socket' = SubSeq(socket, FirstLine + 1, Len(socket))
        /\ entered' = Append(entered, socket[FirstLine][2])
  /\ at' = "end of round"
  /\ UNCHANGED <<isInterrupted, typed, msg_id, unanswered, routed, callVars, commands,
                 processVars, output, shown, monitorVars, result>>

(* A mistake: the output of this round is taken to be the last.              *)
OverAtHangUp == terminated /\ ~is_pty_still_connected

(* The command is over: terminated, disconnected and no output_available.    *)
Over == terminated /\ ~is_pty_still_connected /\ "EPOLLIN" \notin events

(* A mistake: the widget stays. *)
CloseTerminalOnly ==
  /\ registered' = {} /\ is_pty_still_connected' = TRUE /\ echo' = "on"
  /\ UNCHANGED widget

(* The deferred calls of _run_command. *)
CloseTerminal ==
  /\ registered' = {} /\ is_pty_still_connected' = TRUE /\ echo' = "on"
  /\ widget' = "hidden"

(* A mistake: the echo is only looked up once.                               *)
EndRoundWithFirstEcho ==
  /\ at = "end of round"
  /\ IF Over
       THEN at' = "cell" /\ result' = "returned" /\ CloseTerminal
       ELSE /\ at' = IF isInterrupted THEN "interrupt" ELSE "poll"
            /\ widget' = IF widget = "shown" THEN echo ELSE widget
            /\ UNCHANGED <<result, echo, registered, is_pty_still_connected>>
  /\ terminated' = FALSE /\ events' = {}
  /\ UNCHANGED <<isInterrupted, socketVars, callVars, commands, alive, background, printed,
                 output, shown, entered>>

(* A mistake: the interrupt is only looked at when the command has ended.    *)
EndRoundUninterrupted ==
  /\ at = "end of round"
  /\ IF Over
       THEN at' = "cell" /\ result' = "returned" /\ CloseTerminal
       ELSE /\ at' = IF isInterrupted /\ terminated THEN "interrupt" ELSE "poll"
            /\ widget' = echo
            /\ UNCHANGED <<result, echo, registered, is_pty_still_connected>>
  /\ terminated' = FALSE /\ events' = {}
  /\ UNCHANGED <<isInterrupted, socketVars, callVars, commands, alive, background, printed,
                 output, shown, entered>>

(* _poll_process returns a result, or else _monitor_process tells the widget *)
(* of a new echo and sends SIGINT to an interrupted command.                 *)
EndRound ==
  /\ at = "end of round"
  /\ IF Over
       THEN at' = "cell" /\ result' = "returned" /\ CloseTerminal
       ELSE /\ at' = IF isInterrupted THEN "interrupt" ELSE "poll"
            /\ widget' = echo
            /\ UNCHANGED <<result, echo, registered, is_pty_still_connected>>
  /\ terminated' = FALSE /\ events' = {}
  /\ UNCHANGED <<isInterrupted, socketVars, callVars, commands, alive, background, printed,
                 output, shown, entered>>

(* Half a second later the exception is thrown and the terminal closed.      *)
(* SIGKILL is sent to a command that is gone; one that is not goes on        *)
(* without a terminal, and is not followed any further here.                 *)
GiveUp ==
  /\ at = "interrupt"
  /\ at' = "cell" /\ result' = "interrupted" /\ CloseTerminal
  /\ alive' = FALSE /\ background' = FALSE
  /\ output' = <<>> /\ printed' = 0 /\ shown' = <<>>
  /\ UNCHANGED <<isInterrupted, socketVars, callVars, commands, entered, terminated, events>>

-----------------------------------------------------------------------------
Kernel ==
  \/ CheckDeadline \/ ReadReply
  \/ Poll \/ ReadEvents \/ ForwardInput \/ EndRound \/ GiveUp

Next ==
  \/ TypeLine \/ Answer \/ Expire \/ Interrupt \/ PrintPiece \/ CommandSteps
  \/ BeginCell \/ BlockingRequest \/ RunCommand
  \/ Kernel

Spec == Init /\ [][Next]_vars

(* The kernel goes on when it can, and time passes; nobody has to answer, to *)
(* type or to end.                                                           *)
FairSpec == Spec /\ WF_vars(Kernel) /\ WF_vars(Expire)

-----------------------------------------------------------------------------
(* Properties.                                                               *)

InCommand == at \notin {"cell", "check deadline", "read reply"}

(* The types of the variables, and what the kernel is at. *)
TypeOK ==
  /\ at \in {"cell", "check deadline", "read reply", "poll", "wait", "forward input",
             "end of round", "interrupt"}
  /\ \A k \in DOMAIN socket :
       socket[k] \in ({"reply"} \X (1 .. msg_id)) \cup ({"line"} \X (1 .. typed))
  /\ msg_id \in 0 .. MaxOperations /\ unanswered \subseteq 1 .. msg_id
  /\ events \subseteq Event /\ registered \subseteq Event
  /\ (alive \/ background) => InCommand
  /\ (widget = "hidden") = ~InCommand

(* However late replies come and whoever finds them, a request is returned   *)
(* its own reply or none, and it returns once.  (That none is returned only  *)
(* after the deadline is what CheckDeadline does, not said here.)            *)
OwnReplyOrNone ==
  /\ \A r \in replies : r[2] \in {r[1], 0}
  /\ \A r, s \in replies : r[1] = s[1] => r = s
  /\ \A r \in replies : r[2] # 0 =>
       /\ r[1] \notin unanswered
       /\ \A k \in DOMAIN socket : socket[k] # <<"reply", r[1]>>

(* Lines reach the terminals in the order they were typed and once each,     *)
(* over any number of rounds and commands.                                   *)
InputInOrder == \A i, j \in DOMAIN entered : i < j => entered[i] < entered[j]

(* A line that was typed stays on the socket until a command gets it or a    *)
(* request that waits for its reply drops it (the comment at                 *)
(* HandleIO.swift:295-299); replies that are skipped take none with them.    *)
Waiting == {k \in 1 .. typed : \E i \in DOMAIN socket : socket[i] = <<"line", k>>}
Typed   == {k \in 1 .. typed : \E i \in DOMAIN entered : entered[i] = k}
LinesAreKept ==
  [][\A k \in Waiting \ Waiting' : k \in Typed' \/ at = "read reply"]_vars

(* While its terminal is open, what a command and its background processes   *)
(* print is shown in order or still to be read; when a command returns, all  *)
(* of it was shown and nobody is left who could print.                       *)
OutputComplete ==
  /\ shown \o output = [k \in 1 .. printed |-> k]
  /\ result = "returned" => output = <<>> /\ ~alive /\ ~background

(* A request with a deadline ends, and so does one whose reply is there.     *)
CallEnds ==
  at \in {"check deadline", "read reply"}
    /\ (deadline # None \/ \E k \in DOMAIN socket : socket[k] = <<"reply", message_id>>)
  ~> at = "cell"

(* When no process holds the terminal any longer the command returns.  An    *)
(* interrupted command is given up, unless the kernel waits for a background *)
(* process that holds the terminal and says nothing.                         *)
CommandReturns ==
  /\ InCommand /\ ~alive /\ ~background ~> at = "cell"
  /\ InCommand /\ isInterrupted ~> at = "cell" \/ (~alive /\ background)

(* The widget follows the echo of the terminal: what is typed for a password *)
(* prompt is not shown for long.                                             *)
EchoIsFollowed ==
  \A e \in {"on", "off"} : (InCommand /\ alive /\ echo = e)
                       ~> (widget = e \/ echo # e \/ ~alive)

(* "If there's no parent message, add in the session header to route to the  *)
(* appropriate frontend." (HandleIO.swift:247-248)                           *)
RequestsAreRouted == routed

(* The invariant: the types, and terminals that lose and reorder nothing.    *)
TerminalInv == TypeOK /\ InputInOrder /\ OutputComplete
=============================================================================
