---------------------------- MODULE CellExecution ----------------------------
(* The execution of notebook cells by the Swift kernel.                     *)
(*                                                                          *)
(* Four actors take interleaved steps:                                      *)
(*   main     the Python main thread inside do_execute (DoExecute.swift,    *)
(*            PreprocessAndExecute.swift, HandleIO.swift);                  *)
(*   worker   the DispatchQueue job that runs LLDB's EvaluateExpression;    *)
(*   handler  the SIGINT thread of InitSwift.swift;                         *)
(*   repl     the process under LLDB that runs the user's program, with the *)
(*            hooks of SwiftShell.swift that call back into the kernel.     *)
(* They share a mutex, the variables of KernelContext, the standard output  *)
(* of the process, and two pipe files.                                      *)
(*                                                                          *)
(* The model starts after initSwift.  LLDB is external: its evaluation of   *)
(* an expression runs to completion, fails or is interrupted; interrupting  *)
(* a process that is not running does nothing; all that the process printed *)
(* can be read when the evaluation returns.                                 *)
EXTENDS Naturals, Sequences, FiniteSets

CONSTANTS
  Text,          \* what the user's program prints
  MaxCells,      \* bound on the requests of a behaviour
  MaxTokens,     \* bound on the output of one cell, the header left aside
  MaxMagic,      \* bound on the magic commands of one cell
  MaxSigints,    \* bound on the interruptions the user asks for
  Faults         \* what may go wrong outside of the kernel

(* "expression": the expression that hands over the pipes fails.            *)
(* "death":      the process dies (the system kills it, the program exits). *)
(* "print":      code that %install loads prints when it is loaded.         *)
FaultKinds == {"expression", "death", "print"}

ASSUME BoundsAssumption ==
  /\ MaxCells \in Nat
  /\ MaxTokens \in Nat
  /\ MaxMagic \in Nat
  /\ MaxSigints \in Nat
ASSUME FaultsAssumption == Faults \subseteq FaultKinds
ASSUME TextAssumption == Text \intersect {"HEADER", "MARKER"} = {}

(* "HEADER" is the line that every compiled cell prints first; "MARKER" the *)
(* escape sequence that announces a message in the pipe.                    *)
Item == Text \union {"HEADER", "MARKER"}

VARIABLES
  main,            \* where the main thread is
  empty, magic,    \* the request: code = "", and its magic commands to come
  cell,            \* execution_count and _parent_header of the request
  reply,           \* what do_execute returned for the latest request
  shouldBreak, out, messages,    \* locals and file variables of the main thread
  hadStdout,       \* KernelContext.hadStdout
  stopScheduled,   \* loop.stop is due on the event loop
  mutex,           \* KernelContext.mutex
  worker,          \* where the worker is
  executionResult, \* the variable that the worker and the main thread share
  handler,         \* where the SIGINT handler is
  sigPending,      \* a SIGINT is pending for the process
  sigints,         \* number of SIGINTs sent
  sigCell,         \* history: the cell during which the latest one was sent
  isInterrupted,   \* KernelContext.isInterrupted
  repl,            \* what the process under LLDB is doing
  returned,        \* how the latest EvaluateExpression returned
  cause,           \* history: why it did not succeed
  stderr,          \* unread text in /opt/swift/err
  lldbCell,        \* globalCellID of the process: the pipes it has open
  parent,          \* parentMessage of the process
  sent,            \* messages that the process sent since the last exchange
  stdout,          \* printed by the process, not yet read by the kernel
  emitted,         \* history: all that was printed for this request
  consumed,        \* history: the part of it that the kernel dealt with
  counter,         \* /opt/swift/pipes/counter, and globalCellID of the kernel
  toKernel,        \* pipes/1-<counter>: messages not yet read by the kernel
  toLldb           \* pipes/2-<counter>: responses not yet read by the process

requestVars == <<empty, magic, cell, reply, stopScheduled>>
drainVars   == <<shouldBreak, out, messages, hadStdout>>
workerVars  == <<worker, executionResult>>
signalVars  == <<handler, sigPending, sigints, sigCell, isInterrupted>>
evalVars    == <<repl, returned, cause>>
hookVars    == <<lldbCell, parent, sent>>
outputVars  == <<stdout, emitted, consumed>>
pipeVars    == <<counter, toKernel, toLldb>>

threadVars  == <<mutex, requestVars, drainVars, workerVars, signalVars>>
processVars == <<stderr, evalVars, hookVars, outputVars, pipeVars>>
vars == <<main, threadVars, processVars>>

MainStates == {"idle", "acquire", "before", "setup", "preprocess", "system",
               "install", "sleep", "drain", "send", "await", "finish",
               "exited", "crashed"}
ReplStates == {"stopped", "before", "install", "compile", "start", "user",
               "marker", "wait", "dead"}
Message == [parent : Nat, nth : Nat]

(* The states in which the process runs: LLDB compiles before it runs.      *)
Running == {"before", "install", "start", "user", "marker", "wait"}

(* Nothing moves any more when the kernel is gone.                          *)
KernelAlive == main \notin {"exited", "crashed"}

-----------------------------------------------------------------------------
(* LLDB's side of an evaluation (LLDBProcess.cpp).                          *)

(* EvaluateExpression is called; it fails at once on a dead process.        *)
Evaluate(kind) ==
  IF repl = "dead"
    THEN /\ returned' = "error"
         /\ cause' = "death"
         /\ UNCHANGED repl
    ELSE /\ repl' = kind
         /\ returned' = "none"
         /\ cause' = "none"

(* EvaluateExpression is about to return; the process is stopped again.     *)
Return(result, why) ==
  /\ repl' = "stopped"
  /\ returned' = result
  /\ cause' = why

(* A trap in the process ends the evaluation; what the runtime has to say   *)
(* about it, if anything, is in the stderr file.                            *)
Trap == /\ Return("error", "trap")
        /\ stderr' \in {stderr, TRUE}

(* SendAsyncInterrupt. *)
Interrupt ==
  IF repl \in Running THEN Return("error", "interrupt")
                      ELSE UNCHANGED evalVars

(* The process prints: the text waits in LLDB until the kernel reads it.    *)
Emit(item) ==
  /\ stdout' = Append(stdout, item)
  /\ emitted' = Append(emitted, item)
  /\ UNCHANGED consumed

Consume(item) == consumed' = Append(consumed, item)

(* Mistakes: a mutex that does not exclude, and one that is never released. *)
LockWithoutWaiting(thread) == mutex' = thread
UnlockForgotten(thread) == mutex = thread /\ UNCHANGED mutex

Lock(thread) == mutex = "free" /\ mutex' = thread
Unlock(thread) == mutex = thread /\ mutex' = "free"

-----------------------------------------------------------------------------
Init ==
  /\ main = "idle" /\ mutex = "free" /\ stderr = FALSE
  /\ empty = FALSE /\ magic = 0 /\ cell = 0
  /\ reply = "none" /\ stopScheduled = FALSE
  /\ shouldBreak = FALSE /\ out = <<>> /\ messages = <<>> /\ hadStdout = FALSE
  /\ worker = "none" /\ executionResult = "nil"
  /\ handler = "sigwait" /\ sigPending = FALSE /\ sigints = 0 /\ sigCell = 0
  /\ isInterrupted = FALSE
  /\ repl = "stopped" /\ returned = "success" /\ cause = "none"
  /\ lldbCell = 0 /\ parent = 0 /\ sent = 0
  /\ stdout = <<>> /\ emitted = <<>> /\ consumed = <<>>
  /\ counter = 0 /\ toKernel = <<>> /\ toLldb = <<>>

-----------------------------------------------------------------------------
(* The environment: requests and interruptions.                             *)

(* ipykernel numbers the request and calls do_execute.                      *)
ReceiveRequest ==
  /\ main = "idle"
  /\ cell < MaxCells
  /\ \E isEmpty \in BOOLEAN, n \in 0 .. MaxMagic :
       /\ isEmpty => n = 0
       /\ empty' = isEmpty
       /\ magic' = n
       /\ main' = IF isEmpty THEN "setup" ELSE "acquire"
  /\ cell' = cell + 1
  /\ reply' = "none"
  /\ emitted' = stdout
  /\ consumed' = <<>>
  /\ UNCHANGED <<mutex, stderr, stopScheduled, stdout, drainVars, workerVars,
                 signalVars, evalVars, hookVars, pipeVars>>

(* The user asks for an interruption; a pending signal is not queued twice. *)
Sigint ==
  /\ KernelAlive
  /\ sigints < MaxSigints
  /\ sigints' = sigints + 1
  /\ sigPending' = TRUE
  /\ sigCell' = cell
  /\ UNCHANGED <<main, mutex, handler, isInterrupted, processVars,
                 requestVars, drainVars, workerVars>>

-----------------------------------------------------------------------------
(* The main thread.                                                         *)

(* A mistake: the file of the responses is not replaced.                    *)
ResetOnePipe ==
  /\ counter' = counter + 1
  /\ toKernel' = <<>>
  /\ UNCHANGED toLldb

(* resetPipes: the next pair of files, both empty.                          *)
ResetPipes ==
  /\ counter' = counter + 1
  /\ toKernel' = <<>>
  /\ toLldb' = <<>>

(* beforeExecution, called with the mutex held: resetPipes, the kernel's    *)
(* own fetchPipes, and the expression that makes the process do the same.   *)
ExchangePipes ==
  /\ main = "acquire"
  /\ Lock("main")
  /\ ResetPipes
  /\ Evaluate("before")
  /\ main' = "before"
  /\ UNCHANGED <<stderr, requestVars, drainVars, workerVars, signalVars,
                 hookVars, outputVars>>

(* A mistake: the result of the expression is ignored.                      *)
FinishExchangeUnchecked ==
  /\ main = "before"
  /\ returned # "none"
  /\ Unlock("main")
  /\ main' = "setup"
  /\ UNCHANGED <<reply, empty, magic, cell, stopScheduled, processVars,
                 drainVars, workerVars, signalVars>>

(* The expression has returned.  An error is thrown past the call of        *)
(* release, out of do_execute.                                              *)
FinishExchange ==
  /\ main = "before"
  /\ returned # "none"
  /\ IF returned = "success"
       THEN /\ Unlock("main")
            /\ main' = "setup"
            /\ UNCHANGED reply
       ELSE /\ main' = "idle"
            /\ reply' = "exception"
            /\ UNCHANGED mutex
  /\ UNCHANGED <<empty, magic, cell, stopScheduled, processVars, drainVars,
                 workerVars, signalVars>>

(* A mistake: hadStdout is left over from the previous cell.                *)
SetupWithoutReset ==
  /\ main = "setup"
  /\ messages' = <<>>
  /\ isInterrupted' = FALSE
  /\ stderr' = FALSE
  /\ main' = "preprocess"
  /\ UNCHANGED <<mutex, shouldBreak, out, hadStdout, handler, sigPending,
                 sigints, sigCell, requestVars, workerVars, evalVars, hookVars,
                 outputVars, pipeVars>>

(* forwardInput, flushMessages and the assignments that follow.             *)
Setup ==
  /\ main = "setup"
  /\ messages' = <<>>
  /\ isInterrupted' = FALSE
  /\ hadStdout' = FALSE
  /\ stderr' = FALSE
  /\ main' = "preprocess"
  /\ UNCHANGED <<mutex, shouldBreak, out, handler, sigPending, sigints,
                 sigCell, requestVars, workerVars, evalVars, hookVars,
                 outputVars, pipeVars>>

(* A mistake: the loop over the commands runs once too often.               *)
RunSystemOnceMore ==
  /\ main = "preprocess"
  /\ magic' = magic - 1
  /\ main' = "system"
  /\ UNCHANGED <<mutex, empty, cell, reply, stopScheduled, processVars,
                 drainVars, workerVars, signalVars>>

(* A %system command, or the swift-build of an %install.                    *)
RunSystem ==
  /\ main = "preprocess"
  /\ magic > 0
  /\ magic' = magic - 1
  /\ main' = "system"
  /\ UNCHANGED <<mutex, empty, cell, reply, stopScheduled, processVars,
                 drainVars, workerVars, signalVars>>

SystemFinished ==
  /\ main = "system"
  /\ main' = "preprocess"
  /\ UNCHANGED <<threadVars, processVars>>

(* do_execute leaves the request with this reply.                           *)
Leave(answer) ==
  /\ main' = "idle"
  /\ reply' = answer
  /\ UNCHANGED <<empty, magic, cell>>

(* _monitor_process throws InterruptException, which doExecute turns into   *)
(* an ordinary reply.                                                       *)
SystemInterrupted ==
  /\ main = "system"
  /\ isInterrupted
  /\ Leave("ok")
  /\ UNCHANGED <<mutex, stopScheduled, processVars, drainVars, workerVars,
                 signalVars>>

(* The built library of an %install is loaded into the process.             *)
RunInstall ==
  /\ main = "system"
  /\ Evaluate("install")
  /\ main' = "install"
  /\ UNCHANGED <<stderr, threadVars, hookVars, outputVars, pipeVars>>

InstallFinished ==
  /\ main = "install"
  /\ returned # "none"
  /\ IF returned = "success"
       THEN main' = "preprocess" /\ UNCHANGED <<empty, magic, cell, reply>>
       ELSE Leave("preprocessor")
  /\ UNCHANGED <<mutex, stopScheduled, processVars, drainVars, workerVars,
                 signalVars>>

(* A magic command is malformed, its file is missing, its build fails.      *)
PreprocessFails ==
  /\ main = "system" \/ (main = "preprocess" /\ magic > 0)
  /\ Leave("preprocessor")
  /\ UNCHANGED <<mutex, stopScheduled, processVars, drainVars, workerVars,
                 signalVars>>

LaunchWorker ==
  /\ main = "preprocess"
  /\ magic = 0
  /\ worker' = "start"
  /\ executionResult' = "nil"
  /\ main' = "sleep"
  /\ UNCHANGED <<mutex, processVars, requestVars, drainVars, signalVars>>

(* Two mistakes: the loop gives up on an interrupted cell without waiting   *)
(* for the worker, or it skips the output that came with the result.        *)
PollInterrupt ==
  /\ main = "sleep"
  /\ mutex = "free"
  /\ shouldBreak' = (executionResult # "nil" \/ isInterrupted)
  /\ main' = "drain"
  /\ UNCHANGED <<mutex, out, messages, hadStdout, processVars, requestVars,
                 workerVars, signalVars>>
PollAndBreak ==
  /\ main = "sleep"
  /\ mutex = "free"
  /\ shouldBreak' = (executionResult # "nil")
  /\ main' = IF executionResult # "nil" THEN "finish" ELSE "drain"
  /\ UNCHANGED <<mutex, out, messages, hadStdout, processVars, requestVars,
                 workerVars, signalVars>>

(* The sleep is over: the result is looked at under the mutex.              *)
PollResult ==
  /\ main = "sleep"
  /\ mutex = "free"
  /\ shouldBreak' = (executionResult # "nil")
  /\ main' = "drain"
  /\ UNCHANGED <<mutex, out, messages, hadStdout, processVars, requestVars,
                 workerVars, signalVars>>

(* Two mistakes: the result is looked at after the output was read, and the *)
(* loop never breaks.                                                       *)
LateResult == IF executionResult # "nil" THEN "finish" ELSE "sleep"
EndlessLoop == "sleep"

(* Where the loop goes when the output is dealt with.                       *)
AfterDrain == IF shouldBreak THEN "finish" ELSE "sleep"

(* getAndSendStdout, up to sendStdout: all there is to read is read.  The   *)
(* first output of a cell begins with the header, which is removed.         *)
NothingToRead ==
  /\ main = "drain"
  /\ stdout = <<>>
  /\ main' = AfterDrain
  /\ UNCHANGED <<threadVars, processVars>>

ReadHeader ==
  /\ main = "drain"
  /\ stdout # <<>>
  /\ ~hadStdout
  /\ Head(stdout) = "HEADER"
  /\ hadStdout' = TRUE
  /\ Consume("HEADER")
  /\ out' = Tail(stdout)
  /\ stdout' = <<>>
  /\ main' = "send"
  /\ UNCHANGED <<mutex, stderr, shouldBreak, messages, emitted, requestVars,
                 workerVars, signalVars, evalVars, hookVars, pipeVars>>

(* A mistake: the first item is removed from later outputs, too.            *)
ReadMoreWithoutFirst ==
  /\ main = "drain"
  /\ stdout # <<>>
  /\ hadStdout
  /\ out' = Tail(stdout)
  /\ stdout' = <<>>
  /\ main' = "send"
  /\ UNCHANGED <<mutex, stderr, shouldBreak, messages, hadStdout, emitted,
                 consumed, requestVars, workerVars, signalVars, evalVars,
                 hookVars, pipeVars>>

ReadMore ==
  /\ main = "drain"
  /\ stdout # <<>>
  /\ hadStdout
  /\ out' = stdout
  /\ stdout' = <<>>
  /\ main' = "send"
  /\ UNCHANGED <<mutex, stderr, shouldBreak, messages, hadStdout, emitted,
                 consumed, requestVars, workerVars, signalVars, evalVars,
                 hookVars, pipeVars>>

(* The precondition on the header ends the kernel.                          *)
HeaderMissing ==
  /\ main = "drain"
  /\ stdout # <<>>
  /\ ~hadStdout
  /\ Head(stdout) # "HEADER"
  /\ main' = "crashed"
  /\ UNCHANGED <<threadVars, processVars>>

(* sendStdout on the text before the first marker.                          *)
SendText ==
  /\ main = "send"
  /\ out # <<>>
  /\ Head(out) # "MARKER"
  /\ Consume(Head(out))
  /\ out' = Tail(out)
  /\ UNCHANGED <<main, mutex, stderr, shouldBreak, messages, hadStdout,
                 stdout, emitted, requestVars, workerVars, signalVars,
                 evalVars, hookVars, pipeVars>>

(* sendStdout at a marker: executeNextMessage is called.                    *)
MeetMarker ==
  /\ main = "send"
  /\ out # <<>>
  /\ Head(out) = "MARKER"
  /\ main' = "await"
  /\ UNCHANGED <<threadVars, processVars>>

SendFinished ==
  /\ main = "send"
  /\ out = <<>>
  /\ main' = AfterDrain
  /\ UNCHANGED <<threadVars, processVars>>

(* executeNextMessage reads the pipe, again and again, until there is a     *)
(* message in it; it looks at nothing else.                                 *)
ReceiveMessages ==
  /\ main = "await"
  /\ messages = <<>>
  /\ toKernel # <<>>
  /\ messages' = toKernel
  /\ toKernel' = <<>>
  /\ UNCHANGED <<main, mutex, stderr, shouldBreak, out, hadStdout, counter,
                 toLldb, requestVars, workerVars, signalVars, evalVars,
                 hookVars, outputVars>>

(* A mistake: the response is not sent.                                     *)
ExecuteInSilence ==
  /\ main = "await"
  /\ messages # <<>>
  /\ messages' = Tail(messages)
  /\ Consume("MARKER")
  /\ out' = Tail(out)
  /\ main' = "send"
  /\ UNCHANGED <<mutex, stderr, shouldBreak, hadStdout, stdout, emitted,
                 pipeVars, requestVars, workerVars, signalVars, evalVars,
                 hookVars>>

(* execute_message, and its response is sent.                               *)
ExecuteMessage ==
  /\ main = "await"
  /\ messages # <<>>
  /\ toLldb' = Append(toLldb, Head(messages))
  /\ messages' = Tail(messages)
  /\ Consume("MARKER")
  /\ out' = Tail(out)
  /\ main' = "send"
  /\ UNCHANGED <<mutex, stderr, shouldBreak, hadStdout, stdout, emitted,
                 counter, toKernel, requestVars, workerVars, signalVars,
                 evalVars, hookVars>>

(* How doExecute reports the result of the cell.                            *)
Report ==
  IF executionResult = "success" THEN "ok"
  ELSE IF repl = "dead" THEN "killed"
  ELSE IF ~hadStdout THEN "compile"
  ELSE IF ~stderr /\ isInterrupted THEN "ok"
  ELSE "trace"

Finish ==
  /\ main = "finish"
  /\ Leave(Report)
  /\ stopScheduled' = (stopScheduled \/ Report = "killed")
  /\ stderr' = (stderr /\ Report # "trace")
  /\ UNCHANGED <<mutex, drainVars, workerVars, signalVars, evalVars, hookVars,
                 outputVars, pipeVars>>

(* The event loop runs the callback that stops it.                          *)
KernelExit ==
  /\ main = "idle"
  /\ stopScheduled
  /\ main' = "exited"
  /\ UNCHANGED <<threadVars, processVars>>

MainStep ==
  \/ ExchangePipes \/ FinishExchange \/ Setup
  \/ RunSystem \/ SystemFinished \/ SystemInterrupted
  \/ RunInstall \/ InstallFinished \/ PreprocessFails
  \/ LaunchWorker \/ PollResult
  \/ NothingToRead \/ ReadHeader \/ ReadMore \/ HeaderMissing
  \/ SendText \/ MeetMarker \/ SendFinished
  \/ ReceiveMessages \/ ExecuteMessage \/ Finish \/ KernelExit

-----------------------------------------------------------------------------
(* The worker.                                                              *)

WorkerExecute ==
  /\ KernelAlive /\ worker = "start"
  /\ Evaluate("compile")
  /\ worker' = "execute"
  /\ UNCHANGED <<main, mutex, stderr, executionResult, requestVars, drainVars,
                 signalVars, hookVars, outputVars, pipeVars>>

(* EvaluateExpression has returned: the result is stored under the mutex.   *)
WorkerStore ==
  /\ KernelAlive /\ worker = "execute"
  /\ returned # "none"
  /\ mutex = "free"
  /\ executionResult' = returned
  /\ worker' = "none"
  /\ UNCHANGED <<main, mutex, processVars, requestVars, drainVars,
                 signalVars>>

WorkerStep == WorkerExecute \/ WorkerStore

-----------------------------------------------------------------------------
(* The SIGINT handler: sigwait, acquire, interrupt and release, and only    *)
(* then the assignment to isInterrupted.                                    *)

HandlerSigwait ==
  /\ KernelAlive /\ handler = "sigwait"
  /\ sigPending
  /\ sigPending' = FALSE
  /\ handler' = "acquire"
  /\ UNCHANGED <<main, mutex, sigints, sigCell, isInterrupted, processVars,
                 requestVars, drainVars, workerVars>>

HandlerAcquire ==
  /\ KernelAlive /\ handler = "acquire"
  /\ Lock("handler")
  /\ handler' = "interrupt"
  /\ UNCHANGED <<main, sigPending, sigints, sigCell, isInterrupted,
                 processVars, requestVars, drainVars, workerVars>>

HandlerInterrupt ==
  /\ KernelAlive /\ handler = "interrupt"
  /\ Interrupt
  /\ Unlock("handler")
  /\ handler' = "flag"
  /\ UNCHANGED <<main, stderr, sigPending, sigints, sigCell, isInterrupted,
                 requestVars, drainVars, workerVars, hookVars, outputVars,
                 pipeVars>>

HandlerFlag ==
  /\ KernelAlive /\ handler = "flag"
  /\ isInterrupted' = TRUE
  /\ handler' = "sigwait"
  /\ UNCHANGED <<main, mutex, sigPending, sigints, sigCell, processVars,
                 requestVars, drainVars, workerVars>>

HandlerStep ==
  HandlerSigwait \/ HandlerAcquire \/ HandlerInterrupt \/ HandlerFlag

-----------------------------------------------------------------------------
(* The process under LLDB.                                                  *)

(* A mistake: one of the two calls of the expression is missing.            *)
ExchangeWithoutParent ==
  /\ KernelAlive /\ repl = "before"
  /\ lldbCell' = counter
  /\ sent' = 0
  /\ Return("success", "none")
  /\ UNCHANGED <<main, stderr, parent, threadVars, outputVars, pipeVars>>

(* fetchPipes and updateParentMessage of the communicator.                  *)
ReplExchange ==
  /\ KernelAlive /\ repl = "before"
  /\ lldbCell' = counter
  /\ parent' = cell
  /\ sent' = 0
  /\ Return("success", "none")
  /\ UNCHANGED <<main, stderr, threadVars, outputVars, pipeVars>>

(* The expression fails, before or after it has opened the pipes.           *)
ReplExchangeFails ==
  /\ KernelAlive /\ repl = "before"
  /\ "expression" \in Faults
  /\ lldbCell' \in {lldbCell, counter}
  /\ Trap
  /\ UNCHANGED <<main, parent, sent, threadVars, outputVars, pipeVars>>

(* dlopen returns, or loading the library traps.                            *)
InstallReturns ==
  /\ KernelAlive /\ repl = "install"
  /\ \/ Return("success", "none") /\ UNCHANGED stderr
     \/ Trap
  /\ UNCHANGED <<main, threadVars, hookVars, outputVars, pipeVars>>

InstallPrints ==
  /\ KernelAlive /\ repl = "install"
  /\ "print" \in Faults
  /\ Len(emitted) < MaxTokens
  /\ \E t \in Text : Emit(t)
  /\ UNCHANGED <<main, stderr, threadVars, evalVars, hookVars, pipeVars>>

(* An empty cell is the header's print statement alone: it compiles.        *)
CompileError ==
  /\ KernelAlive /\ repl = "compile"
  /\ ~empty
  /\ Return("error", "compiler")
  /\ UNCHANGED <<main, stderr, threadVars, hookVars, outputVars, pipeVars>>

Compiled ==
  /\ KernelAlive /\ repl = "compile"
  /\ repl' = "start"
  /\ UNCHANGED <<main, stderr, returned, cause, threadVars, hookVars,
                 outputVars, pipeVars>>

PrintHeader ==
  /\ KernelAlive /\ repl = "start"
  /\ Emit("HEADER")
  /\ repl' = "user"
  /\ UNCHANGED <<main, stderr, returned, cause, threadVars, hookVars,
                 pipeVars>>

UserPrints ==
  /\ KernelAlive /\ repl = "user"
  /\ ~empty
  /\ Len(emitted) <= MaxTokens
  /\ \E t \in Text : Emit(t)
  /\ UNCHANGED <<main, stderr, threadVars, evalVars, hookVars, pipeVars>>

UserWritesStderr ==
  /\ KernelAlive /\ repl = "user"
  /\ ~empty
  /\ ~stderr
  /\ stderr' = TRUE
  /\ UNCHANGED <<main, threadVars, evalVars, hookVars, outputVars, pipeVars>>

(* blocking_request and send_multipart: printMessageStart, then send, then  *)
(* recv until the response is there.                                        *)
PrintMarker ==
  /\ KernelAlive /\ repl = "user"
  /\ ~empty
  /\ Len(emitted) <= MaxTokens
  /\ Emit("MARKER")
  /\ repl' = "marker"
  /\ UNCHANGED <<main, stderr, returned, cause, threadVars, hookVars,
                 pipeVars>>

(* The message that the process sends, or has sent last.                    *)
NextMessage == [parent |-> parent, nth |-> sent + 1]
LastMessage == [parent |-> parent, nth |-> sent]

(* send; validateCounter traps when the pipes are not the latest ones.      *)
SendMessage ==
  /\ KernelAlive /\ repl = "marker"
  /\ IF lldbCell = counter
       THEN /\ toKernel' = Append(toKernel, NextMessage)
            /\ sent' = sent + 1
            /\ repl' = "wait"
            /\ UNCHANGED <<stderr, returned, cause>>
       ELSE Trap /\ UNCHANGED <<toKernel, sent>>
  /\ UNCHANGED <<main, lldbCell, parent, counter, toLldb, threadVars,
                 outputVars>>

(* The response is there; two of them violate a precondition.               *)
ReceiveReply ==
  /\ KernelAlive /\ repl = "wait"
  /\ toLldb # <<>>
  /\ toLldb' = <<>>
  /\ IF Len(toLldb) <= 1
       THEN repl' = "user" /\ UNCHANGED <<stderr, returned, cause>>
       ELSE Trap
  /\ UNCHANGED <<main, counter, toKernel, threadVars, hookVars, outputVars>>

UserDone ==
  /\ KernelAlive /\ repl = "user"
  /\ Return("success", "none")
  /\ UNCHANGED <<main, stderr, threadVars, hookVars, outputVars, pipeVars>>

UserTraps ==
  /\ KernelAlive /\ repl = "user"
  /\ ~empty
  /\ Trap
  /\ UNCHANGED <<main, threadVars, hookVars, outputVars, pipeVars>>

(* The process dies; an evaluation in progress fails.                       *)
ReplDies ==
  /\ KernelAlive /\ "death" \in Faults
  /\ repl # "dead"
  /\ repl' = "dead"
  /\ IF repl = "stopped" THEN UNCHANGED <<returned, cause>>
                         ELSE returned' = "error" /\ cause' = "death"
  /\ UNCHANGED <<main, stderr, threadVars, hookVars, outputVars, pipeVars>>

(* What the program does of itself, and what happens to it.                 *)
ReplStep ==
  \/ ReplExchange \/ InstallReturns \/ CompileError \/ Compiled \/ PrintHeader
  \/ UserPrints \/ UserWritesStderr \/ PrintMarker \/ SendMessage \/ ReceiveReply
  \/ UserDone \/ UserTraps
ReplFault == ReplExchangeFails \/ InstallPrints \/ ReplDies

-----------------------------------------------------------------------------
Next ==
  \/ ReceiveRequest \/ Sigint
  \/ MainStep \/ WorkerStep \/ HandlerStep
  \/ ReplStep \/ ReplFault

Spec == Init /\ [][Next]_vars

(* Every thread is scheduled, and so is the process; the handler gets the   *)
(* mutex when it is free time and again.  A %system command ends, and the   *)
(* front end answers what a message asks of it.  The user's program ends:   *)
(* it has MaxTokens items to print, and no infinite loop.                   *)
Fairness ==
  /\ WF_vars(MainStep)
  /\ WF_vars(WorkerExecute)
  /\ SF_vars(WorkerStore)
  /\ WF_vars(HandlerSigwait \/ HandlerInterrupt \/ HandlerFlag)
  /\ SF_vars(HandlerAcquire)
  /\ WF_vars(ReplStep)

FairSpec == Spec /\ Fairness

-----------------------------------------------------------------------------
(* Properties.                                                              *)

(* Every variable has its type; in particular the preprocessor never runs   *)
(* more commands than the request has.                                      *)
TypeOK ==
  /\ main \in MainStates
  /\ empty \in BOOLEAN /\ magic \in Nat /\ cell \in Nat
  /\ reply \in {"none", "ok", "preprocessor", "exception", "killed", "trace",
                "compile"}
  /\ shouldBreak \in BOOLEAN /\ hadStdout \in BOOLEAN /\ stopScheduled \in BOOLEAN
  /\ out \in Seq(Item) /\ messages \in Seq(Message)
  /\ mutex \in {"free", "main", "handler"}
  /\ worker \in {"none", "start", "execute"}
  /\ executionResult \in {"nil", "success", "error"}
  /\ handler \in {"sigwait", "acquire", "interrupt", "flag"}
  /\ sigPending \in BOOLEAN /\ sigints \in Nat /\ sigCell \in Nat
  /\ isInterrupted \in BOOLEAN
  /\ repl \in ReplStates
  /\ returned \in {"none", "success", "error"}
  /\ cause \in {"none", "trap", "interrupt", "death", "compiler"}
  /\ stderr \in BOOLEAN
  /\ lldbCell \in Nat /\ parent \in Nat /\ sent \in Nat
  /\ stdout \in Seq(Item) /\ emitted \in Seq(Item) /\ consumed \in Seq(Item)
  /\ counter \in Nat
  /\ toKernel \in Seq(Message) /\ toLldb \in Seq(Message)

(* LLDB evaluates for one thread at a time, and what the process runs is    *)
(* what the thread waiting for it asked for: the kernel never starts on the *)
(* next cell, or on an exchange of pipes, while the worker's evaluation is  *)
(* under way.                                                               *)
OneExpressionAtATime ==
  /\ repl = "before" => main = "before" /\ worker = "none"
  /\ repl = "install" => main = "install" /\ worker = "none"
  /\ repl \in {"compile", "start", "user", "marker", "wait"}
       => worker = "execute" /\ main \notin {"idle", "before", "install"}

(* "Reset the pipes here, where `SIGINTHandler` can't simultaneously send   *)
(* an interrupt.  Otherwise, the LLDB process might halt while exchanging   *)
(* file handles" (DoExecute.swift:8-10).                                    *)
ExchangeIsNotInterrupted == handler = "interrupt" => repl # "before"

(* The pipe files are replaced only while the process does not run.         *)
ExchangeWhileStopped == [][counter' # counter => repl \in {"stopped", "dead"}]_vars

(* The process never talks through files that the kernel has removed: the   *)
(* test of validateCounter, meant for processes of former sessions, never   *)
(* ends the process of this one, whatever failed in the exchange.           *)
PipesAgree == repl \in {"marker", "wait"} => lldbCell = counter

(* The number of markers in a sequence of items. *)
Markers(items) == Cardinality({i \in DOMAIN items : items[i] = "MARKER"})

(* The message that is executed at a marker is the one that the program     *)
(* wrote there, and it carries the parent header of the cell being run.     *)
MessageMeetsItsMarker ==
  main = "await" /\ messages # <<>>
    => Head(messages) = [parent |-> cell, nth |-> Markers(consumed) + 1]

(* What the program reads as the response is the response to the request it *)
(* made, never one left over from a call that was interrupted.              *)
ReplyMatchesRequest == repl = "wait" /\ toLldb # <<>> => toLldb = <<LastMessage>>

(* "Warning: ... messages not executed" (validateMessages) is never logged  *)
(* for a cell that ran, and no message stays behind in the pipe.            *)
NoMessageLeftBehind == main = "finish" => messages = <<>> /\ toKernel = <<>>

(* All that was printed is either dealt with, in the order in which it was  *)
(* printed, or still to come, in the hands of the kernel or of LLDB.        *)
OutputInOrder == consumed \o out \o stdout = emitted

(* A cell is called a compile error when the compiler refused it, and gets  *)
(* a stack trace when it trapped ("There is no stdout, so it must be a      *)
(* compile error", DoExecute.swift:98).                                     *)
ErrorIsNamedRight ==
  main = "idle" =>
    /\ reply = "compile" => cause = "compiler"
    /\ reply = "trace" => cause = "trap"

(* A %system command is broken off only for an interruption that the user   *)
(* asked for while its own cell was running ("User interrupted execution    *)
(* during a `%system` command", HandleIO.swift:422).                        *)
SystemStopsOnlyOnItsInterrupt ==
  main = "system" /\ isInterrupted => sigCell = cell

(* The session is a CellService: output is delivered in order and once, and *)
(* a request is answered when all of its output is delivered.               *)
Service == INSTANCE CellService WITH
  busy <- main \notin {"idle", "exited"},
  produced <- emitted,
  delivered <- consumed
ImplementsCellService == Service!Spec

(* It is a fair one too, as long as no program is interrupted between a      *)
(* marker and its message: output is shown, and requests are answered.       *)
CellServiceIsFair == <>[](main = "await") \/ Service!Fairness

(* Every request is answered: no thread waits for ever for the mutex, the    *)
(* result or a response.  The one wait that may not end is the wait for the  *)
(* message of an interrupted program.                                        *)
EveryRequestIsAnswered ==
  [](main # "idle" => <>(main = "idle" \/ [](main = "await" /\ sigints > 0)))

(* A message announced in stdout is there sooner or later ("Cache miss:     *)
(* message not yet written", HandleIO.swift:74).                            *)
AwaitedMessageIsWritten == main = "await" ~> main # "await"

(* The handler thread gets to every SIGINT and comes back for the next one. *)
SigintIsHandled == []<>(handler = "sigwait" /\ ~sigPending)

(* When a cell finds the process dead, the kernel stops, so that the front  *)
(* end can restart it ("Exit the kernel because there is no way to recover  *)
(* from a killed process", DoExecute.swift:77-78).                          *)
KilledProcessStopsKernel ==
  (main = "before" /\ repl = "dead") ~> main = "exited"
=============================================================================
