------------------------ MODULE CellExecutionProofs ------------------------
(* Theorems about CellExecution, for every value of its constants.          *)
EXTENDS CellExecution, SequenceTheorems, FiniteSetTheorems, TLAPS

-----------------------------------------------------------------------------
(* Frames: what the steps of the other threads leave alone.                 *)

(* The process has no access to the variables of the kernel.                *)
LEMMA ProcessFrame ==
  ASSUME ReplStep \/ ReplFault PROVE UNCHANGED <<main, threadVars>>
BY DEF ReplStep, ReplFault, threadVars, ReplExchange, ReplExchangeFails,
  InstallReturns, InstallPrints, CompileError, Compiled, PrintHeader, UserPrints,
  UserWritesStderr, PrintMarker, SendMessage, ReceiveReply, UserDone, UserTraps,
  ReplDies

(* The worker, the handler and the signals leave the locals of the main     *)
(* thread alone.                                                            *)
LEMMA ThreadFrame ==
  ASSUME WorkerStep \/ HandlerStep \/ Sigint
  PROVE  UNCHANGED <<main, requestVars, drainVars>>
BY DEF WorkerStep, HandlerStep, Sigint, WorkerExecute, WorkerStore,
  HandlerSigwait, HandlerAcquire, HandlerInterrupt, HandlerFlag, requestVars,
  drainVars

-----------------------------------------------------------------------------
(* Types.                                                                   *)

(* The main thread reads the pipe only with a marker at hand.               *)
AwaitsAtMarker == main = "await" => out # <<>> /\ Head(out) = "MARKER"

(* MeetMarker is the only way to get there.                                 *)
LEMMA AwaitsAtMarkerInductive ==
  ASSUME AwaitsAtMarker, [Next]_vars PROVE AwaitsAtMarker'
<1> USE DEF AwaitsAtMarker
<1>1. CASE MeetMarker BY <1>1 DEF MeetMarker, drainVars, threadVars
<1>2. CASE ReceiveMessages BY <1>2 DEF ReceiveMessages
<1>3. CASE WorkerStep \/ HandlerStep \/ Sigint
  BY <1>3, ThreadFrame DEF drainVars
<1>4. CASE ReplStep \/ ReplFault
  BY <1>4, ProcessFrame DEF drainVars, threadVars
<1>5. CASE UNCHANGED vars BY <1>5 DEF vars, drainVars, threadVars
<1>6. CASE ReceiveRequest BY <1>6 DEF ReceiveRequest
<1>7. CASE ExchangePipes \/ FinishExchange \/ Setup \/ RunSystem \/ SystemFinished
  BY <1>7 DEF ExchangePipes, FinishExchange, Setup, RunSystem, SystemFinished
<1>8. CASE SystemInterrupted \/ RunInstall \/ InstallFinished \/ PreprocessFails
  BY <1>8 DEF SystemInterrupted, RunInstall, InstallFinished, PreprocessFails, Leave
<1>9. CASE LaunchWorker \/ PollResult \/ NothingToRead \/ ReadHeader \/ ReadMore
  BY <1>9 DEF LaunchWorker, PollResult, NothingToRead, ReadHeader, ReadMore,
    AfterDrain
<1>10. CASE HeaderMissing \/ SendText \/ SendFinished \/ ExecuteMessage \/ Finish
              \/ KernelExit
  BY <1>10 DEF HeaderMissing, SendText, SendFinished, ExecuteMessage, Finish,
    KernelExit, AfterDrain, Leave
<1> QED BY <1>1, <1>2, <1>3, <1>4, <1>5, <1>6, <1>7, <1>8, <1>9, <1>10
  DEF Next, MainStep

(* A trap leaves a Boolean in stderr.                                       *)
LEMMA TrapKeepsType ==
  ASSUME TypeOK, Trap \/ UNCHANGED stderr PROVE stderr' \in BOOLEAN
BY Zenon DEF TypeOK, Trap

(* Every step of every thread, and of the process, preserves the types.     *)
LEMMA TypeInductive ==
  ASSUME TypeOK, AwaitsAtMarker, [Next]_vars PROVE TypeOK'
<1> USE BoundsAssumption
<1> USE DEF TypeOK, threadVars, processVars, requestVars, drainVars, workerVars,
    signalVars, evalVars, hookVars, outputVars, pipeVars, MainStates, ReplStates
<1>1. CASE ReceiveRequest BY <1>1 DEF ReceiveRequest
<1>2. CASE Sigint BY <1>2 DEF Sigint
<1>3. CASE ExchangePipes BY <1>3 DEF ExchangePipes, ResetPipes, Lock, Evaluate
<1>4. CASE FinishExchange BY <1>4 DEF FinishExchange, Unlock
<1>5. CASE Setup
  <2>1. isInterrupted' \in BOOLEAN /\ hadStdout' \in BOOLEAN /\ stderr' \in BOOLEAN
    BY <1>5, Zenon DEF Setup
  <2> QED BY <1>5, <2>1 DEF Setup
<1>6. CASE RunSystem BY <1>6 DEF RunSystem
<1>7. CASE SystemFinished BY <1>7 DEF SystemFinished
<1>8. CASE SystemInterrupted BY <1>8 DEF SystemInterrupted, Leave
<1>9. CASE RunInstall BY <1>9 DEF RunInstall, Evaluate
<1>10. CASE InstallFinished BY <1>10 DEF InstallFinished, Leave
<1>11. CASE PreprocessFails BY <1>11 DEF PreprocessFails, Leave
<1>12. CASE LaunchWorker BY <1>12 DEF LaunchWorker
<1>13. CASE PollResult BY <1>13 DEF PollResult
<1>14. CASE NothingToRead BY <1>14 DEF NothingToRead, AfterDrain
<1>15. CASE ReadHeader BY <1>15 DEF ReadHeader, Consume, Item
<1>16. CASE ReadMore BY <1>16 DEF ReadMore
<1>17. CASE HeaderMissing BY <1>17 DEF HeaderMissing
<1>18. CASE SendText BY <1>18 DEF SendText, Consume
<1>19. CASE MeetMarker BY <1>19 DEF MeetMarker
<1>20. CASE SendFinished BY <1>20 DEF SendFinished, AfterDrain
<1>21. CASE ReceiveMessages BY <1>21 DEF ReceiveMessages
<1>22. CASE ExecuteMessage
  <2>1. out # <<>>
    BY <1>22 DEF ExecuteMessage, AwaitsAtMarker
  <2>2. "MARKER" \in Item
    BY DEF Item
  <2> QED BY <1>22, <2>1, <2>2 DEF ExecuteMessage, Consume
<1>23. CASE Finish BY <1>23 DEF Finish, Leave, Report
<1>24. CASE KernelExit BY <1>24 DEF KernelExit
<1>25. CASE WorkerExecute BY <1>25 DEF WorkerExecute, Evaluate
<1>26. CASE WorkerStore BY <1>26 DEF WorkerStore
<1>27. CASE HandlerSigwait
  <2>1. sigPending' \in BOOLEAN
    BY <1>27, Zenon DEF HandlerSigwait
  <2> QED BY <1>27, <2>1 DEF HandlerSigwait
<1>28. CASE HandlerAcquire BY <1>28 DEF HandlerAcquire, Lock
<1>29. CASE HandlerInterrupt
  BY <1>29 DEF HandlerInterrupt, Interrupt, Return, Unlock
<1>30. CASE HandlerFlag BY <1>30 DEF HandlerFlag
<1>31. CASE ReplExchange BY <1>31 DEF ReplExchange, Return
<1>32. CASE ReplExchangeFails
  <2>1. stderr' \in BOOLEAN
    BY <1>32, TrapKeepsType, Zenon DEF ReplExchangeFails
  <2> QED BY <1>32, <2>1 DEF ReplExchangeFails, Trap, Return
<1>33. CASE InstallReturns
  <2>1. stderr' \in BOOLEAN
    BY <1>33, TrapKeepsType, Zenon DEF InstallReturns
  <2>2. /\ repl' = "stopped"
        /\ returned' \in {"success", "error"}
        /\ cause' \in {"none", "trap"}
    BY <1>33 DEF InstallReturns, Trap, Return
  <2>3. UNCHANGED <<main, threadVars, hookVars, outputVars, pipeVars>>
    BY <1>33 DEF InstallReturns
  <2> QED BY <2>1, <2>2, <2>3
<1>34. CASE InstallPrints BY <1>34 DEF InstallPrints, Emit, Item
<1>35. CASE CompileError BY <1>35 DEF CompileError, Return
<1>36. CASE Compiled BY <1>36 DEF Compiled
<1>37. CASE PrintHeader BY <1>37 DEF PrintHeader, Emit, Item
<1>38. CASE UserPrints BY <1>38 DEF UserPrints, Emit, Item
<1>39. CASE UserWritesStderr BY <1>39 DEF UserWritesStderr
<1>40. CASE PrintMarker BY <1>40 DEF PrintMarker, Emit, Item
<1>41. CASE SendMessage
  <2>1. stderr' \in BOOLEAN
    BY <1>41, TrapKeepsType, Zenon DEF SendMessage
  <2>2. CASE lldbCell = counter
    <3>1. toKernel' = Append(toKernel, NextMessage) /\ sent' = sent + 1
      BY <1>41, <2>2 DEF SendMessage
    <3>2. toKernel' \in Seq(Message) /\ sent' \in Nat
      BY <3>1 DEF NextMessage, Message
    <3> QED BY <1>41, <2>1, <2>2, <3>2 DEF SendMessage
  <2>3. CASE lldbCell # counter
    BY <1>41, <2>1, <2>3 DEF SendMessage, Trap, Return
  <2> QED BY <2>2, <2>3
<1>42. CASE ReceiveReply
  <2>1. stderr' \in BOOLEAN
    BY <1>42, TrapKeepsType, Zenon DEF ReceiveReply
  <2>2. CASE Len(toLldb) <= 1
    BY <1>42, <2>1, <2>2 DEF ReceiveReply
  <2>3. CASE ~(Len(toLldb) <= 1)
    BY <1>42, <2>1, <2>3 DEF ReceiveReply, Trap, Return
  <2> QED BY <2>2, <2>3
<1>43. CASE UserDone BY <1>43 DEF UserDone, Return
<1>44. CASE UserTraps
  <2>1. stderr' \in BOOLEAN
    BY <1>44, TrapKeepsType, Zenon DEF UserTraps
  <2> QED BY <1>44, <2>1 DEF UserTraps, Trap, Return
<1>45. CASE ReplDies BY <1>45 DEF ReplDies
<1>46. CASE UNCHANGED vars BY <1>46 DEF vars
<1> QED BY <1>1, <1>2, <1>3, <1>4, <1>5, <1>6, <1>7, <1>8, <1>9, <1>10, <1>11,
  <1>12, <1>13, <1>14, <1>15, <1>16, <1>17, <1>18, <1>19, <1>20, <1>21, <1>22,
  <1>23, <1>24, <1>25, <1>26, <1>27, <1>28, <1>29, <1>30, <1>31, <1>32, <1>33,
  <1>34, <1>35, <1>36, <1>37, <1>38, <1>39, <1>40, <1>41, <1>42, <1>43, <1>44,
  <1>45, <1>46 DEF Next, MainStep, WorkerStep, HandlerStep, ReplStep,
  ReplFault

LEMMA InitTypes == ASSUME Init PROVE TypeOK /\ AwaitsAtMarker
<1>1. /\ {stderr, empty, stopScheduled, shouldBreak, hadStdout} \subseteq BOOLEAN
      /\ {sigPending, isInterrupted} \subseteq BOOLEAN
  BY Zenon DEF Init
<1> QED BY <1>1 DEF Init, TypeOK, MainStates, ReplStates, AwaitsAtMarker

(* Every variable has its type in every state of the program.               *)
THEOREM TypeCorrect == Spec => []TypeOK
<1>1. Init => TypeOK /\ AwaitsAtMarker
  BY InitTypes
<1>2. TypeOK /\ AwaitsAtMarker /\ [Next]_vars => (TypeOK /\ AwaitsAtMarker)'
  BY TypeInductive, AwaitsAtMarkerInductive
<1> QED BY <1>1, <1>2, PTL DEF Spec

-----------------------------------------------------------------------------
(* The invariant of the threads.                                            *)

(* The mutex is held by the thread that is inside its critical section.     *)
(* The main thread may hold it elsewhere: it keeps it when it throws.       *)
MutexHeld ==
  /\ main = "before" => mutex = "main"
  /\ handler = "interrupt" => mutex = "handler"

(* An evaluation has returned when the process is not running.              *)
EvaluationReturned == returned = "none" <=> repl \notin {"stopped", "dead"}

(* The worker lives while the main thread polls, and has left its result    *)
(* when the main thread has decided to stop polling.                        *)
WorkerIsPolled ==
  /\ worker # "none" =>
       /\ main \in {"sleep", "drain", "send", "await", "crashed"}
       /\ executionResult = "nil"
  /\ main \in {"drain", "send", "await"} /\ shouldBreak => worker = "none"

(* From the moment the exchange has succeeded until the cell is answered,   *)
(* the process has the latest pipes open.  An empty cell exchanges nothing, *)
(* but its program sends nothing either.                                    *)
PipesExchanged ==
  /\ ~empty /\ (\/ main \in {"setup", "preprocess", "system", "install", "sleep",
                             "drain", "send", "await", "finish", "crashed"}
                \/ main = "before" /\ returned = "success")
       => lldbCell = counter
  /\ repl \in {"marker", "wait"} => ~empty

ControlInvariant ==
  /\ MutexHeld
  /\ EvaluationReturned
  /\ WorkerIsPolled
  /\ OneExpressionAtATime
  /\ PipesExchanged

LEMMA ControlInductive ==
  ASSUME ControlInvariant, [Next]_vars PROVE ControlInvariant'
<1> USE DEF ControlInvariant, MutexHeld, EvaluationReturned, WorkerIsPolled,
    OneExpressionAtATime, PipesExchanged
<1> USE DEF threadVars, processVars, requestVars, drainVars, workerVars,
    signalVars, evalVars, hookVars, outputVars, pipeVars
<1>1. CASE ReceiveRequest BY <1>1 DEF ReceiveRequest
<1>2. CASE Sigint BY <1>2 DEF Sigint
<1>3. CASE ExchangePipes BY <1>3 DEF ExchangePipes, ResetPipes, Lock, Evaluate
<1>4. CASE FinishExchange BY <1>4 DEF FinishExchange, Unlock
<1>5. CASE Setup BY <1>5 DEF Setup
<1>6. CASE RunSystem BY <1>6 DEF RunSystem
<1>7. CASE SystemFinished BY <1>7 DEF SystemFinished
<1>8. CASE SystemInterrupted BY <1>8 DEF SystemInterrupted, Leave
<1>9. CASE RunInstall BY <1>9 DEF RunInstall, Evaluate
<1>10. CASE InstallFinished BY <1>10 DEF InstallFinished, Leave
<1>11. CASE PreprocessFails BY <1>11 DEF PreprocessFails, Leave
<1>12. CASE LaunchWorker BY <1>12 DEF LaunchWorker
<1>13. CASE PollResult BY <1>13 DEF PollResult
<1>14. CASE NothingToRead BY <1>14 DEF NothingToRead, AfterDrain
<1>15. CASE ReadHeader BY <1>15 DEF ReadHeader, Consume
<1>16. CASE ReadMore BY <1>16 DEF ReadMore
<1>17. CASE HeaderMissing BY <1>17 DEF HeaderMissing
<1>18. CASE SendText BY <1>18 DEF SendText, Consume
<1>19. CASE MeetMarker BY <1>19 DEF MeetMarker
<1>20. CASE SendFinished BY <1>20 DEF SendFinished, AfterDrain
<1>21. CASE ReceiveMessages BY <1>21 DEF ReceiveMessages
<1>22. CASE ExecuteMessage BY <1>22 DEF ExecuteMessage, Consume
<1>23. CASE Finish BY <1>23 DEF Finish, Leave, Report
<1>24. CASE KernelExit BY <1>24 DEF KernelExit
<1>25. CASE WorkerExecute BY <1>25 DEF WorkerExecute, Evaluate
<1>26. CASE WorkerStore BY <1>26 DEF WorkerStore
<1>27. CASE HandlerSigwait BY <1>27 DEF HandlerSigwait
<1>28. CASE HandlerAcquire BY <1>28 DEF HandlerAcquire, Lock
<1>29. CASE HandlerInterrupt
  BY <1>29 DEF HandlerInterrupt, Interrupt, Return, Unlock, Running
<1>30. CASE HandlerFlag BY <1>30 DEF HandlerFlag
<1>31. CASE ReplExchange BY <1>31 DEF ReplExchange, Return
<1>32. CASE ReplExchangeFails BY <1>32 DEF ReplExchangeFails, Trap, Return
<1>33. CASE InstallReturns BY <1>33 DEF InstallReturns, Trap, Return
<1>34. CASE InstallPrints BY <1>34 DEF InstallPrints, Emit
<1>35. CASE CompileError BY <1>35 DEF CompileError, Return
<1>36. CASE Compiled BY <1>36 DEF Compiled
<1>37. CASE PrintHeader BY <1>37 DEF PrintHeader, Emit
<1>38. CASE UserPrints BY <1>38 DEF UserPrints, Emit
<1>39. CASE UserWritesStderr BY <1>39 DEF UserWritesStderr
<1>40. CASE PrintMarker BY <1>40 DEF PrintMarker, Emit
<1>41. CASE SendMessage BY <1>41 DEF SendMessage, Trap, Return, NextMessage
<1>42. CASE ReceiveReply BY <1>42 DEF ReceiveReply, Trap, Return
<1>43. CASE UserDone BY <1>43 DEF UserDone, Return
<1>44. CASE UserTraps BY <1>44 DEF UserTraps, Trap, Return
<1>45. CASE ReplDies BY <1>45 DEF ReplDies
<1>46. CASE UNCHANGED vars BY <1>46 DEF vars
<1> QED BY <1>1, <1>2, <1>3, <1>4, <1>5, <1>6, <1>7, <1>8, <1>9, <1>10, <1>11,
  <1>12, <1>13, <1>14, <1>15, <1>16, <1>17, <1>18, <1>19, <1>20, <1>21, <1>22,
  <1>23, <1>24, <1>25, <1>26, <1>27, <1>28, <1>29, <1>30, <1>31, <1>32, <1>33,
  <1>34, <1>35, <1>36, <1>37, <1>38, <1>39, <1>40, <1>41, <1>42, <1>43, <1>44,
  <1>45, <1>46 DEF Next, MainStep, WorkerStep, HandlerStep, ReplStep,
  ReplFault

(* The invariant holds from the start on.                                   *)
LEMMA ControlCorrect == Spec => []ControlInvariant
<1>1. Init => ControlInvariant
  BY DEF Init, ControlInvariant, MutexHeld, EvaluationReturned, WorkerIsPolled,
    OneExpressionAtATime, PipesExchanged
<1>2. ControlInvariant /\ [Next]_vars => ControlInvariant'
  BY ControlInductive
<1> QED BY <1>1, <1>2, PTL DEF Spec

(* No two evaluations overlap, and the thread that waits for the one under  *)
(* way is the thread that started it.                                       *)
THEOREM OneExpressionAlways == Spec => []OneExpressionAtATime
<1>1. ControlInvariant => OneExpressionAtATime
  BY DEF ControlInvariant
<1> QED BY <1>1, ControlCorrect, PTL

(* No SIGINT halts the process while it opens the new pipes: the main       *)
(* thread holds the mutex then, and the handler interrupts only with it.    *)
THEOREM ExchangeNeverInterrupted == Spec => []ExchangeIsNotInterrupted
<1>1. ControlInvariant => ExchangeIsNotInterrupted
  BY DEF ControlInvariant, MutexHeld, OneExpressionAtATime,
    ExchangeIsNotInterrupted
<1> QED BY <1>1, ControlCorrect, PTL

(* The process never talks through removed files, whatever failed in the    *)
(* exchange: a failed exchange ends the request before its program starts.  *)
THEOREM PipesAlwaysAgree == Spec => []PipesAgree
<1>1. ControlInvariant => PipesAgree
  BY DEF ControlInvariant, OneExpressionAtATime, WorkerIsPolled, PipesExchanged,
    PipesAgree
<1> QED BY <1>1, ControlCorrect, PTL

(* The pipes are replaced by ExchangePipes alone, and never under a running *)
(* program.                                                                 *)
THEOREM ExchangeOnlyWhileStopped == Spec => ExchangeWhileStopped
<1>1. ASSUME [Next]_vars, counter' # counter PROVE ExchangePipes
  <2> USE DEF threadVars, processVars, pipeVars
  <2>1. CASE MainStep
    BY <1>1, <2>1 DEF MainStep, FinishExchange, Setup, RunSystem, SystemFinished,
      SystemInterrupted, RunInstall, InstallFinished, PreprocessFails,
      LaunchWorker, PollResult, NothingToRead, ReadHeader, ReadMore,
      HeaderMissing, SendText, MeetMarker, SendFinished, ReceiveMessages,
      ExecuteMessage, Finish, KernelExit
  <2>2. CASE WorkerStep \/ HandlerStep
    BY <1>1, <2>2 DEF WorkerStep, WorkerExecute, WorkerStore, HandlerStep,
      HandlerSigwait, HandlerAcquire, HandlerInterrupt, HandlerFlag
  <2>3. CASE ReplStep \/ ReplFault
    BY <1>1, <2>3 DEF ReplStep, ReplFault, ReplExchange, ReplExchangeFails,
      InstallReturns, InstallPrints, CompileError, Compiled, PrintHeader,
      UserPrints, UserWritesStderr, PrintMarker, SendMessage, ReceiveReply,
      UserDone, UserTraps, ReplDies
  <2>4. CASE ReceiveRequest \/ Sigint
    BY <1>1, <2>4 DEF ReceiveRequest, Sigint
  <2>5. ~ UNCHANGED vars
    BY <1>1 DEF vars
  <2> QED BY <1>1, <2>1, <2>2, <2>3, <2>4, <2>5 DEF Next
<1>2. ASSUME TypeOK, ControlInvariant, [Next]_vars, counter' # counter
      PROVE  repl \in {"stopped", "dead"}
  <2>1. main = "acquire"
    BY <1>1, <1>2 DEF ExchangePipes
  <2> QED BY <2>1, <1>2 DEF TypeOK, ReplStates, ControlInvariant,
    OneExpressionAtATime, WorkerIsPolled
<1>3. TypeOK /\ ControlInvariant /\ [Next]_vars
        => [counter' # counter => repl \in {"stopped", "dead"}]_vars
  BY <1>2
<1> QED BY <1>3, TypeCorrect, ControlCorrect, PTL DEF Spec, ExchangeWhileStopped

-----------------------------------------------------------------------------
(* The invariant of the reports, as long as nobody interrupts.              *)

Polling == {"sleep", "drain", "send", "await", "finish"}
NoHeader(items) == \A i \in DOMAIN items : items[i] # "HEADER"

(* The program of the cell has not printed its header, and if it is over it *)
(* never will.                                                              *)
Unprinted ==
  \/ worker = "start"
  \/ repl \in {"compile", "start"}
  \/ repl = "stopped" /\ cause = "compiler"

(* The header that is read is the one of this cell: nothing printed before, *)
(* by a library that %install loads, is a header.                           *)
HeaderIsOwn ==
  /\ main \in {"idle", "acquire", "before", "setup", "preprocess", "system", "install"}
       => NoHeader(stdout)
  /\ main \in {"preprocess", "system", "install"} => ~hadStdout
  /\ main \in Polling /\ repl # "dead" =>
       IF Unprinted THEN ~hadStdout /\ NoHeader(stdout)
                    ELSE hadStdout \/ stdout # <<>>

(* The output is read to its end before the cell is reported.               *)
ReadToTheEnd ==
  /\ main = "finish" => stdout = <<>>
  /\ main \in {"send", "await"} /\ shouldBreak => stdout = <<>>

(* The result that is reported is the one of the latest evaluation; without *)
(* a SIGINT it fails only for these reasons.                                *)
ResultIsLatest ==
  /\ main \in Polling /\ worker = "none"
       => executionResult = returned /\ returned # "none"
  /\ returned = "error" /\ repl # "dead" => cause \in {"trap", "compiler"}

Uninterrupted == handler = "sigwait" /\ ~sigPending /\ ~isInterrupted

NamingInvariant ==
  sigints = 0 => /\ Uninterrupted /\ HeaderIsOwn /\ ReadToTheEnd /\ ResultIsLatest
                 /\ ErrorIsNamedRight

LEMMA NamingInductive ==
  ASSUME TypeOK, ControlInvariant, NamingInvariant, [Next]_vars PROVE NamingInvariant'
<1> USE TextAssumption
<1> USE DEF NamingInvariant, Uninterrupted, HeaderIsOwn, ReadToTheEnd, ResultIsLatest,
    Polling, Unprinted, NoHeader, ErrorIsNamedRight
<1> USE DEF ControlInvariant, EvaluationReturned, WorkerIsPolled, OneExpressionAtATime
<1> USE DEF threadVars, processVars, requestVars, drainVars, workerVars,
    signalVars, evalVars, hookVars, outputVars, pipeVars
<1>1. CASE ReceiveRequest BY <1>1 DEF ReceiveRequest
<1>2. CASE Sigint
  <2>1. sigints \in Nat /\ sigints' = sigints + 1
    BY <1>2 DEF Sigint, TypeOK
  <2>2. sigints' # 0
    BY <2>1
  <2> QED BY <2>2
<1>3. CASE ExchangePipes BY <1>3 DEF ExchangePipes, ResetPipes, Lock, Evaluate
<1>4. CASE FinishExchange BY <1>4 DEF FinishExchange, Unlock
<1>5. CASE Setup BY <1>5 DEF Setup
<1>6. CASE RunSystem BY <1>6 DEF RunSystem
<1>7. CASE SystemFinished BY <1>7 DEF SystemFinished
<1>8. CASE SystemInterrupted BY <1>8 DEF SystemInterrupted, Leave
<1>9. CASE RunInstall BY <1>9 DEF RunInstall, Evaluate
<1>10. CASE InstallFinished BY <1>10 DEF InstallFinished, Leave
<1>11. CASE PreprocessFails BY <1>11 DEF PreprocessFails, Leave
<1>12. CASE LaunchWorker BY <1>12 DEF LaunchWorker
<1>13. CASE PollResult BY <1>13 DEF PollResult
<1>14. CASE NothingToRead BY <1>14 DEF NothingToRead, AfterDrain
<1>15. CASE ReadHeader
  <2>1. 1 \in DOMAIN stdout /\ stdout[1] = "HEADER"
    BY <1>15 DEF ReadHeader, TypeOK
  <2>2. sigints = 0 /\ repl # "dead" => ~Unprinted
    BY <1>15, <2>1 DEF ReadHeader
  <2> QED BY <1>15, <2>2 DEF ReadHeader
<1>16. CASE ReadMore BY <1>16 DEF ReadMore
<1>17. CASE HeaderMissing BY <1>17 DEF HeaderMissing
<1>18. CASE SendText BY <1>18 DEF SendText, Consume
<1>19. CASE MeetMarker BY <1>19 DEF MeetMarker
<1>20. CASE SendFinished BY <1>20 DEF SendFinished, AfterDrain
<1>21. CASE ReceiveMessages BY <1>21 DEF ReceiveMessages
<1>22. CASE ExecuteMessage BY <1>22 DEF ExecuteMessage, Consume
<1>23. CASE Finish
  <2>1. /\ main = "finish" /\ main' = "idle" /\ reply' = Report /\ worker = "none"
        /\ UNCHANGED <<worker, handler, sigPending, sigints, isInterrupted, hadStdout, repl,
                       returned, cause, stdout>>
    BY <1>23 DEF Finish, Leave
  <2>2. executionResult \in {"nil", "success", "error"} /\ returned \in {"none", "success", "error"}
        /\ repl \in ReplStates
    BY DEF TypeOK
  <2>3. sigints = 0 /\ Report = "compile" => cause = "compiler"
    BY <2>1, <2>2 DEF Report
  <2>4. sigints = 0 /\ Report = "trace" => cause = "trap"
    BY <2>1, <2>2 DEF Report
  <2> QED BY <2>1, <2>3, <2>4
<1>24. CASE KernelExit BY <1>24 DEF KernelExit
<1>25. CASE WorkerExecute BY <1>25 DEF WorkerExecute, Evaluate
<1>26. CASE WorkerStore BY <1>26 DEF WorkerStore
<1>27. CASE HandlerSigwait BY <1>27 DEF HandlerSigwait
<1>28. CASE HandlerAcquire BY <1>28 DEF HandlerAcquire, Lock
<1>29. CASE HandlerInterrupt BY <1>29 DEF HandlerInterrupt, Interrupt, Return, Unlock, Running
<1>30. CASE HandlerFlag BY <1>30 DEF HandlerFlag
<1>31. CASE ReplExchange BY <1>31 DEF ReplExchange, Return
<1>32. CASE ReplExchangeFails BY <1>32 DEF ReplExchangeFails, Trap, Return
<1>33. CASE InstallReturns BY <1>33 DEF InstallReturns, Trap, Return
<1>34. CASE InstallPrints BY <1>34 DEF InstallPrints, Emit
<1>35. CASE CompileError BY <1>35 DEF CompileError, Return
<1>36. CASE Compiled BY <1>36 DEF Compiled
<1>37. CASE PrintHeader BY <1>37 DEF PrintHeader, Emit
<1>38. CASE UserPrints BY <1>38 DEF UserPrints, Emit
<1>39. CASE UserWritesStderr BY <1>39 DEF UserWritesStderr
<1>40. CASE PrintMarker BY <1>40 DEF PrintMarker, Emit
<1>41. CASE SendMessage BY <1>41 DEF SendMessage, Trap, Return
<1>42. CASE ReceiveReply BY <1>42 DEF ReceiveReply, Trap, Return
<1>43. CASE UserDone BY <1>43 DEF UserDone, Return
<1>44. CASE UserTraps BY <1>44 DEF UserTraps, Trap, Return
<1>45. CASE ReplDies
  <2>1. /\ repl' = "dead" /\ repl \in ReplStates
        /\ repl = "stopped" => UNCHANGED <<returned, cause>>
        /\ UNCHANGED <<main, worker, executionResult, handler, sigPending, sigints, isInterrupted,
                       hadStdout, shouldBreak, reply, stdout>>
    BY <1>45 DEF ReplDies, TypeOK
  <2>2. main \in {"idle", "finish"} => repl \in {"stopped", "dead"}
    BY <2>1 DEF ReplStates
  <2>3. main \in Polling /\ worker = "none" => repl \in {"stopped", "dead"}
    BY <2>1 DEF ReplStates
  <2>4. repl # "dead"
    BY <1>45 DEF ReplDies
  <2> QED BY <2>1, <2>2, <2>3, <2>4
<1>46. CASE UNCHANGED vars BY <1>46 DEF vars
<1> QED BY <1>1, <1>2, <1>3, <1>4, <1>5, <1>6, <1>7, <1>8, <1>9, <1>10, <1>11,
  <1>12, <1>13, <1>14, <1>15, <1>16, <1>17, <1>18, <1>19, <1>20, <1>21, <1>22,
  <1>23, <1>24, <1>25, <1>26, <1>27, <1>28, <1>29, <1>30, <1>31, <1>32, <1>33,
  <1>34, <1>35, <1>36, <1>37, <1>38, <1>39, <1>40, <1>41, <1>42, <1>43, <1>44,
  <1>45, <1>46
  DEF Next, MainStep, WorkerStep, HandlerStep, ReplStep, ReplFault

(* As long as no SIGINT was sent, whatever else goes wrong: a cell is called *)
(* a compile error when the compiler refused it, and only a trap is reported *)
(* with a stack trace (DoExecute.swift:73-110).                              *)
THEOREM ErrorsAreNamedRight == Spec => [](sigints = 0 => ErrorIsNamedRight)
<1> DEFINE Named == sigints = 0 => ErrorIsNamedRight
<1>1. Init => NamingInvariant
  BY DEF Init, NamingInvariant, Uninterrupted, HeaderIsOwn, ReadToTheEnd, ResultIsLatest,
    Polling, NoHeader, ErrorIsNamedRight
<1>2. TypeOK /\ ControlInvariant /\ NamingInvariant /\ [Next]_vars => NamingInvariant'
  BY NamingInductive
<1>3. NamingInvariant => Named
  BY DEF NamingInvariant
<1>4. Spec => []Named
  BY <1>1, <1>2, <1>3, TypeCorrect, ControlCorrect, PTL DEF Spec
<1> QED BY <1>4

-----------------------------------------------------------------------------
(* What a cell prints and sends: output is not lost, doubled or reordered,  *)
(* and the session implements CellService; each message is executed at the  *)
(* marker that announces it, and its response reaches the call that waits   *)
(* for it.                                                                  *)
-----------------------------------------------------------------------------
(* Sequences.                                                               *)

(* The head of the second of three parts moves to the end of the first.     *)
LEMMA MoveHead ==
  ASSUME NEW S, NEW s \in Seq(S), NEW t \in Seq(S), NEW u \in Seq(S), t # <<>>
  PROVE  Append(s, Head(t)) \o Tail(t) \o u = s \o t \o u
<1> DEFINE left == Append(s, Head(t)) \o Tail(t)
<1>1. /\ Head(t) \in S /\ Tail(t) \in Seq(S) /\ Len(Tail(t)) = Len(t) - 1
      /\ \A i \in 1 .. Len(Tail(t)) : Tail(t)[i] = t[i + 1]
      /\ Head(t) = t[1]
  BY HeadTailProperties
<1>2. /\ Append(s, Head(t)) \in Seq(S) /\ Len(Append(s, Head(t))) = Len(s) + 1
      /\ \A i \in 1 .. Len(s) : Append(s, Head(t))[i] = s[i]
      /\ Append(s, Head(t))[Len(s) + 1] = t[1]
  BY <1>1, AppendProperties
<1>3. left \in Seq(S) /\ s \o t \in Seq(S)
  BY <1>1, <1>2, ConcatProperties
<1>4. Len(left) = Len(s \o t)
  BY <1>1, <1>2, ConcatProperties
<1>5. ASSUME NEW i \in 1 .. Len(left) PROVE left[i] = (s \o t)[i]
  <2>1. CASE i <= Len(s)
    BY <1>1, <1>2, <2>1, ConcatProperties
  <2>2. CASE i = Len(s) + 1
    BY <1>1, <1>2, <2>2, ConcatProperties
  <2>3. CASE i > Len(s) + 1
    BY <1>1, <1>2, <2>3, ConcatProperties
  <2> QED BY <2>1, <2>2, <2>3
<1>6. left = s \o t
  BY <1>3, <1>4, <1>5, SeqEqual
<1> QED BY <1>6

(* What is appended to the last part is appended to the whole.              *)
LEMMA AppendLast ==
  ASSUME NEW S, NEW s \in Seq(S), NEW u \in Seq(S), NEW e \in S
  PROVE  s \o Append(u, e) = Append(s \o u, e)
<1>1. s \o u \in Seq(S) /\ <<e>> \in Seq(S)
  BY ConcatProperties
<1>2. Append(u, e) = u \o <<e>> /\ Append(s \o u, e) = (s \o u) \o <<e>>
  BY <1>1, AppendIsConcat
<1> QED BY <1>1, <1>2, ConcatAssociative

-----------------------------------------------------------------------------
(* The invariant of the output.                                             *)

(* Output that was read and not yet sent is in the hands of sendStdout.     *)
OutputInHand == main \notin {"send", "await"} => out = <<>>

OutputInvariant == TypeOK /\ AwaitsAtMarker /\ OutputInHand /\ OutputInOrder

(* The process has printed. *)
ProcessPrints ==
  /\ \/ main = "install" /\ "print" \in Faults
     \/ main \in {"sleep", "drain", "send", "await"} /\ worker = "execute"
  /\ \E item \in Item : Emit(item)
  /\ UNCHANGED <<main, threadVars>>

(* The steps that have to do with the output. *)
LEMMA OutputSteps ==
  ASSUME ControlInvariant, [Next]_vars
  PROVE  \/ ReceiveRequest \/ ReadHeader \/ ReadMore \/ SendText \/ ExecuteMessage
         \/ ProcessPrints
         \/ UNCHANGED <<out, outputVars>>
<1> USE DEF drainVars, threadVars, outputVars, processVars
<1>1. CASE MainStep
  BY <1>1 DEF MainStep, ExchangePipes, FinishExchange, Setup, RunSystem,
    SystemFinished, SystemInterrupted, RunInstall, InstallFinished,
    PreprocessFails, LaunchWorker, PollResult, NothingToRead, HeaderMissing,
    MeetMarker, SendFinished, ReceiveMessages, Finish, KernelExit
<1>2. CASE WorkerStep \/ HandlerStep \/ Sigint
  BY <1>2 DEF WorkerStep, WorkerExecute, WorkerStore, HandlerStep, HandlerSigwait,
    HandlerAcquire, HandlerInterrupt, HandlerFlag, Sigint
<1>3. CASE InstallPrints \/ PrintHeader \/ UserPrints \/ PrintMarker
  <2>1. \E item \in Item : Emit(item)
    BY <1>3 DEF InstallPrints, PrintHeader, UserPrints, PrintMarker, Item
  <2>2. \/ main = "install" /\ "print" \in Faults
        \/ main \in {"sleep", "drain", "send", "await"} /\ worker = "execute"
    BY <1>3 DEF InstallPrints, PrintHeader, UserPrints, PrintMarker, KernelAlive,
      ControlInvariant, OneExpressionAtATime, WorkerIsPolled
  <2> QED BY <1>3, <2>1, <2>2 DEF ProcessPrints, InstallPrints, PrintHeader,
    UserPrints, PrintMarker
<1>4. CASE (ReplStep \/ ReplFault)
           /\ ~ (InstallPrints \/ PrintHeader \/ UserPrints \/ PrintMarker)
  BY <1>4 DEF ReplStep, ReplFault, ReplExchange, ReplExchangeFails,
    InstallReturns, CompileError, Compiled, UserWritesStderr, SendMessage,
    ReceiveReply, UserDone, UserTraps, ReplDies
<1>5. CASE UNCHANGED vars BY <1>5 DEF vars
<1> QED BY <1>1, <1>2, <1>3, <1>4, <1>5 DEF Next

(* sendStdout begins with its hands empty and ends with them empty. *)
LEMMA OutputInHandInductive ==
  ASSUME OutputInHand, [Next]_vars PROVE OutputInHand'
<1> USE DEF OutputInHand, drainVars, threadVars
<1>1. CASE WorkerStep \/ HandlerStep \/ Sigint
  BY <1>1, ThreadFrame
<1>2. CASE ReplStep \/ ReplFault BY <1>2, ProcessFrame
<1>3. CASE UNCHANGED vars BY <1>3 DEF vars
<1>4. CASE ReceiveRequest \/ ExchangePipes \/ FinishExchange \/ Setup \/ RunSystem
           \/ SystemFinished
  BY <1>4 DEF ReceiveRequest, ExchangePipes, FinishExchange, Setup, RunSystem,
    SystemFinished
<1>5. CASE SystemInterrupted \/ RunInstall \/ InstallFinished \/ PreprocessFails
           \/ LaunchWorker \/ PollResult \/ NothingToRead
  BY <1>5 DEF SystemInterrupted, RunInstall, InstallFinished, PreprocessFails,
    Leave, LaunchWorker, PollResult, NothingToRead
<1>6. CASE ReadHeader \/ ReadMore \/ HeaderMissing \/ SendText \/ MeetMarker
  BY <1>6 DEF ReadHeader, ReadMore, HeaderMissing, SendText, MeetMarker
<1>7. CASE SendFinished \/ ReceiveMessages \/ ExecuteMessage \/ Finish \/ KernelExit
  BY <1>7 DEF SendFinished, ReceiveMessages, ExecuteMessage, Finish, KernelExit,
    Leave
<1> QED BY <1>1, <1>2, <1>3, <1>4, <1>5, <1>6, <1>7 DEF Next, MainStep

LEMMA OutputInOrderInductive ==
  ASSUME OutputInvariant, ControlInvariant, [Next]_vars PROVE OutputInOrder'
<1> USE DEF OutputInvariant, OutputInOrder, outputVars
<1>1. /\ consumed \in Seq(Item) /\ out \in Seq(Item) /\ stdout \in Seq(Item)
      /\ <<>> \in Seq(Item)
  BY DEF TypeOK
<1>2. CASE ReceiveRequest
  <2>1. out = <<>> /\ out' = <<>> /\ stdout' = stdout /\ emitted' = stdout
        /\ consumed' = <<>>
    BY <1>2 DEF ReceiveRequest, OutputInHand, drainVars
  <2> QED BY <1>1, <2>1, ConcatEmptySeq
<1>3. CASE ReadHeader
  <2>1. /\ out = <<>> /\ stdout # <<>> /\ Head(stdout) = "HEADER"
        /\ consumed' = Append(consumed, Head(stdout))
        /\ out' = Tail(stdout) /\ stdout' = <<>> /\ emitted' = emitted
    BY <1>3 DEF ReadHeader, Consume, OutputInHand
  <2>2. Append(consumed, Head(stdout)) \o Tail(stdout) \o <<>>
          = consumed \o stdout \o <<>>
    BY <1>1, <2>1, MoveHead
  <2>3. consumed \o <<>> \o stdout = consumed \o stdout \o <<>>
    BY <1>1, ConcatEmptySeq, ConcatProperties
  <2> QED BY <2>1, <2>2, <2>3
<1>4. CASE ReadMore
  <2>1. /\ out = <<>> /\ out' = stdout /\ stdout' = <<>>
        /\ UNCHANGED <<consumed, emitted>>
    BY <1>4 DEF ReadMore, OutputInHand
  <2>2. consumed \o <<>> \o stdout = consumed \o stdout \o <<>>
    BY <1>1, ConcatEmptySeq, ConcatProperties
  <2> QED BY <2>1, <2>2
<1>5. CASE SendText \/ ExecuteMessage
  <2>1. /\ out # <<>>
        /\ consumed' = Append(consumed, Head(out)) /\ out' = Tail(out)
        /\ UNCHANGED <<stdout, emitted>>
    BY <1>5 DEF SendText, ExecuteMessage, Consume, AwaitsAtMarker
  <2> QED BY SMTT(30), <1>1, <2>1, MoveHead
<1>6. CASE ProcessPrints
  <2>1. PICK item \in Item : Emit(item)
    BY <1>6 DEF ProcessPrints
  <2>2. consumed \o out \in Seq(Item)
    BY <1>1, ConcatProperties
  <2>3. (consumed \o out) \o Append(stdout, item)
          = Append((consumed \o out) \o stdout, item)
    BY <1>1, <2>2, AppendLast
  <2> QED BY <1>6, <2>1, <2>3 DEF ProcessPrints, Emit, threadVars, drainVars
<1>7. CASE UNCHANGED <<out, outputVars>> BY <1>7
<1> QED BY <1>2, <1>3, <1>4, <1>5, <1>6, <1>7, OutputSteps

LEMMA OutputCorrect == Spec => []OutputInvariant
<1>1. Init => OutputInvariant
  <2>1. Init => OutputInHand /\ OutputInOrder
    BY DEF Init, OutputInHand, OutputInOrder
  <2>2. Init => TypeOK /\ AwaitsAtMarker
    BY InitTypes
  <2> QED BY <2>1, <2>2 DEF OutputInvariant
<1>2. ControlInvariant /\ OutputInvariant /\ [Next]_vars => OutputInvariant'
  BY TypeInductive, AwaitsAtMarkerInductive, OutputInHandInductive,
    OutputInOrderInductive DEF OutputInvariant
<1> QED BY <1>1, <1>2, ControlCorrect, PTL DEF Spec

(* What the program printed is what was sent, what is about to be sent and  *)
(* what is still to be read, in this order: getStdout and sendStdout drop   *)
(* nothing, repeat nothing and swap nothing.                                *)
THEOREM OutputAlwaysInOrder == Spec => []OutputInOrder
<1>1. OutputInvariant => OutputInOrder BY DEF OutputInvariant
<1> QED BY <1>1, OutputCorrect, PTL

-----------------------------------------------------------------------------
(* The refinement of CellService.                                           *)

(* When nothing prints before the header, there is no output outside of the *)
(* polling loop, nor after the loop has seen the result and read all.       *)
OutputOnlyWhenPolled ==
  /\ main \in {"idle", "acquire", "before", "setup", "preprocess", "system",
               "install", "finish", "exited"} => stdout = <<>>
  /\ main \in {"send", "await"} /\ shouldBreak => stdout = <<>>

(* The result is looked at before the output is read; a result that was     *)
(* there means that the program is over, and the output complete.           *)
LEMMA OutputOnlyWhenPolledInductive ==
  ASSUME "print" \notin Faults, ControlInvariant, OutputOnlyWhenPolled, [Next]_vars
  PROVE  OutputOnlyWhenPolled'
<1> USE DEF OutputOnlyWhenPolled, outputVars, drainVars, threadVars, processVars
<1>1. CASE ProcessPrints
  BY <1>1 DEF ProcessPrints, ControlInvariant, WorkerIsPolled
<1>2. CASE ReadHeader \/ ReadMore
  BY <1>2 DEF ReadHeader, ReadMore
<1>3. CASE (ReplStep \/ ReplFault) /\ ~ProcessPrints
  <2>1. UNCHANGED stdout
    BY <1>3, OutputSteps, ProcessFrame DEF ReceiveRequest, ReadHeader, ReadMore,
      SendText, ExecuteMessage
  <2> QED BY <1>3, <2>1, ProcessFrame
<1>4. CASE WorkerStep \/ HandlerStep \/ Sigint
  <2>1. UNCHANGED stdout
    BY <1>4 DEF WorkerStep, WorkerExecute, WorkerStore, HandlerStep,
      HandlerSigwait, HandlerAcquire, HandlerInterrupt, HandlerFlag, Sigint
  <2> QED BY <1>4, <2>1, ThreadFrame
<1>5. CASE UNCHANGED vars BY <1>5 DEF vars
<1>6. CASE ReceiveRequest \/ ExchangePipes \/ FinishExchange \/ Setup \/ RunSystem
           \/ SystemFinished
  BY <1>6 DEF ReceiveRequest, ExchangePipes, FinishExchange, Setup, RunSystem,
    SystemFinished
<1>7. CASE SystemInterrupted \/ RunInstall \/ InstallFinished \/ PreprocessFails
           \/ LaunchWorker
  BY <1>7 DEF SystemInterrupted, RunInstall, InstallFinished, PreprocessFails,
    Leave, LaunchWorker
<1>8. CASE PollResult \/ NothingToRead \/ HeaderMissing \/ SendText \/ MeetMarker
  BY <1>8 DEF PollResult, NothingToRead, AfterDrain, HeaderMissing, SendText,
    MeetMarker
<1>9. CASE SendFinished \/ ReceiveMessages \/ ExecuteMessage \/ Finish \/ KernelExit
  BY <1>9 DEF SendFinished, AfterDrain, ReceiveMessages, ExecuteMessage, Finish,
    KernelExit, Leave
<1> QED BY <1>1, <1>2, <1>3, <1>4, <1>5, <1>6, <1>7, <1>8, <1>9
  DEF Next, MainStep

(* The item in hand is the first that was not delivered. *)
LEMMA NextItem ==
  ASSUME NEW S, NEW s \in Seq(S), NEW t \in Seq(S), NEW u \in Seq(S), t # <<>>
  PROVE  /\ Len(s) < Len(s \o t \o u)
         /\ Head(t) = (s \o t \o u)[Len(s) + 1]
<1>1. s \o t \in Seq(S) /\ Len(t) > 0 /\ Head(t) = t[1]
  BY ConcatProperties, EmptySeq
<1>2. Len(s \o t) = Len(s) + Len(t) /\ (s \o t)[Len(s) + 1] = t[1]
  BY <1>1, ConcatProperties
<1>3. /\ Len(s \o t \o u) = Len(s \o t) + Len(u)
      /\ (s \o t \o u)[Len(s) + 1] = (s \o t)[Len(s) + 1]
  BY <1>1, <1>2, ConcatProperties
<1> QED BY <1>1, <1>2, <1>3

(* Where the main thread is between two requests. *)
Between == {"idle", "exited"}

(* The steps that end a request. *)
EndsRequest ==
  /\ main \in {"before", "preprocess", "system", "install", "finish"}
  /\ main' = "idle"
  /\ UNCHANGED <<out, outputVars>>

(* The steps that leave everything alone that CellService knows of. *)
Invisible == UNCHANGED <<outputVars, main \notin Between>>

LEMMA VisibleSteps ==
  ASSUME ControlInvariant, [Next]_vars
  PROVE  \/ ReceiveRequest \/ ReadHeader \/ ReadMore \/ SendText \/ ExecuteMessage
         \/ ProcessPrints \/ EndsRequest \/ Invisible
<1> USE DEF outputVars, processVars, Between, Invisible, EndsRequest
<1>1. CASE WorkerStep \/ HandlerStep \/ Sigint
  BY <1>1, ThreadFrame DEF WorkerStep, WorkerExecute, WorkerStore, HandlerStep,
      HandlerSigwait, HandlerAcquire, HandlerInterrupt, HandlerFlag, Sigint
<1>2. CASE ReplStep \/ ReplFault
  BY <1>2, ProcessFrame, OutputSteps
<1>3. CASE UNCHANGED vars BY <1>3 DEF vars
<1>4. CASE FinishExchange \/ SystemInterrupted \/ InstallFinished
           \/ PreprocessFails \/ Finish
  BY <1>4 DEF FinishExchange, SystemInterrupted, InstallFinished, PreprocessFails,
    Finish, Leave, drainVars
<1>5. CASE ExchangePipes \/ Setup \/ RunSystem \/ SystemFinished \/ RunInstall
           \/ LaunchWorker \/ PollResult
  BY <1>5 DEF ExchangePipes, Setup, RunSystem, SystemFinished, RunInstall,
    LaunchWorker, PollResult
<1>6. CASE NothingToRead \/ HeaderMissing \/ MeetMarker \/ SendFinished
           \/ ReceiveMessages \/ KernelExit
  BY <1>6 DEF NothingToRead, HeaderMissing, MeetMarker, SendFinished, AfterDrain,
    ReceiveMessages, KernelExit
<1> QED BY <1>1, <1>2, <1>3, <1>4, <1>5, <1>6 DEF Next, MainStep

(* Every step of the session is a step of CellService, or none. *)
LEMMA StepSimulation ==
  ASSUME "print" \notin Faults, ControlInvariant, OutputInvariant,
         OutputOnlyWhenPolled, [Next]_vars
  PROVE  [Service!Next]_(Service!vars)
<1> USE DEF OutputInvariant, outputVars, Service!vars, Service!Next
<1>1. /\ consumed \in Seq(Item) /\ out \in Seq(Item) /\ stdout \in Seq(Item)
      /\ emitted = consumed \o out \o stdout
  BY DEF TypeOK, OutputInOrder
<1>2. CASE ReceiveRequest
  <2>1. Service!Accept
    BY <1>2 DEF ReceiveRequest, Service!Accept, OutputOnlyWhenPolled
  <2> QED BY <2>1
<1>3. CASE ReadHeader
  <2>1. /\ stdout # <<>> /\ out = <<>> /\ consumed' = Append(consumed, Head(stdout))
        /\ UNCHANGED emitted /\ main = "drain" /\ main' = "send"
    BY <1>3 DEF ReadHeader, Consume, OutputInHand
  <2>2. emitted = consumed \o stdout \o <<>>
    BY <1>1, <2>1, ConcatEmptySeq, ConcatProperties
  <2>3. /\ Len(consumed) < Len(emitted)
        /\ Head(stdout) = emitted[Len(consumed) + 1]
    BY <1>1, <2>1, <2>2, NextItem, EmptySeq
  <2>4. Service!Deliver
    BY <2>1, <2>3 DEF Service!Deliver
  <2> QED BY <2>4
<1>4. CASE ReadMore
  BY <1>4 DEF ReadMore
<1>5. CASE SendText \/ ExecuteMessage
  <2>1. /\ out # <<>> /\ consumed' = Append(consumed, Head(out))
        /\ UNCHANGED emitted
        /\ main \notin {"idle", "exited"} /\ main' \notin {"idle", "exited"}
    BY <1>5 DEF SendText, ExecuteMessage, Consume, AwaitsAtMarker
  <2>2. /\ Len(consumed) < Len(emitted)
        /\ Head(out) = emitted[Len(consumed) + 1]
    BY <1>1, <2>1, NextItem
  <2>3. Service!Deliver
    BY <2>1, <2>2 DEF Service!Deliver
  <2> QED BY <2>3
<1>6. CASE ProcessPrints
  <2>1. Service!Produce
    BY <1>6 DEF ProcessPrints, Emit, Service!Produce
  <2> QED BY <2>1
<1>7. CASE EndsRequest
  <2>1. out = <<>> /\ stdout = <<>>
    BY <1>7 DEF EndsRequest, OutputInHand, OutputOnlyWhenPolled
  <2>2. consumed = emitted
    BY <1>1, <2>1, ConcatEmptySeq
  <2>3. Service!Answer
    BY <1>7, <2>2 DEF EndsRequest, Service!Answer
  <2> QED BY <2>3
<1>8. CASE Invisible
  BY <1>8 DEF Invisible, Between
<1> QED BY <1>2, <1>3, <1>4, <1>5, <1>6, <1>7, <1>8, VisibleSteps

(* A session in which nothing is printed before the header of a cell is a   *)
(* CellService: its output is delivered in order, each item once, and a     *)
(* request is answered only when all of its output has been delivered.      *)
THEOREM ServiceImplemented ==
  ASSUME "print" \notin Faults PROVE Spec => ImplementsCellService
<1>1. Init => Service!Init /\ OutputOnlyWhenPolled
  BY DEF Init, Service!Init, OutputOnlyWhenPolled
<1>2. ControlInvariant /\ OutputOnlyWhenPolled /\ [Next]_vars
        => OutputOnlyWhenPolled'
  BY OutputOnlyWhenPolledInductive
<1>3. Spec => []OutputOnlyWhenPolled
  BY <1>1, <1>2, ControlCorrect, PTL DEF Spec
<1>4. ControlInvariant /\ OutputInvariant /\ OutputOnlyWhenPolled /\ [Next]_vars
        => [Service!Next]_(Service!vars)
  BY StepSimulation
<1> QED BY <1>1, <1>3, <1>4, ControlCorrect, OutputCorrect, PTL
  DEF Spec, Service!Spec, ImplementsCellService

-----------------------------------------------------------------------------
(* Counting the markers in a sequence of items.                             *)

MarkerPositions(items) == {i \in 1 .. Len(items) : items[i] = "MARKER"}

LEMMA MarkersType ==
  ASSUME NEW items \in Seq(Item)
  PROVE  /\ IsFiniteSet(MarkerPositions(items))
         /\ Markers(items) = Cardinality(MarkerPositions(items))
         /\ Markers(items) \in Nat
<1>1. IsFiniteSet(1 .. Len(items))
  BY FS_Interval, LenProperties
<1>2. MarkerPositions(items) \in SUBSET (1 .. Len(items))
  BY DEF MarkerPositions
<1>3. IsFiniteSet(MarkerPositions(items))
  BY <1>1, <1>2, FS_Subset
<1>4. DOMAIN items = 1 .. Len(items)
  BY LenProperties
<1>5. Markers(items) = Cardinality(MarkerPositions(items))
  BY <1>4 DEF Markers, MarkerPositions
<1> QED BY <1>3, <1>5, FS_CardinalityType

LEMMA NoMarkers == Markers(<<>>) = 0
<1>1. MarkerPositions(<<>>) = {}
  BY DEF MarkerPositions
<1>2. <<>> \in Seq(Item)
  OBVIOUS
<1> QED BY <1>1, <1>2, MarkersType, FS_EmptySet

(* An item that is appended counts when it is a marker.                     *)
LEMMA MarkersAppend ==
  ASSUME NEW items \in Seq(Item), NEW item \in Item
  PROVE  Markers(Append(items, item))
           = IF item = "MARKER" THEN Markers(items) + 1 ELSE Markers(items)
<1> DEFINE longer == Append(items, item)
<1>1. /\ longer \in Seq(Item) /\ Len(longer) = Len(items) + 1
      /\ \A i \in 1 .. Len(items) : longer[i] = items[i]
      /\ longer[Len(items) + 1] = item
      /\ Len(items) \in Nat
  BY AppendProperties, LenProperties
<1>2. CASE item = "MARKER"
  <2>1. MarkerPositions(longer) = MarkerPositions(items) \union {Len(items) + 1}
    BY <1>1, <1>2 DEF MarkerPositions
  <2>2. Len(items) + 1 \notin MarkerPositions(items)
    BY <1>1 DEF MarkerPositions
  <2>3. Cardinality(MarkerPositions(longer)) = Cardinality(MarkerPositions(items)) + 1
    BY <2>1, <2>2, MarkersType, FS_AddElement
  <2> QED BY <1>1, <1>2, <2>3, MarkersType
<1>3. CASE item # "MARKER"
  <2>1. MarkerPositions(longer) = MarkerPositions(items)
    BY <1>1, <1>3 DEF MarkerPositions
  <2> QED BY <1>1, <1>3, <2>1, MarkersType
<1> QED BY <1>2, <1>3

(* A part that adds nothing to the count has no marker in it.               *)
LEMMA SameMarkers ==
  ASSUME NEW s \in Seq(Item), NEW t \in Seq(Item),
         Markers(s \o t) = Markers(s), NEW i \in 1 .. Len(t)
  PROVE  t[i] # "MARKER"
<1>1. /\ s \o t \in Seq(Item) /\ Len(s \o t) = Len(s) + Len(t)
      /\ \A k \in 1 .. Len(s) : (s \o t)[k] = s[k]
      /\ (s \o t)[Len(s) + i] = t[i]
      /\ Len(s) \in Nat /\ Len(t) \in Nat
  <2>1. /\ s \o t \in Seq(Item) /\ Len(s \o t) = Len(s) + Len(t)
        /\ Len(s) \in Nat /\ Len(t) \in Nat
        /\ \A k \in 1 .. Len(s) + Len(t) :
             (s \o t)[k] = IF k <= Len(s) THEN s[k] ELSE t[k - Len(s)]
    BY ConcatProperties, LenProperties
  <2>2. Len(s) + i \in 1 .. Len(s) + Len(t) /\ ~(Len(s) + i <= Len(s))
        /\ (Len(s) + i) - Len(s) = i
    BY <2>1
  <2> QED BY <2>1, <2>2
<1>2. MarkerPositions(s) \in SUBSET MarkerPositions(s \o t)
  BY <1>1 DEF MarkerPositions
<1>3. MarkerPositions(s \o t) = MarkerPositions(s)
  BY <1>1, <1>2, MarkersType, FS_Subset
<1>4. Len(s) + i \notin MarkerPositions(s)
  BY <1>1 DEF MarkerPositions
<1> QED BY <1>1, <1>3, <1>4 DEF MarkerPositions

LEMMA TextHasNoMarkers ==
  ASSUME NEW t \in Seq(Item), \A i \in 1 .. Len(t) : t[i] # "MARKER"
  PROVE  Markers(t) = 0
<1>1. MarkerPositions(t) = {} BY DEF MarkerPositions
<1> QED BY <1>1, MarkersType, FS_EmptySet

-----------------------------------------------------------------------------
(* The invariant of the messages.                                           *)

(* The markers that the program printed, and those that were dealt with.    *)
Printed == Markers(emitted)
Executed == Markers(consumed)

(* The message of the latest marker. *)
Latest == [parent |-> cell, nth |-> Printed]

(* A message is on its way from the marker that announces it, into the pipe *)
(* and into the hands of the kernel.                                        *)
Quiet     == Printed = Executed /\ toKernel = <<>> /\ messages = <<>>
Announced == Printed = Executed + 1 /\ toKernel = <<>> /\ messages = <<>>
Written   == Printed = Executed + 1 /\ toKernel = <<Latest>> /\ messages = <<>>
Received  == /\ Printed = Executed + 1 /\ toKernel = <<>> /\ messages = <<Latest>>
             /\ main = "await"
OneMessageAtMost == Quiet \/ Announced \/ Written \/ Received

(* Outside of the polling loop there is none.                               *)
QuietOutside ==
  /\ main \notin {"sleep", "drain", "send", "await", "crashed"} => Quiet
  /\ main \in {"acquire", "before"} => Printed = 0
  /\ main = "before" => toLldb = <<>>

(* What the process needs to send its next message: from the exchange until *)
(* it prints the marker.                                                    *)
CanSend == /\ Quiet
           /\ ~empty => parent = cell /\ sent = Printed /\ toLldb = <<>>
CanSendUntilMarker ==
  \/ main = "before" /\ returned = "success"
  \/ main \in {"setup", "preprocess", "system", "install"}
  \/ worker = "start"
  \/ repl \in {"compile", "start", "user"}
  => CanSend

(* Between the marker and the response the process knows how far it is.     *)
CallInProgress ==
  /\ repl = "marker" =>
       Announced /\ parent = cell /\ sent = Executed /\ toLldb = <<>>
  /\ repl = "wait" =>
       /\ parent = cell /\ sent = Printed
       /\ \/ (Written \/ Received) /\ toLldb = <<>>
          \/ Quiet /\ toLldb = <<Latest>>

(* The result is looked at before the output that is sent last is read.     *)
ResultComesLast ==
  main = "finish" \/ (main \in {"send", "await"} /\ shouldBreak) => stdout = <<>>

MessageInvariant ==
  /\ OneMessageAtMost
  /\ QuietOutside
  /\ CanSendUntilMarker
  /\ CallInProgress
  /\ ResultComesLast

LEMMA CountTypes ==
  ASSUME TypeOK PROVE Printed \in Nat /\ Executed \in Nat
BY MarkersType DEF TypeOK, Printed, Executed

(* At a marker, more was printed than was dealt with.                       *)
LEMMA MarkerIsAhead ==
  ASSUME OutputInvariant, main = "await" PROVE Printed # Executed
<1> DEFINE rest == out \o stdout
<1>1. /\ consumed \in Seq(Item) /\ out \in Seq(Item) /\ stdout \in Seq(Item)
      /\ out # <<>> /\ Head(out) = "MARKER"
  BY DEF OutputInvariant, TypeOK, AwaitsAtMarker
<1>2. rest \in Seq(Item) /\ emitted = consumed \o rest
  <2>1. rest \in Seq(Item)
    BY <1>1, ConcatProperties
  <2>2. (consumed \o out) \o stdout = consumed \o (out \o stdout)
    BY <1>1, ConcatAssociative
  <2>3. emitted = (consumed \o out) \o stdout
    BY DEF OutputInvariant, OutputInOrder
  <2> QED BY <2>1, <2>2, <2>3
<1>3. 1 \in 1 .. Len(rest) /\ rest[1] = "MARKER"
  <2>1. Len(out) > 0 /\ out[1] = "MARKER" /\ Len(out) \in Nat /\ Len(stdout) \in Nat
    BY <1>1, EmptySeq, LenProperties
  <2> QED BY <1>1, <2>1, ConcatProperties
<1> HIDE DEF rest
<1>4. ASSUME Markers(consumed \o rest) = Markers(consumed) PROVE FALSE
  <2>1. rest[1] # "MARKER"
    BY <1>1, <1>2, <1>3, <1>4, SameMarkers
  <2> QED BY <1>3, <2>1
<1> QED BY <1>2, <1>4 DEF Printed, Executed

(* With nothing in hand and no marker ahead, only text waits to be read.    *)
LEMMA OnlyTextWaits ==
  ASSUME OutputInvariant, out = <<>>, Printed = Executed PROVE Markers(stdout) = 0
<1>1. consumed \in Seq(Item) /\ stdout \in Seq(Item)
  BY DEF OutputInvariant, TypeOK
<1>2. emitted = consumed \o stdout
  BY <1>1, ConcatEmptySeq DEF OutputInvariant, OutputInOrder
<1>3. \A i \in 1 .. Len(stdout) : stdout[i] # "MARKER"
  BY <1>1, <1>2, SameMarkers DEF Printed, Executed
<1> QED BY <1>1, <1>3, TextHasNoMarkers

(* When all is read and sent, no marker is left.                            *)
LEMMA AllIsDealtWith ==
  ASSUME OutputInvariant, out = <<>>, stdout = <<>> PROVE Printed = Executed
<1>1. consumed \in Seq(Item) BY DEF OutputInvariant, TypeOK
<1>2. emitted = consumed
  BY <1>1, ConcatEmptySeq DEF OutputInvariant, OutputInOrder
<1> QED BY <1>2 DEF Printed, Executed

(* What printing and delivering an item does to the counts.                 *)
LEMMA EmitCounts ==
  ASSUME TypeOK, NEW item \in Item, Emit(item)
  PROVE  /\ Printed' = IF item = "MARKER" THEN Printed + 1 ELSE Printed
         /\ Executed' = Executed
<1>1. emitted \in Seq(Item) /\ emitted' = Append(emitted, item) /\ consumed' = consumed
  BY DEF TypeOK, Emit
<1> QED BY <1>1, MarkersAppend DEF Printed, Executed

LEMMA ConsumeCounts ==
  ASSUME TypeOK, NEW item \in Item, Consume(item), emitted' = emitted
  PROVE  /\ Executed' = IF item = "MARKER" THEN Executed + 1 ELSE Executed
         /\ Printed' = Printed
<1>1. consumed \in Seq(Item) /\ consumed' = Append(consumed, item)
  BY DEF TypeOK, Consume
<1> QED BY <1>1, MarkersAppend DEF Printed, Executed

(* A program that runs has not had its result looked at.                    *)
LEMMA RunningIsNotLast ==
  ASSUME ControlInvariant, repl \in {"start", "user"}
  PROVE  main # "finish" /\ ~(main \in {"send", "await"} /\ shouldBreak)
BY DEF ControlInvariant, OneExpressionAtATime, WorkerIsPolled

LEMMA MessageInductive ==
  ASSUME OutputInvariant, TypeOK', ControlInvariant, MessageInvariant, [Next]_vars
  PROVE  MessageInvariant'
<1> USE DEF MessageInvariant, OneMessageAtMost, QuietOutside, CanSendUntilMarker,
    CallInProgress, ResultComesLast, Quiet, Announced, Written, Received, CanSend,
    Printed, Executed, Latest
<1> USE DEF threadVars, processVars, requestVars, drainVars, workerVars,
    signalVars, evalVars, hookVars, outputVars, pipeVars
<1>1. CASE ReceiveRequest
  <2>1. main = "idle" /\ out = <<>> /\ Printed = Executed
    BY <1>1 DEF ReceiveRequest, OutputInvariant, OutputInHand
  <2>2. Printed' = 0 /\ Executed' = 0
    BY <1>1, <2>1, OnlyTextWaits, NoMarkers DEF ReceiveRequest
  <2>3. worker = "none" /\ repl \notin {"compile", "start", "user", "marker", "wait"}
    BY <2>1 DEF ControlInvariant, WorkerIsPolled, OneExpressionAtATime
  <2>4. main' \in {"setup", "acquire"} /\ (main' = "setup" => empty')
    BY <1>1 DEF ReceiveRequest
  <2>5. UNCHANGED <<toKernel, messages, toLldb, worker, repl>>
    BY <1>1 DEF ReceiveRequest
  <2> HIDE DEF Printed, Executed
  <2> QED BY <2>1, <2>2, <2>3, <2>4, <2>5
<1>2. CASE Sigint BY <1>2 DEF Sigint
<1>3. CASE ExchangePipes BY <1>3 DEF ExchangePipes, ResetPipes, Lock, Evaluate
<1>4. CASE FinishExchange BY <1>4 DEF FinishExchange, Unlock
<1>5. CASE Setup BY <1>5 DEF Setup
<1>6. CASE RunSystem BY <1>6 DEF RunSystem
<1>7. CASE SystemFinished BY <1>7 DEF SystemFinished
<1>8. CASE SystemInterrupted BY <1>8 DEF SystemInterrupted, Leave
<1>9. CASE RunInstall BY <1>9 DEF RunInstall, Evaluate
<1>10. CASE InstallFinished BY <1>10 DEF InstallFinished, Leave
<1>11. CASE PreprocessFails BY <1>11 DEF PreprocessFails, Leave
<1>12. CASE LaunchWorker BY <1>12 DEF LaunchWorker
<1>13. CASE PollResult BY <1>13 DEF PollResult
<1>14. CASE NothingToRead
  <2>1. Printed = Executed
    BY <1>14, AllIsDealtWith DEF NothingToRead, OutputInvariant, OutputInHand
  <2>2. UNCHANGED <<threadVars, processVars>> /\ stdout = <<>> /\ main = "drain"
        /\ main' \in {"finish", "sleep"}
    BY <1>14 DEF NothingToRead, AfterDrain
  <2>3. Quiet
    BY <2>1, CountTypes DEF OutputInvariant
  <2> QED BY <2>2, <2>3
<1>15. CASE ReadHeader
  <2>1. Printed' = Printed /\ Executed' = Executed
    BY <1>15, ConsumeCounts DEF ReadHeader, OutputInvariant, Item
  <2>2. stdout' = <<>> /\ main = "drain" /\ main' = "send"
        /\ UNCHANGED <<toKernel, messages, toLldb, worker, repl, cell, empty, parent,
                       sent, returned>>
    BY <1>15 DEF ReadHeader
  <2> HIDE DEF Printed, Executed
  <2> QED BY <2>1, <2>2
<1>16. CASE ReadMore BY <1>16 DEF ReadMore
<1>17. CASE HeaderMissing BY <1>17 DEF HeaderMissing
<1>18. CASE SendText
  <2>1. Head(out) \in Item /\ Head(out) # "MARKER"
    BY <1>18 DEF SendText, OutputInvariant, TypeOK
  <2>2. Printed' = Printed /\ Executed' = Executed
    BY <1>18, <2>1, ConsumeCounts DEF SendText, OutputInvariant
  <2>3. UNCHANGED <<toKernel, messages, toLldb, worker, repl, cell, empty, parent,
                    sent, returned, main, stdout, shouldBreak>>
    BY <1>18 DEF SendText
  <2> HIDE DEF Printed, Executed
  <2> QED BY <2>2, <2>3
<1>19. CASE MeetMarker BY <1>19 DEF MeetMarker
<1>20. CASE SendFinished
  <2>1. /\ UNCHANGED <<threadVars, processVars>> /\ out = <<>> /\ main = "send"
        /\ main' \in {"finish", "sleep"} /\ (main' = "finish" => shouldBreak)
    BY <1>20 DEF SendFinished, AfterDrain
  <2>2. main' = "finish" => stdout = <<>>
    BY <2>1
  <2>3. main' = "finish" => Printed = Executed
    BY <2>1, <2>2, AllIsDealtWith
  <2>4. main' = "finish" => Quiet
    BY <2>3, CountTypes DEF OutputInvariant
  <2> QED BY <2>1, <2>2, <2>4
<1>21. CASE ReceiveMessages BY <1>21 DEF ReceiveMessages
<1>22. CASE ExecuteMessage
  <2>1. Executed' = Executed + 1 /\ Printed' = Printed
    BY <1>22, ConsumeCounts DEF ExecuteMessage, OutputInvariant, Item
  <2>2. /\ main = "await" /\ messages # <<>> /\ main' = "send"
        /\ toLldb' = Append(toLldb, Head(messages)) /\ messages' = Tail(messages)
        /\ UNCHANGED <<toKernel, worker, repl, cell, empty, parent, sent, returned,
                       stdout, shouldBreak>>
    BY <1>22 DEF ExecuteMessage
  <2>3. Received
    BY <2>2
  <2>4. messages' = <<>> /\ Quiet' /\ Latest' = Latest
    BY <2>1, <2>2, <2>3
  <2>5. repl = "wait" => toLldb' = <<Latest'>>
    BY <2>1, <2>2, <2>3, <2>4
  <2>6. repl \notin {"compile", "start", "user", "marker"} /\ worker # "start"
    BY <2>3
  <2> HIDE DEF Printed, Executed, Latest
  <2> QED BY <2>1, <2>2, <2>4, <2>5, <2>6
<1>23. CASE Finish BY <1>23 DEF Finish, Leave, Report
<1>24. CASE KernelExit BY <1>24 DEF KernelExit
<1>25. CASE WorkerExecute BY <1>25 DEF WorkerExecute, Evaluate
<1>26. CASE WorkerStore BY <1>26 DEF WorkerStore
<1>27. CASE HandlerSigwait BY <1>27 DEF HandlerSigwait
<1>28. CASE HandlerAcquire BY <1>28 DEF HandlerAcquire, Lock
<1>29. CASE HandlerInterrupt
  BY <1>29 DEF HandlerInterrupt, Interrupt, Return, Unlock, Running
<1>30. CASE HandlerFlag BY <1>30 DEF HandlerFlag
<1>31. CASE ReplExchange
  <2>1. main = "before"
    BY <1>31 DEF ReplExchange, ControlInvariant, OneExpressionAtATime
  <2> QED BY <1>31, <2>1 DEF ReplExchange, Return
<1>32. CASE ReplExchangeFails BY <1>32 DEF ReplExchangeFails, Trap, Return
<1>33. CASE InstallReturns
  <2>1. repl = "install" /\ repl' = "stopped"
        /\ UNCHANGED <<main, threadVars, hookVars, outputVars, pipeVars>>
    BY <1>33 DEF InstallReturns, Trap, Return
  <2>2. main = "install"
    BY <2>1 DEF ControlInvariant, OneExpressionAtATime
  <2> QED BY <2>1, <2>2
<1>34. CASE InstallPrints
  <2>1. PICK t \in Text : Emit(t)
    BY <1>34 DEF InstallPrints
  <2>2. t \in Item /\ t # "MARKER"
    BY TextAssumption DEF Item
  <2>3. Printed' = Printed /\ Executed' = Executed
    BY <2>1, <2>2, EmitCounts DEF OutputInvariant
  <2>4. UNCHANGED <<main, threadVars, evalVars, hookVars, pipeVars>> /\ repl = "install"
    BY <1>34 DEF InstallPrints
  <2>5. main = "install"
    BY <2>4 DEF ControlInvariant, OneExpressionAtATime
  <2> HIDE DEF Printed, Executed
  <2> QED BY <2>3, <2>4, <2>5
<1>35. CASE CompileError BY <1>35 DEF CompileError, Return
<1>36. CASE Compiled BY <1>36 DEF Compiled
<1>37. CASE PrintHeader
  <2>1. Printed' = Printed /\ Executed' = Executed
    BY <1>37, EmitCounts DEF PrintHeader, OutputInvariant, Item
  <2>2. /\ repl = "start" /\ repl' = "user"
        /\ UNCHANGED <<main, returned, threadVars, hookVars, pipeVars>>
    BY <1>37 DEF PrintHeader
  <2> HIDE DEF Printed, Executed
  <2> QED BY <2>1, <2>2, RunningIsNotLast
<1>38. CASE UserPrints
  <2>1. PICK t \in Text : Emit(t)
    BY <1>38 DEF UserPrints
  <2>2. t \in Item /\ t # "MARKER"
    BY TextAssumption DEF Item
  <2>3. Printed' = Printed /\ Executed' = Executed
    BY <2>1, <2>2, EmitCounts DEF OutputInvariant
  <2>4. UNCHANGED <<main, threadVars, evalVars, hookVars, pipeVars>> /\ repl = "user"
    BY <1>38 DEF UserPrints
  <2> HIDE DEF Printed, Executed
  <2> QED BY <2>3, <2>4, RunningIsNotLast
<1>39. CASE UserWritesStderr BY <1>39 DEF UserWritesStderr
<1>40. CASE PrintMarker
  <2>1. Printed' = Printed + 1 /\ Executed' = Executed
    BY <1>40, EmitCounts DEF PrintMarker, OutputInvariant, Item
  <2>2. /\ repl = "user" /\ ~empty /\ repl' = "marker"
        /\ UNCHANGED <<main, returned, threadVars, hookVars, pipeVars>>
    BY <1>40 DEF PrintMarker
  <2>3. worker = "execute" /\ main \in {"sleep", "drain", "send", "await", "crashed"}
    BY <2>2 DEF ControlInvariant, OneExpressionAtATime, WorkerIsPolled
  <2> HIDE DEF Printed, Executed
  <2> QED BY <2>1, <2>2, <2>3, RunningIsNotLast
<1>41. CASE SendMessage
  <2>1. /\ repl = "marker"
        /\ UNCHANGED <<main, lldbCell, parent, toLldb, threadVars, outputVars>>
    BY <1>41 DEF SendMessage
  <2>2. worker = "execute" /\ main \in {"sleep", "drain", "send", "await", "crashed"}
    BY <2>1 DEF ControlInvariant, OneExpressionAtATime, WorkerIsPolled
  <2>3. CASE lldbCell = counter
    <3>1. toKernel' = Append(toKernel, NextMessage) /\ sent' = sent + 1 /\ repl' = "wait"
      BY <1>41, <2>3 DEF SendMessage
    <3>2. NextMessage = Latest /\ Latest' = Latest
      BY <2>1 DEF NextMessage
    <3>3. toKernel' = <<Latest'>>
      BY <2>1, <3>1, <3>2
    <3> HIDE DEF Latest
    <3> QED BY <2>1, <2>2, <3>1, <3>3
  <2>4. CASE lldbCell # counter
    BY <1>41, <2>1, <2>2, <2>4 DEF SendMessage, Trap, Return
  <2> QED BY <2>3, <2>4
<1>42. CASE ReceiveReply BY <1>42 DEF ReceiveReply, Trap, Return
<1>43. CASE UserDone BY <1>43 DEF UserDone, Return
<1>44. CASE UserTraps BY <1>44 DEF UserTraps, Trap, Return
<1>45. CASE ReplDies BY <1>45 DEF ReplDies
<1>46. CASE UNCHANGED vars BY <1>46 DEF vars
<1> QED BY <1>1, <1>2, <1>3, <1>4, <1>5, <1>6, <1>7, <1>8, <1>9, <1>10, <1>11,
  <1>12, <1>13, <1>14, <1>15, <1>16, <1>17, <1>18, <1>19, <1>20, <1>21, <1>22,
  <1>23, <1>24, <1>25, <1>26, <1>27, <1>28, <1>29, <1>30, <1>31, <1>32, <1>33,
  <1>34, <1>35, <1>36, <1>37, <1>38, <1>39, <1>40, <1>41, <1>42, <1>43, <1>44,
  <1>45, <1>46 DEF Next, MainStep, WorkerStep, HandlerStep, ReplStep,
  ReplFault


(* The invariant holds from the start on.                                   *)
LEMMA MessagesCorrect == Spec => []MessageInvariant
<1>1. Init => MessageInvariant
  BY DEF Init, MessageInvariant, OneMessageAtMost, QuietOutside, CanSendUntilMarker,
    CallInProgress, ResultComesLast, Quiet, Printed, Executed
<1>2. TypeOK' /\ OutputInvariant /\ ControlInvariant /\ MessageInvariant /\ [Next]_vars
        => MessageInvariant'
  BY MessageInductive
<1> QED BY <1>1, <1>2, TypeCorrect, OutputCorrect, ControlCorrect, PTL DEF Spec

(* The message that sendStdout executes at a marker is the one that the     *)
(* program announced there, of the cell being run: whatever was interrupted *)
(* or failed before, executeNextMessage never finds an older one.           *)
THEOREM MessageAlwaysMeetsMarker == Spec => []MessageMeetsItsMarker
<1>1. OutputInvariant /\ MessageInvariant => MessageMeetsItsMarker
  <2> SUFFICES ASSUME OutputInvariant, MessageInvariant, main = "await", messages # <<>>
               PROVE  Head(messages) = [parent |-> cell, nth |-> Markers(consumed) + 1]
    BY DEF MessageMeetsItsMarker
  <2>1. messages = <<Latest>> /\ Printed = Executed + 1
    BY DEF MessageInvariant, OneMessageAtMost, Quiet, Announced, Written, Received
  <2> QED BY <2>1 DEF Latest, Printed, Executed
<1> QED BY <1>1, OutputCorrect, MessagesCorrect, PTL

(* The response that recv returns to the program answers the request that   *)
(* the program has just sent, never a call that was interrupted.            *)
THEOREM ReplyAlwaysMatches == Spec => []ReplyMatchesRequest
<1>1. MessageInvariant => ReplyMatchesRequest
  BY DEF MessageInvariant, CallInProgress, ReplyMatchesRequest, LastMessage, Latest
<1> QED BY <1>1, MessagesCorrect, PTL

(* When the polling loop ends, neither the pipe nor the list of messages    *)
(* holds one that was not executed.                                         *)
THEOREM NoMessageEverLeftBehind == Spec => []NoMessageLeftBehind
<1>1. MessageInvariant => NoMessageLeftBehind
  BY DEF MessageInvariant, QuietOutside, Quiet, NoMessageLeftBehind
<1> QED BY <1>1, MessagesCorrect, PTL
=============================================================================
