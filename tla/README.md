# Verification of Swift-Colab

Swift-Colab lets a Jupyter (Google Colab) notebook run Swift.  This folder
holds TLA+ modules that model its kernel, the TLC configurations that check
them on small instances, and proofs that TLAPS checks for every instance.
Paths below are relative to the repository; `SwiftKernel/` abbreviates
`Sources/JupyterKernel/SwiftKernel/`.

## The system

Two processes make up a session.

* The **kernel** is ipykernel, in Python, with `libJupyterKernel` loaded into
  it.  Three of its threads matter: the *main thread* runs `do_execute` for one
  request after the other; a *worker* on a dispatch queue runs LLDB's
  `EvaluateExpression` for the cell; the *SIGINT handler* waits in `sigwait`.
* The **process under LLDB** (`repl_swift`) runs the user's program, and the
  hooks of `SwiftShell.swift` that talk back to the kernel.

They are connected by the standard output of the process, which LLDB collects;
by two files, `/opt/swift/pipes/1-N` (to the kernel) and `2-N` (to the
process), N being the number in `/opt/swift/pipes/counter`; by
`/opt/swift/err`; and by LLDB, which starts, stops and interrupts the process.

### Inventory

| Component | State | Operations | Interacts by |
|---|---|---|---|
| Cell execution (`DoExecute.swift`, `PreprocessAndExecute.swift`, `CreateKernel.swift`) | `executionResult`, `hadStdout`, `isInterrupted`, the reply | `do_execute`, `beforeExecution`, `preprocess`, the worker, the polling loop | calls; mutex; variables shared with worker and handler |
| SIGINT handler and mutex (`InitSwift.swift`, `Threading.swift`) | `KernelContext.mutex`, `isInterrupted` | wait, acquire, interrupt, release, flag | LLDB; mutex |
| Output and messages (`HandleIO.swift`, `SwiftShell.swift`) | `messages`, unread output | `getAndSendStdout`, `sendStdout`, `executeNextMessage`; `send_multipart`, `blocking_request` in the process | stdout (markers) and pipes (messages) |
| KernelPipe (`KernelContext.swift`) | counter, two files, handles of each process | `resetPipes`, `fetchPipes`, `send`, `recv`, `validateCounter` | files |
| LLDB bindings (`LLDBProcess.cpp`) | the SBProcess | `init_repl_process`, `execute`, `get_stdout`, `async_interrupt_process`, `process_is_alive`, `get_pretty_stack_trace` | calls from three threads |
| Communicator (`Sources/include`) | symbols, session | `fetchPipes`, `updateParentMessage` | called by expressions of the kernel |
| Kernel initialisation (`InitSwift.swift`) | `debuggerInitialized` | four steps, each of which may throw; retried by the next request | LLDB |
| Front-end requests, stdin (`HandleIO.swift`) | message id, stdin socket | `send_request`, `read_reply_from_input`, `_read_stdin_message` | ZeroMQ |
| System commands (`HandleIO.swift`) | pseudo-terminal, child | `_run_command`, `_monitor_process`, `_poll_process` | pty, signals, stdin socket |
| Package engine (`SwiftPMEngine/`) | index, flags, location, loaded modules | the `%install…` directives | files, child processes, `dlopen` in the process |
| Error formatting (`FormatErrors.swift`) | `errorStreamEnd` | `getStderr`, `prettyPrintStackTrace` | stderr file, blocks of stack frames |
| Runtime alternation, registration (`CreateKernel.swift`, `RegisterKernel.swift`) | `/opt/swift/runtime`, `mode` | `createSwiftKernel`, registration | files |
| Install script (`install_swift.sh`) | toolchain folders, `progress/` | install, switch versions, rebuild | files |

Vendored code (PythonKit, the LLDB headers) is left aside, but for two enums.

### What is hard, and what correctness means

The full list of hazards, each at its line, is in `PROJECT.json`.  The ones the
core is about:

* *Interruption.*  A SIGINT may arrive at any moment: during the exchange of
  pipes, between a marker and its message, while a cell compiles, after a cell
  is over.  The handler, the worker and the main thread share one mutex.
* *Two channels.*  A rich message is announced by a marker in stdout and
  travels through a file.  The two must stay in step, within a cell and from an
  interrupted cell to the next.
* *Polling.*  The result is polled under the mutex, the output after it.  The
  order decides whether output is lost.
* *Failure.*  The expression that hands over the pipes may fail, the process
  may die, code loaded by `%install` may print out of turn.

* *What outlives a kernel.*  The counter, the pipe files, processes that go on
  after their kernel was killed, the index and the folders of packages, the
  toolchains of an installation that was broken off.
* *Bytes.*  Stdout is drained, and pipes are read, in pieces that end anywhere;
  blocks of memory are sized, written and read by three separate computations.
* *One socket, two readers.*  Replies to requests and what the user types
  arrive on the stdin socket, and whoever reads first drops what it does not
  look for.

A session is correct when evaluations do not overlap, pipes are never replaced
under a running program, a marker meets its own message and a call its own
response, output reaches the front end complete and in order before the reply,
errors get their right name, and every request and every SIGINT is dealt with.
Of the parts around it: a kernel and a process only take messages that are
theirs; every byte of stdout is shown once and markers are served in their
place; a request returns its own reply; a terminal neither loses nor reorders
what goes through it; an `%install` that succeeds is usable whatever failed
before; a finished installation has the toolchain that was asked for; a report
shows the stack, and the stderr of its own cell.

## The modules

### `CellService` – what a session promises

An abstract specification with three variables: whether a request is in
progress, what its program has printed, what the front end has got.  `Accept`,
`Produce`, `Deliver` (the next undelivered item), `Answer` (only when all is
delivered).  It knows no thread, lock or pipe.

### `CellExecution` – the program

One module, because its threads meet at nearly every variable.  The model
begins after `initSwift`.

| Actions | Code |
|---|---|
| `ReceiveRequest` | ipykernel calls `do_execute`; the request is empty or not, and has some magic commands |
| `ExchangePipes`, `FinishExchange` | `doExecute` 11-19 and `beforeExecution`: acquire, `resetPipes`, the expression; release or throw |
| `Setup` | 20-28: `flushMessages`, the resets, the stderr flush |
| `RunSystem` … `PreprocessFails` | `preprocess`: `%system` commands and builds, the `dlopen` of `%install`, and the ways they end |
| `LaunchWorker`, `PollResult`, `AfterDrain` | `preprocessAndExecute` 8-43 |
| `NothingToRead`, `ReadHeader`, `ReadMore`, `HeaderMissing` | `getStdout` and the first half of `getAndSendStdout` |
| `SendText`, `MeetMarker`, `SendFinished` | `sendStdout`; the recursion becomes a walk over the items in hand |
| `ReceiveMessages`, `ExecuteMessage` | `executeNextMessage` |
| `Report`, `Finish`, `KernelExit` | `doExecute` 59-114 and the delayed `loop.stop` |
| `WorkerExecute`, `WorkerStore` | the dispatch-queue block |
| `HandlerSigwait`, `HandlerAcquire`, `HandlerInterrupt`, `HandlerFlag` | `initSIGINTHandler`; the flag is set after the release, as in the code |
| `ReplExchange`, `PrintHeader`, `PrintMarker`, `SendMessage`, `ReceiveReply` | the process: `fetchPipes`, `updateParentMessage`, the prefix of a cell, `send_multipart` and `blocking_request` |
| `Compiled`, `CompileError`, `UserPrints`, `UserWritesStderr`, `UserDone`, `UserTraps`, `InstallReturns` | the compiler and the user's program, external |
| `ReplExchangeFails`, `InstallPrints`, `ReplDies` | faults, each switched on by the constant `Faults` |

Abstractions: a text is an atomic item (the header and a marker are items of
their own); a file is a sequence of whole messages; `execute_message` is one
step; stderr is empty or not.  LLDB is external and modelled from its use: an
evaluation succeeds, fails or is interrupted; an interrupt of a process that
does not run (LLDB still compiles, or it is stopped) has no effect; what the
process printed can be read when the evaluation returns.  `sigCell`, `cause`,
`emitted` and `consumed` are history variables for the properties.

Bounds: `MaxCells` requests, `MaxTokens` items of output per cell beside the
header, `MaxMagic` commands, `MaxSigints` interruptions.  All bounds are in the
guards of the environment and of the user's program, none in those of the
kernel.

The operators preceded by "A mistake" are variants of an action with a
plausible bug.  The specification does not use them: they show that a property
notices the bug.

### `OutputRouter` – stdout between process and front end

| Actions | Code |
|---|---|
| `PrintItem`, `Arrive`, `EndProgram` | the process, and the thread of LLDB that empties its pseudo-terminal in pieces of any size (external) |
| `BeginCell` | `doExecute` resets `hadStdout` |
| `BeginDrain`, `Read` | `getStdout` and `get_stdout`, a buffer at a time until nothing is left |
| `EndDrain` | `getAndSendStdout` and `sendStdout`: the decoder, the header and its precondition, markers, the sequence that clears the output |

`CellExecution` takes items for whole; here an item has two bytes and a drain
ends anywhere.  `torn` and `late` record that a drain ended within an item, or
a cell before its bytes had arrived: without these two accidents routing is
exact (`RoutedInOrder`), with them it still loses nothing that is shown
(`NothingVanishes`).

### `MessageQueue`, `PipeFraming` – one direction of a pipe

`MessageQueue` is what `CellExecution` takes a pipe file for: messages are
appended whole, and a reader gets all that are there.  `PipeFraming` is the
code: `Send` puts a header before the message and writes both at once, `Appear`
makes the bytes of the write visible, in pieces if the file system likes;
`BeginRecv`, `Read` (one call of `read`, at most the scratch buffer) and
`EndRecv` (the read that returns nothing, and the cutting into messages) are
`recv`.  A byte is a record that says where it comes from, so a wrong cut is
noticed.  Where the code reads a length beyond its buffer, any value may be
read; each of them ends the process, in `Data`'s initialiser or at the
comparison with `streamEnd`, and the model has one outcome, `malformed`.  The
refinement counts a message as sent when its last byte can be seen.

### `KernelSessions` – what outlives a kernel

| Actions | Code |
|---|---|
| `StartKernel`, `KillKernel` | ipykernel; a kernel may be killed between any two system calls, and its process may run on |
| `Request` | `do_execute`: `initSwift` unless `debuggerInitialized`, then the cell |
| `IncrementThenLoadCounter`, `RemoveFormerFile`, `CreateFile`, `FetchPipes` | `resetPipes` and `fetchPipes`, one system call each |
| `InitReplProcess`, `InitEvaluate`, `InitSIGINTHandler` | the steps of `initSwift`; each may throw, and the next request begins again |
| `BeginExchange`, `EndExchange`, `Serve` | the exchange of pipes and the response to a call, as far as numbers and messages go |
| `LoadCounter`, `OpenFiles`, `EndCell`, `ProgramDies`, `BeginSend`, `Write`, `BeginRecv`, `Read`, `OrphanEnds` | a process: `fetchPipes`, `send`, and the loop of `recv` with `validateCounter` |

A handle leads to the file it was opened on, also after the file is removed.
Of a cell only the calls are kept: `CellExecution` has the rest.

### `LLDBProcess` – the C++ bindings and the report of an error

| Actions | Code |
|---|---|
| `Launch`, `InitFails` | `init_repl_process` and the globals it sets one by one; `initSwift` that fails after it |
| `BeginCell`, `Execute` | `execute`: the three codes and the block with the description |
| `TakeDescription` | what Swift makes of the code and the block (`preprocessAndExecute`) |
| `FetchStderr` | `getStderr` and the first line of a trap's message |
| `BeginTrace`, `SerialiseFrame`, `EndSerialise` | `get_pretty_stack_trace`: sizes, alignment, copies |
| `PrintFrame`, `EndPrint` | `prettyPrintStackTrace`: reading the blocks and freeing them |

Memory is a record of the size asked for and the bytes written.  A text or a
name is any sequence of nonzero bytes whose length fits the `int` it is written
into; lines and columns are any `uint32_t`.

### `FrontEnd` – requests, stdin and the commands of `%system`

| Actions | Code |
|---|---|
| `BlockingRequest`, `CheckDeadline`, `ReadReply` | `send_request`, `read_reply_from_input`, `_read_next_input_message` |
| `RunCommand`, `Poll`, `ReadEvents`, `ForwardInput`, `EndRound`, `GiveUp` | `_run_command`, `_poll_process`, `_read_stdin_message`, `_monitor_process` and its interruption |
| `BeginCell` | `doExecute` resets `isInterrupted` |
| `TypeLine`, `Answer`, `Expire`, `Interrupt`, `PrintPiece`, `CommandSteps` | the user, the front end, the clock, the SIGINT handler, the command and what it leaves in the background (external) |

### `PackageEngine` – `%install`

| Actions | Code |
|---|---|
| `Restart` | a new kernel: memory is lost, the disk is not |
| `InstallLocation`, `SwiftPMFlags` | the two directives |
| `BeginInstall`, `EnterIntoIndex`, `WriteManifest`, `Build`, `ReadClangModules`, `LinkSwiftModules`, `CopyModuleMaps`, `Dlopen` | `processInstall` from top to bottom; each step may fail, and a kernel may be killed between any two |

Each specification has a folder, shared by all its products and flags.  Most
flags (`-Xcc`, `-Xlinker`, the `-I` of `%install-extra-include-command`) do not
change where SwiftPM builds within it, a configuration does: `BinDir` says which
set of flags has which bin folder.  A build replaces the library of its bin
folder (`libraries`), whatever line and flags that was built for, and adds to
`build.db`, which lies above the bin folders (`rows`, `mapRows`) and keeps what
earlier builds, failed ones too, have entered.  `LinkSwiftModules` makes a link
for every row; of rows for the same module in two bin folders any may be the
last.  `Dlopen` opens by path, so a library the process already has under that
path stays in it (`loaded`), whatever was built since.

`SuccessMeansUsable` says what an `%install` can rely on nevertheless: imports
look at its location (`/opt/swift/install-location/modules`, the search path of
`LLDBProcess.cpp:57-58`), each module it needs is linked into the folder of its
own specification, to the build just made unless another bin folder was ever
used there, and the process has its library, the one just built unless the path
was open before.  The stronger statements do not hold (see below).
`NoWarningMeansSeen` compares what an `%install` does not warn about with what
was on disk, when the process was started, where the link led (`seen`).

`Dlopen` is the `install` state of `CellExecution`, where its failures and its
output are.

### `InstallScript` – `install_swift.sh`

`Start`, `BreakOff`, and one action for each part of the script from
`MakeFolder` to `Register`.  The download is a process of its own (`Extract`,
`DownloadFails`) and may be late.  The script has no error handling, and
neither has the model: what a command does when the one before it failed is
part of each action.

`tar` makes the release folder, or writes over one that a run left which was
broken off before `mv`: from then until it ends, that toolchain is not whole.  So
`ToolchainsAreKept` lets this one copy go, and says that the others stay and that
no other step loses one.  `mv` to a place that exists moves into it, where a
second one of the same name is refused; nested folders are kept as a sequence,
without their names, and a refusal is possible whenever something is nested
(`NameIsFree`).  Two downloads of one version at the same time count as one.

`disturbed` stands for what running the script again does not mend: a late or
failing download, a failed clone, a break while the folders are made, or a break
after which another version is asked for.  `FinishedMeansInstalled` and
`UndisturbedIsCached` are about the other executions.  In disturbed ones the
script does finish without a toolchain, since it has no error handling;
`ToolchainsAreKept` covers them.

### MC modules and mutations

Each `MC…` module extends a specification with the constants of its instance.
The operators preceded by "A mistake" are variants of an action with a
plausible bug.  No specification uses them: they show that a property notices
the bug.

### How the modules fit together

`CellExecution` is the centre and abstracts what the others detail.

* `CellService` is what it promises (`ImplementsCellService`, proved).
* `MessageQueue` is what it takes a pipe for; `PipeFraming` implements that.
* It takes items of stdout for whole; `OutputRouter` says when that is right.
* It begins after `initSwift` and has one process; `KernelSessions` has the
  start, the restarts and the former processes, and shows that in a cell kernel
  and process have the same pipes open to begin with.
* Its `stderr`, `Report` and results of evaluations are `LLDBProcess` in
  detail; `%system` and blocking requests are `FrontEnd`; `%install` is
  `PackageEngine`.

## The runs

| Run | Properties | Instance | States |
|---|---|---|---|
| `cell_safety` | `TypeOK`, `OneExpressionAtATime`, `ExchangeIsNotInterrupted`, `MessageMeetsItsMarker`, `ReplyMatchesRequest`, `NoMessageLeftBehind`, `ExchangeWhileStopped`, `ImplementsCellService` | 2 cells of 3 items, 1 magic command, 2 SIGINTs, 2 texts | 1.2 million |
| `cell_faults` | `ErrorIsNamedRight`, `PipesAgree`, `OutputInOrder` | 3 cells of 3 items, 2 magic commands, every fault, no SIGINT, 2 interchangeable texts | 73 502 |
| `cell_fair` | `EveryRequestIsAnswered`, `SigintIsHandled`, `CellServiceIsFair` | 2 cells of 2 items, 1 magic command, 2 SIGINTs, fair | 184 940 |
| `framing` | `RecvInv`, `ImplementsMessageQueue`, `EveryMessageArrives` | 3 messages of up to 4 bytes, headers of 2, reads of 3, fair | 21 965 |
| `output_router` | `RouterInv`, `RoutedInOrder`, `MarkersAreServed` | 2 cells, 5 items, a buffer of 3 bytes, fair | 617 946 |
| `front_end` | `TerminalInv`, `OwnReplyOrNone`, `LinesAreKept`, `CallEnds`, `CommandReturns`, `EchoIsFollowed` | 2 requests or commands, 2 lines, 2 pieces of output, fair | 189 738 |
| `kernel_sessions` | `SessionInv`, `OnlyOwnMessages`, `FilesLeftBehind`, `ZombiesEnd`, `CallsAreAnswered` | 2 kernels, 3 processes, numbers to 5, fair | 72 795 |
| `packages` | `DiskInv`, `SuccessMeansUsable`, `NoWarningMeansSeen` | 3 lines for 2 specifications with a common dependency, 2 locations, 2 sets of flags, 2 kernels, 3 installations | 3.5 million |
| `install_script` | `ScriptInv`, `FinishedMeansInstalled`, `ToolchainsAreKept` | 2 versions, 4 runs, 2 of them broken off, late and failing downloads | 1.3 million |
| `lldb_process` | `BindingsInv`, `TraceIsTheStack`, `StderrIsTheCells` | 3 launches, 2 cells, stacks of 2 frames out of 6, 5 descriptions, 6 messages | 1.3 million |
| `mutex_leak` | `SigintIsHandled`, violated | a failing exchange | |
| `lost_message` | `AwaitedMessageIsWritten`, violated | one SIGINT | |

`TerminalInv`, `DiskInv`, `SessionInv`, `RecvInv`, `RouterInv`, `ScriptInv` and
`BindingsInv` are conjunctions: the types of a module and the invariants named
in its last definition.

No run checks for deadlock.  Every system comes to rest when the bounds of its
environment are reached: no request is left, a kernel has exited or waits for
ever (`MutexLeak`), a reader has given up, a script is finished.  That nothing
stops *earlier* is what the liveness properties say.

Why these bounds are enough.  Two cells show every effect of one cell on the
next, three also one that reaches past a cell in which nothing runs.  Three items
allow text, marker, text, and two markers in a row, so messages can be paired
wrongly.  Two SIGINTs allow one during the handling of another, and a stale
interrupt in the next cell.  Two texts make a reordering visible.  Frames of
three to six bytes under reads of three put the end of a read at the end of a
frame, in a header and in a body, and three messages put several into one call;
a buffer of three bytes does the same for items of two.  Two requests let the
reply to the first come during the second; a request and a command, or two
commands, meet on the socket in either order.  Six numbers and three processes
let a start fail and be repeated while a process of the former kernel polls.
Two packages with a common dependency replace each other's links, and two lines
for one of them each other's library, in every combination of location and
flags, before and after a kernel was killed; the third installation meets what
two earlier ones left.  Each set of flags has its own bin folder in the run: two
builds that differ in the same folder are there by their products, and flags
that share a folder are covered by the theorem, for any `BinDir`.  Four
runs of the script put a version away, take it out and put it away again, and
do so after a run that was broken off.  The lengths of the six frames leave
every remainder by four.

### Fairness

*`CellExecution`.*  Each thread of the kernel takes its steps, and so does the
process (weak fairness).  Acquiring the mutex is strongly fair for the handler
and the worker: the main thread sleeps 50 ms between two acquisitions.  The
user's program and commands end.  *`PipeFraming`.*  A write becomes visible and
the reader polls.  *`OutputRouter`.*  Output arrives, and the kernel drains while
a cell runs (it polls in a loop).  *`FrontEnd`.*  The kernel goes on when it can,
and a deadline passes; nobody has to answer, to type or to end.
*`KernelSessions`.*  A kernel that lives serves, and a process in the loop of
`recv` polls.  Nothing is assumed about requests, interruptions, faults, kills.
`PackageEngine`, `InstallScript` and `LLDBProcess` have no liveness properties:
they are sequences of calls that return.

### Violated, as the code stands

| Run | What happens |
|---|---|
| `mutex_leak` | `doExecute` releases the mutex after `try beforeExecution()`, not in a `defer` (`DoExecute.swift:16-19`).  When the exchange fails the mutex stays locked; the handler, and the next cell, block for ever. |
| `lost_message` | A SIGINT (or a trap) between the marker and the message: the process never writes, and `executeNextMessage` loops on "Cache miss: message not yet written." (`HandleIO.swift:72-74`). |

Some more statements of the code do not hold.  They stay in the modules as
definitions, without a run:

* `RequestsAreRouted` (`FrontEnd`): `send_request` puts the session's header
  into `parent_copy` "to route to the appropriate frontend"
  (`HandleIO.swift:247-261`) and then sends `parent`.
* `SystemStopsOnlyOnItsInterrupt` (`CellExecution`): the handler releases the
  mutex and then sets `isInterrupted` (`InitSwift.swift:98`).  The main thread
  can answer the interrupted cell and reset the flag for the next one in
  between; the next `%system` command is broken off.
* `ErrorIsNamedRight` holds without interruptions only: a cell that is
  interrupted before its header is printed is reported as a compile error
  (`DoExecute.swift:97`).
* `KilledProcessStopsKernel`: when the process died between two cells the
  exchange fails and throws before `process_is_alive` is asked; the kernel does
  not stop, it hangs (see `mutex_leak`).
* The precondition of `getAndSendStdout` (`HandleIO.swift:104`) fails, and ends
  the kernel, when a library prints while `%install` loads it (the fault
  "print") and when a header is cut in two.
* "The line could theoretically end right after the second colon."
  (`FormatErrors.swift:68`): if it does, the index two characters further is
  past the end and traps before the `guard`.  `LLDBProcess` has this as the
  phase `trapped`, from which nothing goes on.
* `LoadedIsBuilt` (`PackageEngine`): "dlopen the .so file that SwiftPM created"
  (`ProcessInstalls.swift:134`).  When the same specification was installed
  before by this process, with other products or flags but the same bin folder,
  `dlopen` returns the library of then; `%install` reports success.
* `LinkedIsBuilt`: a module may be linked to an earlier build in another bin
  folder of the same package (`ProcessInstalls.swift:294-304`).
* `WarnedUnlessSeen`: when the first `%install` of a kernel is at a location the
  link did not lead to when the process was started, the set that is read there
  holds modules the compiler has not seen, and the warning is missing.
* "There should be no 'toolchain' folder unless using cached Swift."
  (`install_swift.sh:67`, and the converse at 72): a run that was broken off,
  or a late download, leads to both; `UndisturbedIsCached` says that nothing
  else does.

## The proofs

All constants are arbitrary; the assumptions are those in the modules: bounds
are natural numbers, `Faults` is a set of the three kinds, no text is the
header or the marker, the default location is a location, and so on.

`CellExecutionProofs`

* `TypeCorrect`: `Spec => []TypeOK`.  `TypeOK` is not inductive alone: removing
  the marker from the text in hand needs a non-empty text, so it is proved
  together with `AwaitsAtMarker` (the main thread reads the pipe only with a
  marker at hand).
* `ControlCorrect` is the inductive invariant of the threads, five parts that
  need each other: `MutexHeld` (who is inside a critical section holds the
  mutex), `EvaluationReturned` (a result is there exactly when the process does
  not run), `WorkerIsPolled` (the worker lives only while the main thread
  polls, and has stored its result when polling stops), `OneExpressionAtATime`,
  and `PipesExchanged` (from a successful exchange to the reply the process has
  the latest pipes).
* From it: `OneExpressionAlways`, `ExchangeNeverInterrupted`,
  `PipesAlwaysAgree`, and the action property `ExchangeOnlyWhileStopped`.

* `ErrorsAreNamedRight`: `Spec => [](sigints = 0 => ErrorIsNamedRight)`, with
  every fault.  `NamingInvariant`: nothing is under way in the handler
  (`Uninterrupted`); the header that is read is the one of this cell, and there
  is none until its program prints it (`HeaderIsOwn`, `Unprinted`); the output is
  read to its end before the report (`ReadToTheEnd`); the result that is looked
  at is the one of the latest evaluation, which without a SIGINT fails because
  of the compiler, a trap or a death (`ResultIsLatest`).

What a cell prints and sends (in the same module):

* `OutputAlwaysInOrder`: what was consumed, what is in hand and what is unread
  are together what was printed.  Inductive with the types and `OutputInHand`.
* `ServiceImplemented`: `Spec => CellService!Spec` when "print" is not among
  the faults.  The mapping is `busy` = the main thread is not between two
  requests, `produced` = what was printed, `delivered` = what was consumed.  It
  needs `OutputOnlyWhenPolled`: there is no unread output outside the polling
  loop, because the result is looked at before the output is read.
  `VisibleSteps` sorts the actions by what `CellService` sees of them.
* `MessageAlwaysMeetsMarker`, `ReplyAlwaysMatches` and `NoMessageEverLeftBehind`
  from `MessageInvariant`, which ties the markers in stdout, the messages in the
  pipe and the state of the program together: there is one message under way at
  most, in one of four places (`OneMessageAtMost`); a program that is between a
  marker and its response is the one whose marker is the last that was printed
  (`CanSendUntilMarker`, `CallInProgress`); nothing is under way outside the
  polling loop (`QuietOutside`), because the result of an evaluation comes after
  its last message (`ResultComesLast`).  The lemmas before it count the markers
  in concatenated sequences.

`KernelSessionsProofs`, with kills at any step and any number of processes

* `SessionsAreConsistent`: `Spec => []SessionInv`.  `IInv` adds to it that
  numbers are given before they are used (`NumbersGiven`), that the globals of
  a ready kernel stand for a process of its own (`GlobalsSet`), and that the
  process opens the pipes of the counter during an exchange and nothing else
  (`ExchangeUnderWay`).
* `MessagesAreOwn`: `Spec => []OnlyOwnMessages`.  `OwnInv`: a number belongs to
  one talking process (`OneTalker`), whose messages alone are in its pipes
  (`PipesOfOne`), and nobody talks under the number that a kernel prepares
  (`NumberIsFresh`), since the counter is incremented before anything else.

* `FewFilesLeftBehind`: `Spec => []FilesLeftBehind`.  `FilesInv` counts: the
  files nobody has open, with those a start is about to replace, are at most
  twice the sessions that have ended (`Accounted`); every step adds to one side
  what it adds to the other.

`LLDBProcessProofs`, for any texts, names and stacks

* `BindingsAreSound`, `TraceIsComplete` and `StderrIsOfTheCell` from `IInv`.  The
  lemmas on memory come first: a number written as four bytes is read as that
  number (`WordIsRead`), a name written at an aligned place is read as that name
  and reading ends where the next begins (`ComponentIsRead`), so a block is read
  as the line of its frame (`FrameIsRead`) and never outside of what was written;
  the same for the block of a description (`DescriptionIsRead`).  The invariant
  says of the block of every frame that it was made from the frame in its place
  (`Traced`), which blocks are allocated in each phase (`Allocated`), and that
  what is unread in the file of stderr was written by the cell that runs
  (`WrittenByCell`).

`PackageEngineProofs`

* `DiskIsConsistent`, `InstalledIsUsable` and `UnwarnedIsSeen` from one
  invariant: the disk fits the index, and each step that is over has done what
  the later ones rely on (`StepsDone`): the manifest is that of the line, the
  rows of its modules are in `build.db`, the library in its bin folder is the one
  just built, each module is linked to a row of its package; the set of Clang
  modules is read before this kernel changes any (`ModulesReadFirst`).  `BinDir`,
  the modules of a line and what lines share are arbitrary.

`FrontEndProofs`

* `OwnReplies`, `TerminalsAreFaithful` and the action property `LinesSurvive`,
  from two invariants.  `SocketInv`: a reply is on the socket once, and not
  while the front end may still give it (`RepliesOnce`); the request that waits
  has not returned (`ReturnsOnce`); what is on the socket was typed in that
  order, and after all that was entered (`LinesInOrder`).  `CommandInv`: the
  monitor is right about a process that has ended and about a terminal that
  nobody holds, and a round that read nothing after that has left nothing
  (`HangUpSeen`) - the reason why `Over` must ask for all three.

`InstallScriptProofs`, with breaks at any step

* `FinishedAlwaysInstalled`: `Spec => []FinishedMeansInstalled`.  The invariant
  holds while `disturbed` does not: the folders are made (`LayoutIsMade`); the
  toolchain of the last version is in its place, put away, or has made room for
  the new one (`WhereToolchainsAre`), and each step of the switch finds what it
  relies on (`StepOfSwitch`); a half-done switch is met by a run for the same
  version (`SameVersionAgain`); and `progress/` claims nothing that is not there
  (`ProgressIsTrue`).
* `CacheIsUsed`: `Spec => []ScriptInv`, as long as nothing is broken off or
  late.  `CacheParts` says of every version that was downloaded where it is: put
  away, in its place, or on its way there between the download and the file that
  records it; and that only the version of the run is being downloaded.
* `ToolchainsStay`: `Spec => ToolchainsAreKept`, without any such condition.
  Every `mv` is a bijection of the places where a version is, behind what the
  other folder holds (`MovesBehind`, `MovedTogether`, one lemma per move), and
  `tar` takes the copy in its release folder when it begins to write over it, and
  no other (`ExtractKeeps`).  `PlacesFree` says
  that the download is moved to where nothing is, and that the folder it is
  extracted to holds that version alone.  No assumption that the versions are
  finitely many: that the copies of one are is part of the invariant
  (`Countable`).

`PipeFramingProofs`, for messages of any bytes and pieces of any size

* `ReceivesWhatIsSent` and `QueueImplemented` (`Spec => MessageQueue!Spec`, with
  the messages as the queue) from `IInv`: the file, with what is not visible
  yet, is the frames of what was sent (`Frames`), of which at most the last is
  visible in part; and the handle of the reader stands behind the last message
  that was received, by what `recv_raw` has in hand.  `Decode` is a recursive
  function over positions: that such a function exists and what it returns for
  frames (`RestExists`, `DecodeIsFunction`, `FramesAreDecoded`) is proved by
  induction in the form of a least element (`InductionOnNat`), which needs no
  operator as a parameter.

`OutputRouterProofs`, for any number of cells and items and a buffer of any size

* `ShownWhole`: `Spec => []RouterInv`.  `IInv` says that what was drained is the
  beginning of what was printed (`Drained`), cut anywhere, and that a drain runs
  only in a cell.  What a drain sends has the bytes of the text it was given,
  whatever they are (`RouteKeepsBytes`), and the header can only be dropped at
  its beginning.
* `InItsPlace`: `Spec => []RoutedInOrder`.  `WInv`: while nothing is torn or
  late, what was drained is a number of whole items (`Whole`).  On the bytes of
  whole items `sendStdout` finds the markers and the sequences that clear the
  output, and only those (`ItemsAreUTF8`, `RouteOfItems`); the drains of two
  runs of items together show what one drain would (`SpreadConcat`).
* `Route` is a recursive function over pairs of ends.  That it exists
  (`RouteIsFunction`) and what it returns is proved by induction over the
  distance between the ends, with `LeastElement`.

Model-checked only:

* everything with fairness (beyond the prover): the liveness properties of
  `cell_fair`, `framing`, `output_router`, `front_end` and `kernel_sessions`.
  Each invariant and action property without fairness that a passing run checks
  is proved.

## Not modelled

* PythonKit (`third_party/`) and the LLDB headers are vendored: declarations, and
  a binding to Python, without behaviour of this repository.  They are four
  fifths of its lines; of the others the models stand for more than half, and
  the rest is mostly text (see below).  The two enums the bindings
  depend on (`StateType`, `ErrorType`) are in `LLDBProcess`.
* Short writes on a full disk (`KernelContext.swift:226`): the models finish
  every write.
* Runtime alternation (`mode` is "release" once and for all) and registration,
  which write constants to files.
* Logging, ANSI colours, the wording of messages, `formatCompileError`, JSON
  and Python encodings, the text that `%include` inserts, the copy of the
  environment (`CEnvironment` in `InitSwift.swift:18`), the calling convention
  of `get_stdout`.
* Text that is not UTF-8: a description or a line of stderr that does not decode
  traps in Swift (`HandleIO.swift:135-137`, `FormatErrors.swift:138`).
* The locale that `_run_command` insists on and failures of `Popen`
  (`HandleIO.swift:438-441`, `:459`): the command is then not run at all.
* A command that survives SIGINT for half a second: SIGKILL is sent to a
  command that is already gone (`HandleIO.swift:418`), and what the survivor
  does without its terminal.

Simplified: `CellExecution` has one outcome, `PreprocessFails`, for all errors of
preprocessing, which no property tells apart.  In `KernelSessions` the kernel of
a program that dies ends in the same step (`ProgramDies`), where the code answers
first and stops its loop 0.1 s later (`DoExecute.swift:73-82`); `SessionInv` is
easier for it in that interval, and the death itself is in `CellExecution`.

## Plan

Done: all modules above.  Left:

1. Composition: `KernelSessions` and `CellExecution` share the exchange of
   pipes; `FrontEnd` could be the `%system` and the blocking request of
   `CellExecution`.
2. The alternation of runtimes, if `mode` is ever written after the start.
