---------------------------- MODULE KernelSessions ----------------------------
(* What outlives a kernel: the counter and the pipe files in                 *)
(* /opt/swift/pipes, and processes of former kernels (KernelPipe in          *)
(* KernelContext.swift, initSwift, SwiftKernel.do_execute, and the process's *)
(* side of a call in SwiftShell.swift).                                      *)
(*                                                                           *)
(* One kernel runs at a time; it may be killed between any two system calls, *)
(* and what was running under its debugger may run on.  Inside a cell only   *)
(* the calls between program and kernel are kept: CellExecution has the rest.*)
EXTENDS Integers, Sequences, FiniteSets

CONSTANTS
  MaxSessions,    \* bound on the number of kernels
  MaxNumber,      \* bound on the counter
  MaxProcesses    \* bound on the number of processes launched

ASSUME BoundsAssumption ==
  MaxSessions \in Nat /\ MaxNumber \in Nat /\ MaxProcesses \in Nat

Nil == -1
Number == 0 .. MaxNumber

VARIABLES
  counter,    \* the contents of the counter file, Nil when there is none
  files,      \* the pipe files: <<1 or 2, number>>
  pipe1,      \* what a handle to 1-n leads to: calls to the kernel
  pipe2,      \* what a handle to 2-n leads to: responses
  session,    \* number of the kernel
  up,         \* the kernel runs
  step,       \* what it does next
  ready,      \* debuggerInitialized
  handlers,   \* threads that wait for SIGINT
  kernelID,   \* globalCellID of the kernel
  procs,      \* the processes: kernel that launched it, state, globalCellID, counter it has loaded
  taken       \* history: <<taker, owner>> of each message that was taken

vars == <<counter, files, pipe1, pipe2, session, up, step, ready, handlers,
          kernelID, procs, taken>>
pipeVars == <<counter, files, pipe1, pipe2>>
kernelVars == <<session, up, step, ready, handlers, kernelID>>

ProcessStates == {"stopped", "load", "open", "opened", "run", "write", "poll", "read", "dead"}
Steps == {"idle", "increment", "remove1", "remove2", "create1", "create2", "fetch",
          "launch", "communicator", "concurrency", "handler",
          "exchange", "exchanging", "cell", "stuck"}

Init ==
  /\ counter = Nil /\ files = {}
  /\ pipe1 = [n \in Number |-> <<>>] /\ pipe2 = [n \in Number |-> <<>>]
  /\ session = 0 /\ up = FALSE /\ step = "idle" /\ ready = FALSE
  /\ handlers = 0 /\ kernelID = Nil /\ procs = <<>> /\ taken = {}

(* The process that the kernel's globals stand for, and those it can stop.   *)
Current == Len(procs)
Owned(p) == up /\ procs[p].session = session

To(p, st) == procs' = [procs EXCEPT ![p].st = st]

-----------------------------------------------------------------------------
(* The kernel.                                                               *)

StartKernel ==
  /\ ~up /\ session < MaxSessions
  /\ session' = session + 1 /\ up' = TRUE
  /\ step' = "idle" /\ ready' = FALSE /\ handlers' = 0 /\ kernelID' = Nil
  /\ UNCHANGED <<pipeVars, procs, taken>>

(* A kernel that is killed takes its stopped processes with it; one that     *)
(* runs at that time may run on.                                             *)
KillKernel ==
  /\ up /\ up' = FALSE
  /\ \E spared \in BOOLEAN :
       procs' = [p \in DOMAIN procs |->
         IF Owned(p) /\ (procs[p].st = "stopped" \/ ~spared)
           THEN [procs[p] EXCEPT !.st = "dead"] ELSE procs[p]]
  /\ UNCHANGED <<pipeVars, session, step, ready, handlers, kernelID, taken>>

(* do_execute: initSwift as long as it has not succeeded, and in each cell   *)
(* the exchange of pipes; both begin with resetPipes.                        *)
Request ==
  /\ up /\ step = "idle"
  /\ step' = "increment"
  /\ UNCHANGED <<pipeVars, session, up, ready, handlers, kernelID, procs, taken>>

Go(from, to) == up /\ step = from /\ step' = to

(* A mistake: the counter starts anew with each kernel.                      *)
IncrementOwn ==
  /\ up /\ step = "increment" /\ kernelID < MaxNumber
  /\ counter' = kernelID + 1
  /\ step' = IF counter' > 0 THEN "remove1" ELSE "create1"
  /\ UNCHANGED <<files, pipe1, pipe2, session, up, ready, handlers, kernelID, procs, taken>>

(* incrementThenLoadCounter *)
IncrementThenLoadCounter ==
  /\ up /\ step = "increment" /\ counter < MaxNumber
  /\ counter' = counter + 1
  /\ step' = IF counter' > 0 THEN "remove1" ELSE "create1"
  /\ UNCHANGED <<files, pipe1, pipe2, session, up, ready, handlers, kernelID, procs, taken>>

(* A mistake: the second file of the former number is forgotten.             *)
RemoveFirstFile ==
  /\ \/ Go("remove1", "remove2") /\ files' = files \ {<<1, counter - 1>>}
     \/ Go("remove2", "create1") /\ UNCHANGED files
  /\ UNCHANGED <<counter, pipe1, pipe2, session, up, ready, handlers, kernelID, procs, taken>>

(* resetPipes: the files of the former number, one after the other ...       *)
RemoveFormerFile ==
  /\ \/ Go("remove1", "remove2") /\ files' = files \ {<<1, counter - 1>>}
     \/ Go("remove2", "create1") /\ files' = files \ {<<2, counter - 1>>}
  /\ UNCHANGED <<counter, pipe1, pipe2, session, up, ready, handlers, kernelID, procs, taken>>

(* A mistake: the new files get the number after the counter's.              *)
CreateNextFile ==
  /\ \/ /\ Go("create1", "create2")
        /\ files' = files \cup {<<1, counter + 1>>}
        /\ pipe1' = [pipe1 EXCEPT ![counter] = <<>>] /\ UNCHANGED pipe2
     \/ /\ Go("create2", "fetch")
        /\ files' = files \cup {<<2, counter + 1>>}
        /\ pipe2' = [pipe2 EXCEPT ![counter] = <<>>] /\ UNCHANGED pipe1
  /\ UNCHANGED <<counter, session, up, ready, handlers, kernelID, procs, taken>>

(* ... and the two new ones, which are empty.                                *)
CreateFile ==
  /\ \/ /\ Go("create1", "create2")
        /\ files' = files \cup {<<1, counter>>}
        /\ pipe1' = [pipe1 EXCEPT ![counter] = <<>>] /\ UNCHANGED pipe2
     \/ /\ Go("create2", "fetch")
        /\ files' = files \cup {<<2, counter>>}
        /\ pipe2' = [pipe2 EXCEPT ![counter] = <<>>] /\ UNCHANGED pipe1
  /\ UNCHANGED <<counter, session, up, ready, handlers, kernelID, procs, taken>>

(* fetchPipes in the kernel. *)
FetchPipes ==
  /\ Go("fetch", IF ready THEN "exchange" ELSE "launch")
  /\ kernelID' = counter
  /\ UNCHANGED <<pipeVars, session, up, ready, handlers, procs, taken>>

(* initReplProcess. *)
InitReplProcess ==
  /\ \/ /\ Go("launch", "communicator")
        /\ Len(procs) < MaxProcesses
        /\ procs' = Append(procs, [session |-> session, st |-> "stopped", id |-> Nil, loaded |-> Nil])
     \/ Go("launch", "idle") /\ UNCHANGED procs
  /\ UNCHANGED <<pipeVars, session, up, ready, handlers, kernelID, taken>>

(* A mistake: the handler is started before the last step that can fail.     *)
InitHandlerEarly ==
  /\ \/ Go("communicator", "concurrency") /\ handlers' = handlers + 1
     \/ Go("communicator", "idle") /\ UNCHANGED handlers
     \/ Go("concurrency", "handler") /\ UNCHANGED handlers
     \/ Go("concurrency", "idle") /\ UNCHANGED handlers
  /\ UNCHANGED <<pipeVars, session, up, ready, kernelID, procs, taken>>

(* initKernelCommunicator declares the communicator, whose pipes are fetched *)
(* when a cell first uses it; initConcurrency imports a module.              *)
InitEvaluate ==
  /\ \/ Go("communicator", "concurrency") \/ Go("communicator", "idle")
     \/ Go("concurrency", "handler") \/ Go("concurrency", "idle")
  /\ UNCHANGED <<pipeVars, session, up, ready, handlers, kernelID, procs, taken>>

(* initSIGINTHandler; do_execute goes on with the cell.                      *)
InitSIGINTHandler ==
  /\ Go("handler", "increment")
  /\ handlers' = handlers + 1 /\ ready' = TRUE
  /\ UNCHANGED <<pipeVars, session, up, kernelID, procs, taken>>

(* beforeExecution lets the process fetch its pipes.                         *)
BeginExchange ==
  /\ Go("exchange", "exchanging")
  /\ procs[Current].st = "stopped"
  /\ To(Current, "load")
  /\ UNCHANGED <<pipeVars, session, up, ready, handlers, kernelID, taken>>

(* A mistake: a failed evaluation is not noticed.                            *)
EndExchangeUnchecked ==
  /\ Go("exchanging", "cell")
  /\ procs[Current].st \in {"load", "opened"} /\ To(Current, "run")
  /\ UNCHANGED <<pipeVars, session, up, ready, handlers, kernelID, taken>>

(* The evaluation ends: the cell runs, or do_execute throws and leaves the   *)
(* mutex locked, which the next request waits for.                           *)
EndExchange ==
  /\ \/ /\ Go("exchanging", "cell")
        /\ procs[Current].st = "opened" /\ To(Current, "run")
     \/ /\ Go("exchanging", "stuck")
        /\ procs[Current].st \in {"load", "opened"} /\ To(Current, "stopped")
     \/ /\ Go("exchanging", "stuck")
        /\ procs[Current].st = "dead" /\ UNCHANGED procs
  /\ UNCHANGED <<pipeVars, session, up, ready, handlers, kernelID, taken>>

(* A mistake: a request that fails is not responded to.                      *)
ServeWithoutResponse ==
  /\ up /\ step = "cell" /\ kernelID = counter
  /\ pipe1[kernelID] # <<>>
  /\ pipe1' = [pipe1 EXCEPT ![kernelID] = Tail(@)]
  /\ taken' = taken \cup {<<Current, Head(pipe1[kernelID])>>}
  /\ UNCHANGED <<counter, files, pipe2, kernelVars, procs>>

(* executeNextMessage: recv, execute_message, send.  HandlesMatch says that  *)
(* the kernel passes validateCounter in both.                                *)
Serve ==
  /\ up /\ step = "cell" /\ kernelID = counter
  /\ pipe1[kernelID] # <<>>
  /\ LET caller == Head(pipe1[kernelID])
     IN  /\ pipe1' = [pipe1 EXCEPT ![kernelID] = Tail(@)]
         /\ pipe2' = [pipe2 EXCEPT ![kernelID] = Append(@, caller)]
         /\ taken' = taken \cup {<<Current, caller>>}
  /\ UNCHANGED <<counter, files, kernelVars, procs>>

-----------------------------------------------------------------------------
(* A process.                                                                *)

(* fetchPipes: it loads the counter ...                                      *)
LoadCounter(p) ==
  /\ procs[p].st = "load"
  /\ procs' = [procs EXCEPT ![p].st = "open", ![p].id = Nil, ![p].loaded = counter]
  /\ UNCHANGED <<pipeVars, kernelVars, taken>>

(* ... and opens the files of that number, of which "ab" creates the first.  *)
OpenFiles(p) ==
  LET n == procs[p].loaded
  IN  /\ procs[p].st = "open"
      /\ files' = files \cup {<<1, n>>}
      /\ IF <<2, n>> \in files
           THEN procs' = [procs EXCEPT ![p].st = "opened", ![p].id = n]
           ELSE To(p, "dead")
      /\ UNCHANGED <<counter, pipe1, pipe2, kernelVars, taken>>

(* A process that ends an evaluation without its debugger meets a trap.      *)
OrphanEnds(p) ==
  /\ ~Owned(p) /\ procs[p].st \in {"opened", "run"}
  /\ To(p, "dead")
  /\ UNCHANGED <<pipeVars, kernelVars, taken>>

(* The program ends, and with it the cell.                                   *)
EndCell(p) ==
  /\ Owned(p) /\ procs[p].st = "run"
  /\ Go("cell", "idle")
  /\ To(p, "stopped")
  /\ UNCHANGED <<pipeVars, session, up, ready, handlers, kernelID, taken>>

(* The program kills the process; the kernel stops itself.                   *)
ProgramDies(p) ==
  /\ Owned(p) /\ procs[p].st = "run"
  /\ To(p, "dead")
  /\ up' = FALSE
  /\ UNCHANGED <<pipeVars, session, step, ready, handlers, kernelID, taken>>

(* validateCounter: "Zombie thread."                                         *)
Validated(p, st) == IF procs[p].id = counter THEN To(p, st) ELSE To(p, "dead")

(* send: it looks at the counter, and then writes.                           *)
BeginSend(p) ==
  /\ procs[p].st = "run"
  /\ Validated(p, "write")
  /\ UNCHANGED <<pipeVars, kernelVars, taken>>

Write(p) ==
  /\ procs[p].st = "write"
  /\ pipe1' = [pipe1 EXCEPT ![procs[p].id] = Append(@, p)]
  /\ To(p, "poll")
  /\ UNCHANGED <<counter, files, pipe2, kernelVars, taken>>

(* A mistake: recv does not look at the counter.                             *)
BeginRecvUnchecked(p) ==
  /\ procs[p].st = "poll"
  /\ To(p, "read")
  /\ UNCHANGED <<pipeVars, kernelVars, taken>>

(* recv, again and again: it looks at the counter, and then reads.           *)
BeginRecv(p) ==
  /\ procs[p].st = "poll"
  /\ Validated(p, "read")
  /\ UNCHANGED <<pipeVars, kernelVars, taken>>

Read(p) ==
  LET n == procs[p].id
  IN  /\ procs[p].st = "read"
      /\ IF pipe2[n] = <<>>
           THEN To(p, "poll") /\ UNCHANGED <<pipe2, taken>>
           ELSE /\ To(p, "run")
                /\ pipe2' = [pipe2 EXCEPT ![n] = Tail(@)]
                /\ taken' = taken \cup {<<p, Head(pipe2[n])>>}
      /\ UNCHANGED <<counter, files, pipe1, kernelVars>>

-----------------------------------------------------------------------------
KernelStep ==
  \/ Request \/ IncrementThenLoadCounter \/ RemoveFormerFile \/ CreateFile \/ FetchPipes
  \/ InitReplProcess \/ InitEvaluate \/ InitSIGINTHandler
  \/ BeginExchange \/ EndExchange \/ Serve

ProcessStep(p) ==
  \/ LoadCounter(p) \/ OpenFiles(p) \/ OrphanEnds(p) \/ EndCell(p) \/ ProgramDies(p)
  \/ BeginSend(p) \/ Write(p) \/ BeginRecv(p) \/ Read(p)

Next ==
  \/ StartKernel \/ KillKernel \/ KernelStep
  \/ \E p \in DOMAIN procs : ProcessStep(p)

Spec == Init /\ [][Next]_vars

(* The kernel polls, and a process in the loop of recv is scheduled.  Nobody *)
(* promises that a kernel is started, a cell requested or a program ends.    *)
Polls(p) == p \in DOMAIN procs /\ (BeginRecv(p) \/ Read(p) \/ Write(p))
FairSpec ==
  /\ Spec
  /\ WF_vars(Serve)
  /\ \A p \in 1 .. MaxProcesses : WF_vars(Polls(p))

-----------------------------------------------------------------------------
(* Properties.                                                               *)

(* The types of the variables. *)
TypeOK ==
  /\ counter \in Number \cup {Nil} /\ kernelID \in Number \cup {Nil}
  /\ files \subseteq {1, 2} \X Number
  /\ pipe1 \in [Number -> Seq(1 .. MaxProcesses)]
  /\ pipe2 \in [Number -> Seq(1 .. MaxProcesses)]
  /\ session \in 0 .. MaxSessions /\ up \in BOOLEAN /\ ready \in BOOLEAN
  /\ step \in Steps /\ handlers \in Nat
  /\ procs \in Seq([session : 1 .. MaxSessions, st : ProcessStates,
                    id : Number \cup {Nil}, loaded : Number \cup {Nil}])
  /\ taken \subseteq (1 .. MaxProcesses) \X (1 .. MaxProcesses)

(* "the zombie thread consumes messages it doesn't own"                      *)
(* (KernelContext.swift:132) does not happen: a kernel serves calls of the   *)
(* process it launched last, and a process takes responses to its own calls. *)
OnlyOwnMessages == \A t \in taken : t[1] = t[2]

(* While a cell runs, kernel and process have the pipes of the counter open, *)
(* and the process is this kernel's last: validateCounter never takes either *)
(* for a zombie.                                                             *)
HandlesMatch ==
  up /\ step = "cell" =>
    /\ kernelID = counter
    /\ procs[Current].session = session /\ procs[Current].id = counter
    /\ procs[Current].st # "dead"

(* However often initSwift is retried, one thread handles SIGINT when the    *)
(* first cell runs, and none before.                                         *)
OneHandler == handlers = IF ready THEN 1 ELSE 0

(* Pipe files are left behind only by kernels that were killed: two for each *)
(* at the most, and those of the former number while pipes are reset.        *)
Stale == {f \in files : f[2] < counter}
FilesLeftBehind ==
  Cardinality(Stale) <=
    2 * (IF up THEN session - 1 ELSE session)
    + (IF up /\ step \in {"remove1", "remove2"} THEN 2 ELSE 0)

(* A process in the loop of recv that a newer kernel has overtaken ends.     *)
Overtaken(p) == p \in DOMAIN procs /\ procs[p].st = "poll" /\ procs[p].id # counter
ZombiesEnd ==
  \A p \in 1 .. MaxProcesses :
    Overtaken(p) ~> (p \in DOMAIN procs /\ procs[p].st = "dead")

(* A program that waits for a response gets it, unless its kernel is killed. *)
Waits(p) == p \in DOMAIN procs /\ procs[p].st = "poll" /\ Owned(p)
CallsAreAnswered ==
  \A p \in 1 .. MaxProcesses :
    Waits(p) ~> (p \in DOMAIN procs /\ (procs[p].st = "run" \/ ~Owned(p)))

(* The invariant: the types, one handler, and a cell with the right pipes.   *)
SessionInv == TypeOK /\ OneHandler /\ HandlesMatch
=============================================================================
