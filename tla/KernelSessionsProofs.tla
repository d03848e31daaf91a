------------------------- MODULE KernelSessionsProofs -------------------------
(* Proofs about KernelSessions, for any number of kernels and processes that *)
(* are killed at any step: each kernel uses its own pipes, starts one        *)
(* handler, and nobody takes a message of another.                           *)
EXTENDS KernelSessions, SequenceTheorems, FiniteSetTheorems, TLAPS

Process == [session : 1 .. MaxSessions, st : ProcessStates,
            id : Number \cup {Nil}, loaded : Number \cup {Nil}]

(* A process in the middle of a cell, which may write to and read from the   *)
(* pipes it has open.                                                        *)
Talking == {"run", "write", "poll", "read"}
Talks(p) == procs[p].st \in Talking

-----------------------------------------------------------------------------
(* The inductive invariant.                                                  *)

(* The types are kept because no pipe is opened before the counter is.       *)
NumbersGiven ==
  /\ Len(procs) <= MaxProcesses
  /\ up => session >= 1
  /\ step \notin {"idle", "increment"} \/ procs # <<>> => counter # Nil
  /\ \A p \in DOMAIN procs :
       /\ procs[p].st = "open" => procs[p].loaded # Nil
       /\ procs[p].st \in Talking \cup {"opened"} => procs[p].id # Nil

(* The globals of a kernel that is ready stand for a process of its own.     *)
GlobalsSet ==
  /\ ready \/ step \in {"communicator", "concurrency", "handler"} =>
       procs # <<>> /\ procs[Current].session = session
  /\ step \in {"launch", "communicator", "concurrency", "handler"} => ~ready
  /\ step \in {"exchange", "exchanging", "cell"} => ready /\ kernelID = counter

(* From the exchange on, the process opens the pipes of the counter.         *)
ExchangeUnderWay ==
  /\ up /\ step = "exchanging" =>
       /\ procs[Current].st \in {"load", "open", "opened", "dead"}
       /\ procs[Current].st = "open" => procs[Current].loaded = counter
       /\ procs[Current].st = "opened" => procs[Current].id = counter
  /\ up /\ step = "cell" => Talks(Current) /\ procs[Current].id = counter

IInv ==
  /\ TypeOK /\ OneHandler
  /\ NumbersGiven /\ GlobalsSet /\ ExchangeUnderWay

(* A number belongs to one process: who talks under it is the only one, and  *)
(* the messages in its pipes are from that process.                          *)
OneTalker ==
  \A p, q \in DOMAIN procs :
    Talks(p) /\ Talks(q) /\ procs[p].id = procs[q].id => p = q
PipesOfOne ==
  \A p \in DOMAIN procs : Talks(p) =>
    /\ \A k \in DOMAIN pipe1[procs[p].id] : pipe1[procs[p].id][k] = p
    /\ \A k \in DOMAIN pipe2[procs[p].id] : pipe2[procs[p].id][k] = p

(* Nobody talks under a number that a kernel prepares.                       *)
Preparing ==
  {"remove1", "remove2", "create1", "create2", "fetch", "launch", "communicator",
   "concurrency", "handler", "exchange", "exchanging"}
NumberIsFresh ==
  /\ \A p \in DOMAIN procs : Talks(p) => procs[p].id <= counter
  /\ up /\ step \in Preparing =>
       \A p \in DOMAIN procs : Talks(p) => procs[p].id # counter
  /\ up /\ step \in {"create2", "fetch", "exchange", "exchanging"} => pipe1[counter] = <<>>
  /\ up /\ step \in {"fetch", "exchange", "exchanging"} => pipe2[counter] = <<>>

OwnInv == OnlyOwnMessages /\ OneTalker /\ PipesOfOne /\ NumberIsFresh

-----------------------------------------------------------------------------
(* What a step of a process changes.                                         *)

(* A step that moves a process to another state leaves the rest of it, and   *)
(* the other processes, alone.                                               *)
LEMMA Moved ==
  ASSUME TypeOK, NEW p \in DOMAIN procs, NEW s \in ProcessStates, To(p, s)
  PROVE  /\ procs' \in Seq(Process) /\ Len(procs') = Len(procs)
         /\ DOMAIN procs' = DOMAIN procs
         /\ procs'[p].st = s /\ procs'[p].id = procs[p].id
         /\ procs'[p].session = procs[p].session /\ procs'[p].loaded = procs[p].loaded
         /\ \A q \in DOMAIN procs : q # p => procs'[q] = procs[q]
<1>1. procs \in Seq(Process) BY DEF TypeOK, Process
<1>2. procs[p] \in Process BY <1>1
<1>3. [procs[p] EXCEPT !.st = s] \in Process BY <1>2 DEF Process
<1>4. procs' = [procs EXCEPT ![p] = [procs[p] EXCEPT !.st = s]] BY DEF To
<1>5. [procs[p] EXCEPT !.st = s].st = s BY <1>2 DEF Process
<1> QED BY <1>1, <1>2, <1>3, <1>4, <1>5 DEF Process

(* A kernel that is killed changes the state of processes, and only to dead. *)
LEMMA Killed ==
  ASSUME TypeOK, KillKernel
  PROVE  /\ procs' \in Seq(Process) /\ Len(procs') = Len(procs)
         /\ DOMAIN procs' = DOMAIN procs
         /\ \A q \in DOMAIN procs :
              \/ procs'[q] = procs[q]
              \/ procs'[q].st = "dead"
<1>1. procs \in Seq(Process) BY DEF TypeOK, Process
<1>2. PICK spared \in BOOLEAN : procs' =
        [p \in DOMAIN procs |->
           IF Owned(p) /\ (procs[p].st = "stopped" \/ ~spared)
             THEN [procs[p] EXCEPT !.st = "dead"] ELSE procs[p]]
  BY DEF KillKernel
<1>3. \A p \in DOMAIN procs : procs[p] \in Process BY <1>1
<1>4. \A p \in DOMAIN procs : [procs[p] EXCEPT !.st = "dead"] \in Process
  BY <1>3 DEF Process, ProcessStates
<1>5. DOMAIN procs = 1 .. Len(procs) /\ Len(procs) \in Nat BY <1>1
<1>6. procs' \in [1 .. Len(procs) -> Process] BY <1>2, <1>3, <1>4, <1>5
<1>7. procs' \in Seq(Process) /\ Len(procs') = Len(procs) BY <1>5, <1>6
<1>8. \A p \in DOMAIN procs : [procs[p] EXCEPT !.st = "dead"].st = "dead"
  BY <1>3 DEF Process
<1> QED BY <1>2, <1>5, <1>6, <1>7, <1>8

(* A pipe that gets another contents is still a sequence of messages.        *)
LEMMA PipeTyped ==
  ASSUME NEW S, NEW N, NEW pipe \in [N -> Seq(S)], NEW n, NEW s \in Seq(S)
  PROVE  [pipe EXCEPT ![n] = s] \in [N -> Seq(S)]
OBVIOUS

-----------------------------------------------------------------------------
(* Types, globals and handles.                                               *)

LEMMA InitIInv == Init => IInv
<1> SUFFICES ASSUME Init PROVE IInv OBVIOUS
<1> USE BoundsAssumption DEF Init, Number, Nil
<1>1. TypeOK
  <2>1. procs \in Seq(Process) BY DEF Process
  <2>2. pipe1 \in [Number -> Seq(1 .. MaxProcesses)]
        /\ pipe2 \in [Number -> Seq(1 .. MaxProcesses)] OBVIOUS
  <2>3. step \in Steps BY DEF Steps
  <2> QED BY <2>1, <2>2, <2>3 DEF TypeOK, Process
<1>2. OneHandler BY DEF OneHandler
<1>3. NumbersGiven BY DEF NumbersGiven
<1>4. GlobalsSet BY DEF GlobalsSet
<1>5. ExchangeUnderWay BY DEF ExchangeUnderWay
<1> QED BY <1>1, <1>2, <1>3, <1>4, <1>5 DEF IInv

(* Steps of the kernel that leave the processes alone.                       *)
LEMMA KernelKeepsIInv ==
  ASSUME IInv,
         StartKernel \/ Request \/ IncrementThenLoadCounter \/ RemoveFormerFile
           \/ CreateFile \/ FetchPipes \/ InitEvaluate \/ InitSIGINTHandler
  PROVE  IInv'
<1> USE BoundsAssumption
    DEF IInv, TypeOK, OneHandler, NumbersGiven, GlobalsSet, ExchangeUnderWay,
        Number, Nil, Steps, Talks, Current, pipeVars
<1>1. CASE StartKernel
  <2>1. /\ session' \in 0 .. MaxSessions /\ session' >= 1
        /\ kernelID' \in Number \cup {Nil} /\ step' = "idle" /\ handlers' = 0
        /\ UNCHANGED <<counter, files, pipe1, pipe2, procs, taken>>
        /\ up' = TRUE /\ ready' = FALSE
    BY SMTT(30), <1>1 DEF StartKernel
  <2> QED BY <2>1
<1>2. CASE Request BY <1>2 DEF Request
<1>3. CASE IncrementThenLoadCounter
  <2>1. counter' \in Number /\ counter' # Nil BY <1>3 DEF IncrementThenLoadCounter
  <2>2. step' \in {"remove1", "create1"} BY <1>3 DEF IncrementThenLoadCounter
  <2>3. step \notin {"exchange", "exchanging", "cell", "communicator", "concurrency", "handler"}
    BY <1>3 DEF IncrementThenLoadCounter
  <2> QED BY <1>3, <2>1, <2>2, <2>3 DEF IncrementThenLoadCounter
<1>4. CASE RemoveFormerFile BY <1>4 DEF RemoveFormerFile, Go
<1>5. CASE CreateFile
  <2>1. counter \in Number BY <1>5 DEF CreateFile, Go
  <2>4. <<1, counter>> \in {1, 2} \X Number /\ <<2, counter>> \in {1, 2} \X Number
    BY <2>1
  <2>5. files' \subseteq {1, 2} \X Number BY <1>5, <2>4 DEF CreateFile
  <2>6. <<>> \in Seq(1 .. MaxProcesses) OBVIOUS
  <2>2. /\ pipe1' \in [Number -> Seq(1 .. MaxProcesses)]
        /\ pipe2' \in [Number -> Seq(1 .. MaxProcesses)]
    <3>1. /\ pipe1 \in [Number -> Seq(1 .. MaxProcesses)]
          /\ pipe2 \in [Number -> Seq(1 .. MaxProcesses)]
      OBVIOUS
    <3>2. /\ pipe1' = pipe1 \/ pipe1' = [pipe1 EXCEPT ![counter] = <<>>]
          /\ pipe2' = pipe2 \/ pipe2' = [pipe2 EXCEPT ![counter] = <<>>]
      BY <1>5 DEF CreateFile
    <3> HIDE DEF Number, IInv
    <3> QED BY <2>6, <3>1, <3>2, PipeTyped
  <2>3. step \in {"create1", "create2"} /\ step' \in {"create2", "fetch"}
    BY <1>5 DEF CreateFile, Go
  <2> QED BY <1>5, <2>1, <2>2, <2>3, <2>5 DEF CreateFile
<1>6. CASE FetchPipes BY <1>6 DEF FetchPipes, Go
<1>7. CASE InitEvaluate BY <1>7 DEF InitEvaluate, Go
<1>8. CASE InitSIGINTHandler BY SMTT(30), <1>8 DEF InitSIGINTHandler, Go
<1> QED BY <1>1, <1>2, <1>3, <1>4, <1>5, <1>6, <1>7, <1>8

(* A new process comes last, and is stopped.                                 *)
LEMMA Launched ==
  ASSUME TypeOK, up, session >= 1,
         procs' = Append(procs, [session |-> session, st |-> "stopped", id |-> Nil, loaded |-> Nil])
  PROVE  /\ procs' \in Seq(Process) /\ Len(procs') = Len(procs) + 1
         /\ procs'[Len(procs')].session = session
         /\ \A q \in DOMAIN procs' :
              (q \in DOMAIN procs /\ procs'[q] = procs[q]) \/ procs'[q].st = "stopped"
<1> DEFINE new == [session |-> session, st |-> "stopped", id |-> Nil, loaded |-> Nil]
<1>1. procs \in Seq(Process) BY DEF TypeOK, Process
<1>2. new \in Process BY BoundsAssumption DEF TypeOK, Process, ProcessStates
<1>3. new.st = "stopped" /\ new.session = session OBVIOUS
<1> HIDE DEF new
<1>4. procs' = Append(procs, new) BY DEF new
<1> QED BY <1>1, <1>2, <1>3, <1>4

(* A step of a process that does not open pipes: it does not begin to talk,  *)
(* and in a cell the process of the kernel goes on to talk.                  *)
LEMMA TalkKeepsIInv ==
  ASSUME IInv, TypeOK', NEW p \in DOMAIN procs,
         NEW s \in Talking \cup {"dead", "stopped"}, To(p, s),
         s \in Talking => Talks(p),
         p = Current /\ up' /\ step' = "exchanging" => s = "dead",
         p = Current /\ up' /\ step' = "cell" => s \in Talking,
         up' => up, step' = step \/ step' = "idle",
         UNCHANGED <<counter, session, ready, handlers, kernelID>>
  PROVE  IInv'
<1> USE DEF IInv
<1>1. /\ procs \in Seq(Process) /\ Len(procs) \in Nat /\ DOMAIN procs = 1 .. Len(procs)
      /\ step \in Steps /\ step' \in Steps
  BY DEF TypeOK, Process
<1>2. /\ procs' \in Seq(Process) /\ Len(procs') = Len(procs) /\ DOMAIN procs' = DOMAIN procs
      /\ procs'[p].st = s /\ procs'[p].session = procs[p].session
      /\ procs'[p].id = procs[p].id
      /\ \A q \in DOMAIN procs : q # p => procs'[q] = procs[q]
  BY Moved DEF ProcessStates, Talking
<1>3. NumbersGiven' BY <1>1, <1>2 DEF NumbersGiven, Talks, Talking
<1>4. GlobalsSet' BY <1>1, <1>2 DEF GlobalsSet, Current
<1>5. ExchangeUnderWay'
  <2>1. CASE p = Current
    BY <1>2, <2>1 DEF ExchangeUnderWay, Current, Talks, Talking
  <2>2. CASE p # Current
    <3>1. up' /\ step' \in {"exchanging", "cell"} => Current \in DOMAIN procs /\ up /\ step' = step
      BY <1>1, <1>2 DEF GlobalsSet, Current
    <3> QED BY <1>2, <2>2, <3>1 DEF ExchangeUnderWay, Current, Talks
  <2> QED BY <2>1, <2>2
<1> QED BY <1>3, <1>4, <1>5 DEF OneHandler

(* Steps of a process that loads the counter or opens pipes.                 *)
LEMMA OpeningKeepsIInv ==
  ASSUME IInv, NEW p \in DOMAIN procs, LoadCounter(p) \/ OpenFiles(p)
  PROVE  IInv'
<1> USE DEF IInv
<1>0. /\ procs \in Seq(Process) /\ Len(procs) \in Nat /\ DOMAIN procs = 1 .. Len(procs)
      /\ procs[p] \in Process
      /\ counter \in Number /\ counter # Nil
  <2>1. procs \in Seq(Process) /\ counter \in Number \cup {Nil} BY DEF TypeOK, Process
  <2>2. procs # <<>> BY <2>1
  <2> QED BY <2>1, <2>2 DEF NumbersGiven
<1>1. CASE LoadCounter(p)
  <2> DEFINE r == [procs[p] EXCEPT !.st = "open", !.id = Nil, !.loaded = counter]
  <2>1. /\ procs[p].st = "load"
        /\ procs' = [procs EXCEPT ![p] = r]
        /\ UNCHANGED <<pipeVars, kernelVars, taken>>
    BY <1>1 DEF LoadCounter
  <2>2. r \in Process /\ r.st = "open" /\ r.loaded = counter /\ r.session = procs[p].session
    BY <1>0 DEF Process, ProcessStates
  <2> HIDE DEF r
  <2>3. /\ procs' \in Seq(Process) /\ Len(procs') = Len(procs) /\ DOMAIN procs' = DOMAIN procs
        /\ procs'[p] = r /\ \A q \in DOMAIN procs : q # p => procs'[q] = procs[q]
    BY <1>0, <2>1, <2>2
  <2>4. TypeOK' BY <2>1, <2>3 DEF TypeOK, Process, pipeVars, kernelVars
  <2>5. NumbersGiven'
    BY <1>0, <2>1, <2>2, <2>3 DEF NumbersGiven, pipeVars, kernelVars, Talking
  <2>6. GlobalsSet' BY <1>0, <2>1, <2>2, <2>3 DEF GlobalsSet, Current, pipeVars, kernelVars
  <2>7. ExchangeUnderWay'
    <3>1. CASE p = Current
      BY <2>1, <2>2, <2>3, <3>1
      DEF ExchangeUnderWay, Current, Talks, Talking, pipeVars, kernelVars
    <3>2. CASE p # Current
      <4>1. up /\ step \in {"exchanging", "cell"} => Current \in DOMAIN procs
        BY <1>0 DEF GlobalsSet, Current
      <4> QED BY <2>1, <2>3, <3>2, <4>1
              DEF ExchangeUnderWay, Current, Talks, pipeVars, kernelVars
    <3> QED BY <3>1, <3>2
  <2> QED BY <2>1, <2>4, <2>5, <2>6, <2>7 DEF OneHandler, kernelVars
<1>2. CASE OpenFiles(p)
  <2> DEFINE n == procs[p].loaded
  <2>1. /\ procs[p].st = "open" /\ files' = files \cup {<<1, n>>}
        /\ UNCHANGED <<counter, pipe1, pipe2, kernelVars, taken>>
    BY <1>2 DEF OpenFiles
  <2>2. n \in Number /\ n # Nil BY <1>0, <2>1 DEF NumbersGiven, Process
  <2>3. files' \subseteq {1, 2} \X Number BY <2>1, <2>2 DEF TypeOK
  <2>4. CASE procs' = [procs EXCEPT ![p].st = "opened", ![p].id = n]
    <3> DEFINE r == [procs[p] EXCEPT !.st = "opened", !.id = n]
    <3>1. procs' = [procs EXCEPT ![p] = r] BY <2>4
    <3>2. r \in Process /\ r.st = "opened" /\ r.id = n /\ r.session = procs[p].session
      BY <1>0, <2>2 DEF Process, ProcessStates
    <3> HIDE DEF r
    <3>3. /\ procs' \in Seq(Process) /\ Len(procs') = Len(procs) /\ DOMAIN procs' = DOMAIN procs
          /\ procs'[p] = r /\ \A q \in DOMAIN procs : q # p => procs'[q] = procs[q]
      BY <1>0, <3>1, <3>2
    <3>4. TypeOK' BY <2>1, <2>3, <3>3 DEF TypeOK, Process, kernelVars
    <3>5. NumbersGiven'
      BY <1>0, <2>1, <2>2, <3>2, <3>3 DEF NumbersGiven, kernelVars, Talking
    <3>6. GlobalsSet' BY <1>0, <2>1, <3>2, <3>3 DEF GlobalsSet, Current, kernelVars
    <3>7. ExchangeUnderWay'
      <4>1. CASE p = Current
        BY <2>1, <3>2, <3>3, <4>1
        DEF ExchangeUnderWay, Current, Talks, Talking, kernelVars
      <4>2. CASE p # Current
        <5>1. up /\ step \in {"exchanging", "cell"} => Current \in DOMAIN procs
          BY <1>0 DEF GlobalsSet, Current
        <5> QED BY <2>1, <3>3, <4>2, <5>1
                DEF ExchangeUnderWay, Current, Talks, kernelVars
      <4> QED BY <4>1, <4>2
    <3> QED BY <2>1, <3>4, <3>5, <3>6, <3>7 DEF OneHandler, kernelVars
  <2>5. CASE To(p, "dead")
    <3>1. procs' \in Seq(Process) BY <2>5, Moved DEF ProcessStates
    <3>2. TypeOK' BY <2>1, <2>3, <3>1 DEF TypeOK, Process, kernelVars
    <3>3. p = Current /\ up' /\ step' = "cell" => "dead" \in Talking
      BY <2>1 DEF ExchangeUnderWay, Talks, Talking, kernelVars
    <3> QED BY <2>1, <2>5, <3>2, <3>3, TalkKeepsIInv DEF kernelVars, Talking, TypeOK
  <2> QED BY <1>2, <2>4, <2>5 DEF OpenFiles
<1> QED BY <1>1, <1>2

(* Steps of a process in a cell.                                             *)
LEMMA CellKeepsIInv ==
  ASSUME IInv, NEW p \in DOMAIN procs,
         \/ OrphanEnds(p) \/ EndCell(p) \/ ProgramDies(p)
         \/ BeginSend(p) \/ Write(p) \/ BeginRecv(p) \/ Read(p)
  PROVE  IInv'
<1> USE DEF IInv
<1>0. /\ procs \in Seq(Process) /\ procs[p] \in Process /\ p \in 1 .. MaxProcesses
      /\ p = Current /\ up /\ step \in {"exchanging", "cell"} => Owned(p)
      /\ p = Current /\ up /\ step = "exchanging" => ~Talks(p)
      /\ p = Current /\ up /\ step = "cell" => procs[p].id = counter
  <2>1. procs \in Seq(Process) /\ Len(procs) \in Nat /\ DOMAIN procs = 1 .. Len(procs)
    BY DEF TypeOK, Process
  <2>2. procs[p] \in Process /\ p \in 1 .. MaxProcesses
    BY <2>1, BoundsAssumption DEF NumbersGiven
  <2>3. p = Current /\ up /\ step \in {"exchanging", "cell"} => Owned(p)
    BY DEF GlobalsSet, Owned
  <2> QED BY <2>1, <2>2, <2>3 DEF ExchangeUnderWay, Talks, Talking
<1>1. ASSUME NEW s \in Talking \cup {"dead", "stopped"}, To(p, s),
             UNCHANGED <<pipeVars, kernelVars, taken>>,
             s \in Talking => Talks(p),
             p = Current /\ up /\ step = "exchanging" => s = "dead",
             p = Current /\ up /\ step = "cell" => s \in Talking
      PROVE  IInv'
  <2>1. procs' \in Seq(Process) BY <1>1, Moved DEF ProcessStates, Talking
  <2>2. TypeOK' BY <1>1, <2>1 DEF TypeOK, Process, pipeVars, kernelVars
  <2> QED BY <1>0, <1>1, <2>2, TalkKeepsIInv DEF pipeVars, kernelVars
<1>2. CASE OrphanEnds(p)
  <2>1. ~Owned(p) /\ To(p, "dead") /\ UNCHANGED <<pipeVars, kernelVars, taken>>
    BY <1>2 DEF OrphanEnds
  <2>2. "dead" \notin Talking BY DEF Talking
  <2>3. ~(p = Current /\ up /\ step = "cell") BY <1>0, <2>1
  <2> QED BY <1>1, <2>1, <2>2, <2>3
<1>3. CASE EndCell(p)
  <2>1. /\ up /\ step = "cell" /\ step' = "idle" /\ To(p, "stopped")
        /\ UNCHANGED <<pipeVars, session, up, ready, handlers, kernelID, taken>>
    BY <1>3 DEF EndCell, Go
  <2>2. procs' \in Seq(Process) BY <2>1, Moved DEF ProcessStates
  <2>3. TypeOK' BY <2>1, <2>2 DEF TypeOK, Process, pipeVars, Steps
  <2> QED BY <1>0, <2>1, <2>3, TalkKeepsIInv DEF pipeVars, Talking
<1>4. CASE ProgramDies(p)
  <2>1. /\ up' = FALSE /\ To(p, "dead")
        /\ UNCHANGED <<pipeVars, session, step, ready, handlers, kernelID, taken>>
    BY <1>4 DEF ProgramDies
  <2>2. procs' \in Seq(Process) BY <2>1, Moved DEF ProcessStates
  <2>3. TypeOK' BY <2>1, <2>2 DEF TypeOK, Process, pipeVars
  <2> QED BY <2>1, <2>3, TalkKeepsIInv DEF pipeVars, Talking
<1>5. CASE BeginSend(p)
  BY <1>0, <1>1, <1>5 DEF BeginSend, Validated, Talks, Talking
<1>6. CASE BeginRecv(p)
  BY <1>0, <1>1, <1>6 DEF BeginRecv, Validated, Talks, Talking
<1>7. CASE Write(p)
  <2> DEFINE n == procs[p].id
  <2>1. /\ procs[p].st = "write" /\ To(p, "poll")
        /\ pipe1' = [pipe1 EXCEPT ![n] = Append(@, p)]
        /\ UNCHANGED <<counter, files, pipe2, kernelVars, taken>>
    BY <1>7 DEF Write
  <2>2. n \in Number BY <1>0, <2>1 DEF NumbersGiven, Process, Talking
  <2>3. pipe1 \in [Number -> Seq(1 .. MaxProcesses)] BY DEF TypeOK
  <2>4. Append(pipe1[n], p) \in Seq(1 .. MaxProcesses) BY <1>0, <2>2, <2>3
  <2>5. pipe1' \in [Number -> Seq(1 .. MaxProcesses)] BY <2>1, <2>3, <2>4, PipeTyped
  <2>6. procs' \in Seq(Process) BY <2>1, Moved DEF ProcessStates
  <2>7. TypeOK' BY <2>1, <2>5, <2>6 DEF TypeOK, Process, kernelVars
  <2> QED BY <1>0, <2>1, <2>7, TalkKeepsIInv DEF kernelVars, Talks, Talking
<1>8. CASE Read(p)
  <2> DEFINE n == procs[p].id
  <2>1. procs[p].st = "read" BY <1>8 DEF Read
  <2>2. n \in Number BY <1>0, <2>1 DEF NumbersGiven, Process, Talking
  <2>3. CASE pipe2[n] = <<>>
    BY <1>0, <1>1, <1>8, <2>1, <2>3 DEF Read, Talks, Talking, pipeVars
  <2>4. CASE pipe2[n] # <<>>
    <3>1. /\ To(p, "run") /\ pipe2' = [pipe2 EXCEPT ![n] = Tail(@)]
          /\ taken' = taken \cup {<<p, Head(pipe2[n])>>}
          /\ UNCHANGED <<counter, files, pipe1, kernelVars>>
      BY <1>8, <2>4 DEF Read
    <3>2. pipe2 \in [Number -> Seq(1 .. MaxProcesses)] BY DEF TypeOK
    <3>3. Tail(pipe2[n]) \in Seq(1 .. MaxProcesses) /\ Head(pipe2[n]) \in 1 .. MaxProcesses
      BY <2>2, <2>4, <3>2, HeadTailProperties
    <3>4. pipe2' \in [Number -> Seq(1 .. MaxProcesses)] BY <3>1, <3>2, <3>3, PipeTyped
    <3>5. procs' \in Seq(Process) BY <3>1, Moved DEF ProcessStates
    <3>7. taken' \subseteq (1 .. MaxProcesses) \X (1 .. MaxProcesses)
      BY <1>0, <3>1, <3>3 DEF TypeOK
    <3>6. TypeOK' BY <3>1, <3>4, <3>5, <3>7 DEF TypeOK, Process, kernelVars
    <3> QED BY <1>0, <2>1, <3>1, <3>6, TalkKeepsIInv DEF kernelVars, Talks, Talking
  <2> QED BY <2>3, <2>4
<1> QED BY <1>2, <1>3, <1>4, <1>5, <1>6, <1>7, <1>8

(* Steps that launch, kill or move a process, or pass a message on.          *)
LEMMA ProcessesKeepIInv ==
  ASSUME IInv,
         \/ InitReplProcess \/ KillKernel \/ BeginExchange \/ EndExchange \/ Serve
         \/ \E p \in DOMAIN procs : ProcessStep(p)
  PROVE  IInv'
<1> USE DEF IInv
<1>0. /\ procs \in Seq(Process) /\ Len(procs) \in Nat /\ DOMAIN procs = 1 .. Len(procs)
      /\ counter \in Number \cup {Nil}
  BY DEF TypeOK, Process
<1>1. CASE InitReplProcess
  <2> USE <1>1 DEF InitReplProcess, Go
  <2>1. CASE UNCHANGED procs
    BY <2>1 DEF TypeOK, OneHandler, NumbersGiven, GlobalsSet, ExchangeUnderWay, Talks,
                Current, pipeVars, Steps
  <2>2. CASE ~UNCHANGED procs
    <3>1. /\ up /\ session >= 1 /\ step = "launch" /\ step' = "communicator" /\ Len(procs) < MaxProcesses
          /\ procs' = Append(procs, [session |-> session, st |-> "stopped", id |-> Nil, loaded |-> Nil])
      BY <2>2 DEF NumbersGiven
    <3>2. /\ procs' \in Seq(Process) /\ Len(procs') = Len(procs) + 1
          /\ procs'[Len(procs')].session = session
          /\ \A q \in DOMAIN procs' :
               (q \in DOMAIN procs /\ procs'[q] = procs[q]) \/ procs'[q].st = "stopped"
      BY <3>1, Launched
    <3>3. TypeOK' BY <3>1, <3>2 DEF TypeOK, Process, pipeVars, Steps
    <3>4. NumbersGiven'
      BY <1>0, <3>1, <3>2, BoundsAssumption DEF NumbersGiven, pipeVars, Talking
    <3>5. GlobalsSet'
      BY <1>0, <3>1, <3>2 DEF GlobalsSet, Current
    <3> QED BY <3>1, <3>3, <3>4, <3>5 DEF OneHandler, ExchangeUnderWay
  <2> QED BY <2>1, <2>2
<1>2. CASE KillKernel
  <2>1. /\ procs' \in Seq(Process) /\ Len(procs') = Len(procs)
        /\ DOMAIN procs' = DOMAIN procs
        /\ \A q \in DOMAIN procs : procs'[q] = procs[q] \/ procs'[q].st = "dead"
        /\ \A q \in DOMAIN procs : procs'[q].session = procs[q].session
    <3>1. \A q \in DOMAIN procs : procs[q] \in Process BY <1>0
    <3> QED BY <1>2, <3>1, Killed DEF KillKernel, Process
  <2>2. up' = FALSE /\ UNCHANGED <<pipeVars, session, step, ready, handlers, kernelID, taken>>
    BY <1>2 DEF KillKernel
  <2>3. TypeOK' BY <2>1, <2>2 DEF TypeOK, Process, pipeVars
  <2>4. NumbersGiven' BY <1>0, <2>1, <2>2 DEF NumbersGiven, pipeVars, Talking
  <2>5. GlobalsSet' BY <1>0, <2>1, <2>2 DEF GlobalsSet, Current, pipeVars
  <2> QED BY <2>2, <2>3, <2>4, <2>5 DEF OneHandler, ExchangeUnderWay
<1>3. CASE BeginExchange
  <2>1. /\ step = "exchange" /\ step' = "exchanging" /\ ready /\ To(Current, "load")
        /\ UNCHANGED <<pipeVars, session, up, ready, handlers, kernelID, taken>>
    BY <1>3 DEF BeginExchange, Go, GlobalsSet
  <2>2. Current \in DOMAIN procs BY <1>0, <2>1 DEF GlobalsSet, Current
  <2>3. /\ procs' \in Seq(Process) /\ Len(procs') = Len(procs) /\ DOMAIN procs' = DOMAIN procs
        /\ procs'[Current].st = "load" /\ procs'[Current].session = procs[Current].session
        /\ \A q \in DOMAIN procs : q # Current => procs'[q] = procs[q]
    BY <2>1, <2>2, Moved DEF ProcessStates
  <2>4. TypeOK' BY <2>1, <2>3 DEF TypeOK, Process, pipeVars, Steps
  <2>5. NumbersGiven' BY <1>0, <2>1, <2>2, <2>3 DEF NumbersGiven, pipeVars, Talking
  <2>6. GlobalsSet' BY <1>0, <2>1, <2>2, <2>3 DEF GlobalsSet, Current, pipeVars
  <2>7. ExchangeUnderWay' BY <2>1, <2>3 DEF ExchangeUnderWay, Current
  <2> QED BY <2>1, <2>4, <2>5, <2>6, <2>7 DEF OneHandler
<1>4. CASE EndExchange
  <2>0. /\ up /\ step = "exchanging" /\ step' \in {"cell", "stuck"} /\ ready
        /\ UNCHANGED <<pipeVars, session, up, ready, handlers, kernelID, taken>>
    BY <1>4 DEF EndExchange, Go, GlobalsSet
  <2>1. Current \in DOMAIN procs BY <1>0, <2>0 DEF GlobalsSet, Current
  <2>2. \/ procs[Current].st = "opened" /\ step' = "cell" /\ To(Current, "run")
        \/ step' = "stuck" /\ To(Current, "stopped")
        \/ step' = "stuck" /\ UNCHANGED procs
    BY <1>4 DEF EndExchange, Go
  <2>3. CASE UNCHANGED procs /\ step' = "stuck"
    BY <2>0, <2>3 DEF TypeOK, OneHandler, NumbersGiven, GlobalsSet, ExchangeUnderWay,
                      Talks, Current, pipeVars, Steps
  <2>4. ASSUME NEW s \in {"run", "stopped"}, To(Current, s),
               s = "run" => procs[Current].st = "opened",
               s = "stopped" => step' = "stuck"
        PROVE  IInv'
    <3>1. /\ procs' \in Seq(Process) /\ Len(procs') = Len(procs) /\ DOMAIN procs' = DOMAIN procs
          /\ procs'[Current].st = s /\ procs'[Current].session = procs[Current].session
          /\ procs'[Current].id = procs[Current].id
          /\ \A q \in DOMAIN procs : q # Current => procs'[q] = procs[q]
      BY <2>1, <2>4, Moved DEF ProcessStates
    <3>2. TypeOK' BY <2>0, <3>1 DEF TypeOK, Process, pipeVars, Steps
    <3>3. NumbersGiven' BY <1>0, <2>0, <2>1, <2>4, <3>1 DEF NumbersGiven, pipeVars, Talking
    <3>4. GlobalsSet' BY <1>0, <2>0, <2>1, <3>1 DEF GlobalsSet, Current, pipeVars
    <3>5. ExchangeUnderWay'
      BY <2>0, <2>4, <3>1 DEF ExchangeUnderWay, Current, Talks, Talking, pipeVars
    <3> QED BY <2>0, <3>2, <3>3, <3>4, <3>5 DEF OneHandler
  <2> QED BY <2>2, <2>3, <2>4
<1>5. CASE Serve
  <2>1. /\ up /\ step = "cell" /\ kernelID = counter /\ pipe1[kernelID] # <<>>
        /\ pipe1' = [pipe1 EXCEPT ![kernelID] = Tail(@)]
        /\ pipe2' = [pipe2 EXCEPT ![kernelID] = Append(@, Head(pipe1[kernelID]))]
        /\ taken' = taken \cup {<<Current, Head(pipe1[kernelID])>>}
        /\ UNCHANGED <<counter, files, kernelVars, procs>>
    BY <1>5 DEF Serve
  <2>2. Current \in 1 .. MaxProcesses /\ kernelID \in Number
    BY <1>0, <2>1, BoundsAssumption DEF GlobalsSet, NumbersGiven, Current
  <2>3. /\ pipe1 \in [Number -> Seq(1 .. MaxProcesses)]
        /\ pipe2 \in [Number -> Seq(1 .. MaxProcesses)]
    BY DEF TypeOK
  <2>4. /\ Tail(pipe1[kernelID]) \in Seq(1 .. MaxProcesses)
        /\ Head(pipe1[kernelID]) \in 1 .. MaxProcesses
    BY <2>1, <2>2, <2>3, HeadTailProperties
  <2>5. Append(pipe2[kernelID], Head(pipe1[kernelID])) \in Seq(1 .. MaxProcesses)
    BY <2>2, <2>3, <2>4
  <2>6. /\ pipe1' \in [Number -> Seq(1 .. MaxProcesses)]
        /\ pipe2' \in [Number -> Seq(1 .. MaxProcesses)]
    BY <2>1, <2>3, <2>4, <2>5, PipeTyped
  <2>7. TypeOK' BY <2>1, <2>2, <2>4, <2>6 DEF TypeOK, kernelVars
  <2> QED BY <2>1, <2>7
          DEF OneHandler, NumbersGiven, GlobalsSet, ExchangeUnderWay, Talks, Current,
              kernelVars
<1>6. ASSUME NEW p \in DOMAIN procs, ProcessStep(p) PROVE IInv'
  BY <1>6, OpeningKeepsIInv, CellKeepsIInv DEF ProcessStep
<1> QED BY <1>1, <1>2, <1>3, <1>4, <1>5, <1>6

LEMMA StepIInv == IInv /\ [Next]_vars => IInv'
<1> SUFFICES ASSUME IInv, [Next]_vars PROVE IInv' OBVIOUS
<1>1. CASE UNCHANGED vars
  BY <1>1 DEF vars, IInv, TypeOK, OneHandler, NumbersGiven, GlobalsSet, ExchangeUnderWay,
              Talks, Current
<1>2. CASE Next BY <1>2, KernelKeepsIInv, ProcessesKeepIInv DEF Next, KernelStep
<1> QED BY <1>1, <1>2

(* For any number of kernels, processes and retries of initSwift: variables  *)
(* have their types, one thread handles SIGINT, and a kernel and its process *)
(* have the pipes of the counter open while a cell runs.                     *)
THEOREM SessionsAreConsistent == Spec => []SessionInv
<1>1. IInv => SessionInv
  BY DEF IInv, SessionInv, TypeOK, GlobalsSet, ExchangeUnderWay, HandlesMatch, Talks, Talking
<1> QED BY <1>1, InitIInv, StepIInv, PTL DEF Spec

-----------------------------------------------------------------------------
(* Whose messages.                                                           *)

LEMMA InitOwnInv == Init => OwnInv
BY DEF Init, OwnInv, OnlyOwnMessages, OneTalker, PipesOfOne, NumberIsFresh, Preparing

(* Nobody begins to talk.                                                    *)
NoNewTalker ==
  \A q \in DOMAIN procs' : Talks(q)' =>
    q \in DOMAIN procs /\ Talks(q) /\ procs'[q].id = procs[q].id

LEMMA MovedQuietly ==
  ASSUME TypeOK, NEW p \in DOMAIN procs, NEW s \in ProcessStates, To(p, s),
         s \in Talking => Talks(p)
  PROVE  NoNewTalker
BY Moved DEF NoNewTalker, Talks

(* Steps in which nobody begins to talk, no message is moved and no number   *)
(* is taken.                                                                 *)
LEMMA QuietKeepsOwnInv ==
  ASSUME OwnInv, NoNewTalker, UNCHANGED <<counter, pipe1, pipe2, taken>>,
         up' /\ step' \in Preparing => up /\ step \in Preparing,
         up' /\ step' \in {"create2", "fetch", "exchange", "exchanging"}
           => up /\ step \in {"create2", "fetch", "exchange", "exchanging"},
         up' /\ step' \in {"fetch", "exchange", "exchanging"}
           => up /\ step \in {"fetch", "exchange", "exchanging"}
  PROVE  OwnInv'
<1> USE DEF OwnInv, NoNewTalker
<1>1. OnlyOwnMessages' BY DEF OnlyOwnMessages
<1>2. OneTalker' BY DEF OneTalker
<1>3. PipesOfOne' BY DEF PipesOfOne
<1>4. NumberIsFresh' BY DEF NumberIsFresh
<1> QED BY <1>1, <1>2, <1>3, <1>4

LEMMA KernelKeepsOwnInv ==
  ASSUME IInv, OwnInv,
         \/ StartKernel \/ KillKernel \/ Request \/ RemoveFormerFile \/ FetchPipes
         \/ InitReplProcess \/ InitEvaluate \/ InitSIGINTHandler \/ BeginExchange
  PROVE  OwnInv'
<1> USE DEF IInv
<1>1. ASSUME UNCHANGED procs PROVE NoNewTalker
  BY <1>1 DEF NoNewTalker, Talks
<1>2. CASE StartKernel
  BY <1>1, <1>2, QuietKeepsOwnInv DEF StartKernel, pipeVars, Preparing
<1>3. CASE KillKernel
  <2>1. NoNewTalker BY <1>3, Killed DEF NoNewTalker, Talks, Talking
  <2> QED BY <1>3, <2>1, QuietKeepsOwnInv DEF KillKernel, pipeVars
<1>4. CASE Request
  BY <1>1, <1>4, QuietKeepsOwnInv DEF Request, pipeVars, Preparing
<1>5. CASE RemoveFormerFile
  BY <1>1, <1>5, QuietKeepsOwnInv DEF RemoveFormerFile, Go, Preparing
<1>6. CASE FetchPipes
  BY <1>1, <1>6, QuietKeepsOwnInv DEF FetchPipes, Go, pipeVars, Preparing
<1>7. CASE InitReplProcess
  <2>1. NoNewTalker
    <3>1. CASE UNCHANGED procs BY <1>1, <3>1
    <3>2. CASE ~UNCHANGED procs
      BY <1>7, <3>2, Launched DEF InitReplProcess, Go, NumbersGiven, NoNewTalker, Talks,
         Talking
    <3> QED BY <3>1, <3>2
  <2>2. /\ UNCHANGED <<pipeVars, up, taken>> /\ step = "launch"
        /\ step' \in {"communicator", "idle"}
    BY <1>7 DEF InitReplProcess, Go
  <2> QED BY <2>1, <2>2, QuietKeepsOwnInv DEF pipeVars, Preparing
<1>8. CASE InitEvaluate
  BY <1>1, <1>8, QuietKeepsOwnInv DEF InitEvaluate, Go, pipeVars, Preparing
<1>9. CASE InitSIGINTHandler
  BY <1>1, <1>9, QuietKeepsOwnInv DEF InitSIGINTHandler, Go, pipeVars, Preparing
<1>10. CASE BeginExchange
  <2>1. /\ step = "exchange" /\ step' = "exchanging" /\ To(Current, "load")
        /\ UNCHANGED <<pipeVars, session, up, ready, handlers, kernelID, taken>>
    BY <1>10 DEF BeginExchange, Go
  <2>2. Current \in DOMAIN procs BY <2>1 DEF TypeOK, GlobalsSet, Current
  <2>3. NoNewTalker BY <2>1, <2>2, MovedQuietly DEF ProcessStates, Talking
  <2> QED BY <2>1, <2>3, QuietKeepsOwnInv DEF pipeVars, Preparing
<1> QED BY <1>2, <1>3, <1>4, <1>5, <1>6, <1>7, <1>8, <1>9, <1>10

(* A kernel takes a number: nobody talks under it, for those who talk have   *)
(* opened the pipes of a lower one, and its pipes are empty when they are    *)
(* created.                                                                  *)
LEMMA TakingANumberKeepsOwnInv ==
  ASSUME IInv, OwnInv, IncrementThenLoadCounter \/ CreateFile
  PROVE  OwnInv'
<1> USE DEF IInv
<1>1. /\ UNCHANGED <<procs, taken, up>> /\ procs \in Seq(Process)
      /\ \A p \in DOMAIN procs : procs[p].id \in Number \cup {Nil}
  <2>1. UNCHANGED <<procs, taken, up>> BY DEF IncrementThenLoadCounter, CreateFile, Go
  <2>2. procs \in Seq(Process) BY DEF TypeOK, Process
  <2>3. \A p \in DOMAIN procs : procs[p] \in Process BY <2>2
  <2>4. \A p \in DOMAIN procs : procs[p].id \in Number \cup {Nil} BY <2>3 DEF Process
  <2> QED BY <2>1, <2>2, <2>4
<1>2. OnlyOwnMessages' /\ OneTalker'
  BY <1>1 DEF OwnInv, OnlyOwnMessages, OneTalker, Talks
<1>3. CASE IncrementThenLoadCounter
  <2>1. /\ counter' = counter + 1 /\ step' \in {"remove1", "create1"}
        /\ UNCHANGED <<pipe1, pipe2>> /\ counter \in Number \cup {Nil}
    BY <1>3 DEF IncrementThenLoadCounter, TypeOK
  <2>2. PipesOfOne' BY <1>1, <2>1 DEF OwnInv, PipesOfOne, Talks
  <2>3. NumberIsFresh'
    BY <1>1, <2>1, BoundsAssumption DEF OwnInv, NumberIsFresh, Talks, Number, Nil
  <2> QED BY <1>2, <2>2, <2>3 DEF OwnInv
<1>4. CASE CreateFile
  <2>1. /\ up /\ step \in {"create1", "create2"} /\ counter \in Number
        /\ pipe1 \in [Number -> Seq(1 .. MaxProcesses)]
        /\ pipe2 \in [Number -> Seq(1 .. MaxProcesses)]
        /\ UNCHANGED counter
        /\ \/ /\ step = "create1" /\ step' = "create2"
              /\ pipe1' = [pipe1 EXCEPT ![counter] = <<>>] /\ UNCHANGED pipe2
           \/ /\ step = "create2" /\ step' = "fetch"
              /\ pipe2' = [pipe2 EXCEPT ![counter] = <<>>] /\ UNCHANGED pipe1
    BY <1>4 DEF CreateFile, Go, TypeOK, NumbersGiven
  <2>2. \A p \in DOMAIN procs : Talks(p) => procs[p].id # counter
    BY <2>1 DEF OwnInv, NumberIsFresh, Preparing
  <2>3. \A n \in Number \ {counter} : pipe1'[n] = pipe1[n] /\ pipe2'[n] = pipe2[n]
    BY <2>1
  <2>4. \A p \in DOMAIN procs : Talks(p) => procs[p].id \in Number
    BY <1>1 DEF Talks, NumbersGiven
  <2>5. PipesOfOne'
    <3>1. \A p \in DOMAIN procs : Talks(p) =>
            /\ pipe1'[procs[p].id] = pipe1[procs[p].id]
            /\ pipe2'[procs[p].id] = pipe2[procs[p].id]
      BY <2>2, <2>3, <2>4
    <3> QED BY SMTT(30), <1>1, <3>1 DEF OwnInv, PipesOfOne, Talks
  <2>6. NumberIsFresh' BY <1>1, <2>1, <2>2 DEF OwnInv, NumberIsFresh, Talks, Preparing
  <2> QED BY <1>2, <2>5, <2>6 DEF OwnInv
<1> QED BY <1>3, <1>4

(* The exchange ends: only the process of the kernel begins to talk, under a *)
(* number that nobody else talks under and with empty pipes.                 *)
LEMMA EndExchangeKeepsOwnInv ==
  ASSUME IInv, OwnInv, EndExchange
  PROVE  OwnInv'
<1> USE DEF IInv
<1>1. /\ up /\ step = "exchanging" /\ step' \in {"cell", "stuck"} /\ ready
      /\ UNCHANGED <<pipeVars, session, up, ready, handlers, kernelID, taken>>
  BY DEF EndExchange, Go, GlobalsSet
<1>2. Current \in DOMAIN procs BY <1>1 DEF TypeOK, GlobalsSet, Current
<1>3. \/ procs[Current].st = "opened" /\ step' = "cell" /\ To(Current, "run")
      \/ step' = "stuck" /\ To(Current, "stopped")
      \/ step' = "stuck" /\ UNCHANGED procs
  BY DEF EndExchange, Go
<1>4. CASE step' = "stuck"
  <2>1. NoNewTalker
    <3>1. CASE To(Current, "stopped") BY <1>2, <3>1, MovedQuietly DEF ProcessStates, Talking
    <3>2. CASE UNCHANGED procs BY <3>2 DEF NoNewTalker, Talks
    <3> QED BY <1>3, <1>4, <3>1, <3>2
  <2> QED BY <1>1, <1>4, <2>1, QuietKeepsOwnInv DEF pipeVars, Preparing
<1>5. CASE step' = "cell"
  <2>1. To(Current, "run") /\ procs[Current].st = "opened" /\ procs[Current].id = counter
    BY <1>1, <1>3, <1>5 DEF ExchangeUnderWay
  <2>2. /\ DOMAIN procs' = DOMAIN procs /\ procs'[Current].id = counter
        /\ \A q \in DOMAIN procs : q # Current => procs'[q] = procs[q]
    BY <1>2, <2>1, Moved DEF ProcessStates
  <2>3. /\ pipe1[counter] = <<>> /\ pipe2[counter] = <<>>
        /\ \A q \in DOMAIN procs : Talks(q) => procs[q].id # counter /\ procs[q].id <= counter
    BY <1>1 DEF OwnInv, NumberIsFresh, Preparing
  <2>4. UNCHANGED <<counter, pipe1, pipe2, taken>> BY <1>1 DEF pipeVars
  <2>5. OnlyOwnMessages' BY <2>4 DEF OwnInv, OnlyOwnMessages
  <2>6. OneTalker' BY <2>2, <2>3 DEF OwnInv, OneTalker, Talks
  <2>7. PipesOfOne' BY <2>2, <2>3, <2>4 DEF OwnInv, PipesOfOne, Talks
  <2>8. counter <= counter BY <1>2 DEF TypeOK, Number, Nil
  <2>9. NumberIsFresh'
    BY <1>5, <2>2, <2>3, <2>4, <2>8 DEF NumberIsFresh, Talks, Preparing
  <2> QED BY <2>5, <2>6, <2>7, <2>9 DEF OwnInv
<1> QED BY <1>1, <1>4, <1>5

(* Messages are moved within the pipes of one number, by the only process    *)
(* that talks under it or by the kernel that launched this process.          *)
LEMMA MovingMessagesKeepsOwnInv ==
  ASSUME IInv, OwnInv, NEW p \in DOMAIN procs, Talks(p), NoNewTalker,
         NEW s1 \in Seq({p}), NEW s2 \in Seq({p}),
         pipe1' = [pipe1 EXCEPT ![procs[p].id] = s1],
         pipe2' = [pipe2 EXCEPT ![procs[p].id] = s2],
         taken' = taken \/ taken' = taken \cup {<<p, p>>},
         up /\ step \in Preparing => procs[p].id # counter,
         UNCHANGED <<counter, up, step>>
  PROVE  OwnInv'
<1> DEFINE n == procs[p].id
<1>1. /\ n \in Number
      /\ pipe1 \in [Number -> Seq(1 .. MaxProcesses)]
      /\ pipe2 \in [Number -> Seq(1 .. MaxProcesses)]
      /\ \A q \in DOMAIN procs : Talks(q) => procs[q].id \in Number
  <2>1. procs \in Seq(Process) BY DEF IInv, TypeOK, Process
  <2>2. \A q \in DOMAIN procs : procs[q] \in Process BY <2>1
  <2>3. \A q \in DOMAIN procs : procs[q].id \in Number \cup {Nil} BY <2>2 DEF Process
  <2> QED BY <2>3 DEF IInv, TypeOK, NumbersGiven, Talks
<1>2. /\ pipe1'[n] = s1 /\ pipe2'[n] = s2
      /\ \A m \in Number \ {n} : pipe1'[m] = pipe1[m] /\ pipe2'[m] = pipe2[m]
  BY <1>1
<1>3. /\ \A k \in DOMAIN s1 : s1[k] = p
      /\ \A k \in DOMAIN s2 : s2[k] = p
  OBVIOUS
<1>4. OnlyOwnMessages' BY DEF OwnInv, OnlyOwnMessages
<1>5. OneTalker' BY DEF OwnInv, OneTalker, NoNewTalker
<1>6. PipesOfOne'
  <2> SUFFICES ASSUME NEW q \in DOMAIN procs', Talks(q)'
               PROVE  /\ \A k \in DOMAIN pipe1'[procs'[q].id] : pipe1'[procs'[q].id][k] = q
                      /\ \A k \in DOMAIN pipe2'[procs'[q].id] : pipe2'[procs'[q].id][k] = q
    BY DEF PipesOfOne
  <2>1. q \in DOMAIN procs /\ Talks(q) /\ procs'[q].id = procs[q].id BY DEF NoNewTalker
  <2>2. CASE procs[q].id = n
    <3>1. q = p BY <2>1, <2>2 DEF OwnInv, OneTalker
    <3> QED BY <1>2, <1>3, <2>1, <2>2, <3>1
  <2>3. CASE procs[q].id # n
    BY <1>1, <1>2, <2>1, <2>3 DEF OwnInv, PipesOfOne
  <2> QED BY <2>2, <2>3
<1>7. NumberIsFresh'
  <2>1. up /\ step \in Preparing => counter \in Number /\ n # counter
    BY DEF IInv, TypeOK, NumbersGiven, Preparing
  <2>2. up /\ step \in Preparing =>
          pipe1'[counter] = pipe1[counter] /\ pipe2'[counter] = pipe2[counter]
    BY <1>2, <2>1
  <2> QED BY <2>2 DEF OwnInv, NumberIsFresh, NoNewTalker, Preparing
<1> QED BY <1>4, <1>5, <1>6, <1>7 DEF OwnInv

(* The pipes of a process that talks hold its own messages.                  *)
LEMMA OwnPipes ==
  ASSUME IInv, OwnInv, NEW p \in DOMAIN procs, Talks(p)
  PROVE  /\ procs[p].id \in Number
         /\ pipe1[procs[p].id] \in Seq({p}) /\ pipe2[procs[p].id] \in Seq({p})
<1>1. procs \in Seq(Process) BY DEF IInv, TypeOK, Process
<1>2. procs[p].id \in Number
  <2>1. procs[p] \in Process BY <1>1
  <2>2. procs[p].id \in Number \cup {Nil} BY <2>1 DEF Process
  <2> QED BY <2>2 DEF IInv, NumbersGiven, Talks
<1>3. /\ pipe1[procs[p].id] \in Seq(1 .. MaxProcesses)
      /\ pipe2[procs[p].id] \in Seq(1 .. MaxProcesses)
  BY <1>2 DEF IInv, TypeOK
<1>4. /\ \A k \in DOMAIN pipe1[procs[p].id] : pipe1[procs[p].id][k] = p
      /\ \A k \in DOMAIN pipe2[procs[p].id] : pipe2[procs[p].id][k] = p
  BY DEF OwnInv, PipesOfOne
<1>5. ASSUME NEW t \in Seq(1 .. MaxProcesses), \A k \in DOMAIN t : t[k] = p
      PROVE  t \in Seq({p})
  <2>1. Len(t) \in Nat /\ DOMAIN t = 1 .. Len(t) /\ t \in [1 .. Len(t) -> {p}] BY <1>5
  <2> QED BY <2>1
<1> QED BY <1>2, <1>3, <1>4, <1>5

LEMMA MessagesKeepOwnInv ==
  ASSUME IInv, OwnInv, Serve \/ \E p \in DOMAIN procs : Write(p) \/ Read(p)
  PROVE  OwnInv'
<1>0. /\ pipe1 \in [Number -> Seq(1 .. MaxProcesses)]
      /\ pipe2 \in [Number -> Seq(1 .. MaxProcesses)]
  BY DEF IInv, TypeOK
<1>1. CASE Serve
  <2>1. /\ up /\ step = "cell" /\ kernelID = counter /\ pipe1[counter] # <<>>
        /\ pipe1' = [pipe1 EXCEPT ![counter] = Tail(pipe1[counter])]
        /\ pipe2' = [pipe2 EXCEPT ![counter] = Append(pipe2[counter], Head(pipe1[counter]))]
        /\ taken' = taken \cup {<<Current, Head(pipe1[counter])>>}
        /\ UNCHANGED <<counter, files, kernelVars, procs>>
    BY <1>1 DEF Serve, IInv, GlobalsSet
  <2>2. Talks(Current) /\ procs[Current].id = counter /\ Current \in DOMAIN procs
    BY <2>1 DEF IInv, TypeOK, GlobalsSet, ExchangeUnderWay, Current
  <2>3. pipe1[counter] \in Seq({Current}) /\ pipe2[counter] \in Seq({Current})
    BY <2>2, OwnPipes
  <2>4. Tail(pipe1[counter]) \in Seq({Current}) /\ Head(pipe1[counter]) = Current
    BY <2>1, <2>3, HeadTailProperties
  <2>5. Append(pipe2[counter], Head(pipe1[counter])) \in Seq({Current}) BY <2>3, <2>4
  <2>6. NoNewTalker BY <2>1 DEF NoNewTalker, Talks
  <2>7. taken' = taken \cup {<<Current, Current>>} BY <2>1, <2>4
  <2> HIDE DEF Current
  <2> QED BY <2>1, <2>2, <2>4, <2>5, <2>6, <2>7, MovingMessagesKeepsOwnInv DEF kernelVars,
             Preparing
<1>2. ASSUME NEW p \in DOMAIN procs, Write(p) \/ Read(p) PROVE OwnInv'
  <2> DEFINE n == procs[p].id
  <2>1. Talks(p) BY <1>2 DEF Write, Read, Talks, Talking
  <2>2. n \in Number /\ pipe1[n] \in Seq({p}) /\ pipe2[n] \in Seq({p}) BY <2>1, OwnPipes
  <2>3. up /\ step \in Preparing => n # counter
    BY <2>1 DEF OwnInv, NumberIsFresh
  <2>4. CASE Write(p)
    <3>1. /\ To(p, "poll") /\ pipe1' = [pipe1 EXCEPT ![n] = Append(pipe1[n], p)]
          /\ UNCHANGED <<counter, files, pipe2, kernelVars, taken>>
      BY <2>4 DEF Write
    <3>2. NoNewTalker BY <2>1, <3>1, MovedQuietly DEF IInv, ProcessStates
    <3>3. Append(pipe1[n], p) \in Seq({p}) BY <2>2
    <3>4. pipe2' = [pipe2 EXCEPT ![n] = pipe2[n]] BY <1>0, <3>1
    <3> QED BY <2>1, <2>2, <2>3, <3>1, <3>2, <3>3, <3>4,
               MovingMessagesKeepsOwnInv DEF kernelVars
  <2>5. CASE Read(p) /\ pipe2[n] # <<>>
    <3>1. /\ To(p, "run") /\ pipe2' = [pipe2 EXCEPT ![n] = Tail(pipe2[n])]
          /\ taken' = taken \cup {<<p, Head(pipe2[n])>>}
          /\ UNCHANGED <<counter, files, pipe1, kernelVars>>
      BY <2>5 DEF Read
    <3>2. NoNewTalker BY <2>1, <3>1, MovedQuietly DEF IInv, ProcessStates
    <3>3. Tail(pipe2[n]) \in Seq({p}) /\ Head(pipe2[n]) = p
      BY <2>2, <2>5, HeadTailProperties
    <3>4. pipe1' = [pipe1 EXCEPT ![n] = pipe1[n]] BY <1>0, <3>1
    <3> QED BY <2>1, <2>2, <2>3, <3>1, <3>2, <3>3, <3>4,
               MovingMessagesKeepsOwnInv DEF kernelVars
  <2>6. CASE Read(p) /\ pipe2[n] = <<>>
    <3>1. To(p, "poll") /\ UNCHANGED <<counter, files, pipe1, pipe2, kernelVars, taken>>
      BY <2>6 DEF Read
    <3>2. NoNewTalker BY <2>1, <3>1, MovedQuietly DEF IInv, ProcessStates
    <3> QED BY <3>1, <3>2, QuietKeepsOwnInv DEF kernelVars
  <2> QED BY <1>2, <2>4, <2>5, <2>6
<1> QED BY <1>1, <1>2

(* The other steps of a process.                                             *)
LEMMA ProcessKeepsOwnInv ==
  ASSUME IInv, OwnInv, NEW p \in DOMAIN procs, ProcessStep(p)
  PROVE  OwnInv'
<1>1. ASSUME NEW s \in ProcessStates, To(p, s), s \in Talking => Talks(p),
             UNCHANGED <<counter, pipe1, pipe2, taken>>,
             UNCHANGED <<up, step>> \/ step' = "idle" \/ up' = FALSE
      PROVE  OwnInv'
  <2>1. NoNewTalker BY <1>1, MovedQuietly DEF IInv
  <2> QED BY <1>1, <2>1, QuietKeepsOwnInv DEF Preparing
<1>2. procs \in Seq(Process) BY DEF IInv, TypeOK, Process
<1>3. CASE LoadCounter(p)
  <2> DEFINE r == [procs[p] EXCEPT !.st = "open", !.id = Nil, !.loaded = counter]
  <2>1. procs' = [procs EXCEPT ![p] = r] /\ UNCHANGED <<pipeVars, kernelVars, taken>>
    BY <1>3 DEF LoadCounter
  <2>2. r.st = "open"
    <3>1. procs[p] \in Process BY <1>2
    <3> QED BY <3>1 DEF Process
  <2>3. NoNewTalker BY <1>2, <2>1, <2>2 DEF NoNewTalker, Talks, Talking
  <2> QED BY <2>1, <2>3, QuietKeepsOwnInv DEF pipeVars, kernelVars
<1>4. CASE OpenFiles(p)
  <2>1. UNCHANGED <<counter, pipe1, pipe2, kernelVars, taken>> BY <1>4 DEF OpenFiles
  <2>2. CASE To(p, "dead")
    BY <1>1, <2>1, <2>2 DEF ProcessStates, Talking, kernelVars
  <2>3. CASE ~To(p, "dead")
    <3> DEFINE r == [procs[p] EXCEPT !.st = "opened", !.id = procs[p].loaded]
    <3>1. procs' = [procs EXCEPT ![p] = r] BY <1>4, <2>3 DEF OpenFiles
    <3>2. r.st = "opened"
      <4>1. procs[p] \in Process BY <1>2
      <4> QED BY <4>1 DEF Process
    <3>3. NoNewTalker BY <1>2, <3>1, <3>2 DEF NoNewTalker, Talks, Talking
    <3> QED BY <2>1, <3>3, QuietKeepsOwnInv DEF kernelVars
  <2> QED BY <2>2, <2>3
<1>5. CASE OrphanEnds(p)
  BY <1>1, <1>5 DEF OrphanEnds, ProcessStates, Talking, pipeVars, kernelVars
<1>6. CASE EndCell(p)
  BY <1>1, <1>6 DEF EndCell, Go, ProcessStates, Talking, pipeVars
<1>7. CASE ProgramDies(p)
  BY <1>1, <1>7 DEF ProgramDies, ProcessStates, Talking, pipeVars
<1>8. CASE BeginSend(p)
  BY <1>1, <1>8 DEF BeginSend, Validated, ProcessStates, Talks, Talking, pipeVars, kernelVars
<1>9. CASE BeginRecv(p)
  BY <1>1, <1>9 DEF BeginRecv, Validated, ProcessStates, Talks, Talking, pipeVars, kernelVars
<1> QED BY <1>3, <1>4, <1>5, <1>6, <1>7, <1>8, <1>9, MessagesKeepOwnInv DEF ProcessStep

LEMMA StepOwnInv == IInv /\ OwnInv /\ [Next]_vars => OwnInv'
<1> SUFFICES ASSUME IInv, OwnInv, [Next]_vars PROVE OwnInv' OBVIOUS
<1>1. CASE UNCHANGED vars
  BY <1>1 DEF vars, OwnInv, OnlyOwnMessages, OneTalker, PipesOfOne, NumberIsFresh, Talks
<1>2. CASE Next
  BY <1>2, KernelKeepsOwnInv, TakingANumberKeepsOwnInv, EndExchangeKeepsOwnInv,
     MessagesKeepOwnInv, ProcessKeepsOwnInv DEF Next, KernelStep
<1> QED BY <1>1, <1>2

(* Whatever is killed at whatever step, nobody takes a message of another: a *)
(* kernel serves its own process, a process reads its own responses.         *)
THEOREM MessagesAreOwn == Spec => []OnlyOwnMessages
<1>1. OwnInv => OnlyOwnMessages BY DEF OwnInv
<1> QED BY <1>1, InitIInv, StepIInv, InitOwnInv, StepOwnInv, PTL DEF Spec

-----------------------------------------------------------------------------
(* Files that are left behind.                                               *)

(* What the kernel is about to remove is not left behind; a process without  *)
(* its kernel that has not opened its pipes yet may still create a file.     *)
ToRemove ==
  IF up /\ step = "remove1" THEN {<<1, counter - 1>>, <<2, counter - 1>>}
  ELSE IF up /\ step = "remove2" THEN {<<2, counter - 1>>} ELSE {}
Left == Stale \ ToRemove
Opening == {p \in DOMAIN procs : procs[p].st \in {"load", "open"}}
Pending == {p \in Opening : ~Owned(p)}
Ended == IF up THEN session - 1 ELSE session

(* A kernel that ends leaves two files, or one process that may create one.  *)
Accounted == Cardinality(Left) + Cardinality(Pending) <= 2 * Ended
OpensInExchange ==
  /\ \A p \in DOMAIN procs : procs[p].session <= session
  /\ up => \A p \in Opening : Owned(p) => p = Current /\ step = "exchanging"
FilesInv == OpensInExchange /\ Accounted

LEMMA CardinalityBounds ==
  ASSUME NEW A, IsFiniteSet(A)
  PROVE  /\ Cardinality(A) \in Nat
         /\ \A B : B \subseteq A => IsFiniteSet(B) /\ Cardinality(B) \in Nat
                                   /\ Cardinality(B) <= Cardinality(A)
         /\ \A B, x : B \subseteq A \cup {x} =>
              Cardinality(B) \in Nat /\ Cardinality(B) <= Cardinality(A) + 1
         /\ \A B, x, y : B \subseteq A \cup {x, y} =>
              Cardinality(B) \in Nat /\ Cardinality(B) <= Cardinality(A) + 2
<1>1. Cardinality(A) \in Nat
  BY FS_CardinalityType
<1>2. ASSUME NEW C, IsFiniteSet(C), NEW B, B \subseteq C
      PROVE  IsFiniteSet(B) /\ Cardinality(B) \in Nat /\ Cardinality(B) <= Cardinality(C)
  BY <1>2, FS_Subset, FS_CardinalityType
<1>3. ASSUME NEW x
      PROVE  /\ IsFiniteSet(A \cup {x}) /\ Cardinality(A \cup {x}) \in Nat
             /\ Cardinality(A \cup {x}) <= Cardinality(A) + 1
  BY SMTT(30), <1>1, FS_AddElement
<1>4. ASSUME NEW x, NEW y
      PROVE  /\ IsFiniteSet(A \cup {x, y}) /\ Cardinality(A \cup {x, y}) \in Nat
             /\ Cardinality(A \cup {x, y}) <= Cardinality(A) + 2
  <2>1. A \cup {x, y} = (A \cup {x}) \cup {y}
    OBVIOUS
  <2> DEFINE Ax == A \cup {x}
  <2>2. IsFiniteSet(Ax) /\ Cardinality(Ax) \in Nat /\ Cardinality(Ax) <= Cardinality(A) + 1
    BY <1>3
  <2> HIDE DEF Ax
  <2>3. /\ IsFiniteSet(Ax \cup {y})
        /\ Cardinality(Ax \cup {y}) = IF y \in Ax THEN Cardinality(Ax) ELSE Cardinality(Ax) + 1
    BY <2>2, FS_AddElement
  <2>4. Cardinality(Ax \cup {y}) \in Nat /\ Cardinality(Ax \cup {y}) <= Cardinality(A) + 2
    BY <1>1, <2>2, <2>3
  <2> QED BY <2>1, <2>3, <2>4 DEF Ax
<1>5. ASSUME NEW B, NEW x, B \subseteq A \cup {x}
      PROVE  Cardinality(B) \in Nat /\ Cardinality(B) <= Cardinality(A) + 1
  <2> DEFINE C == A \cup {x}
  <2>1. IsFiniteSet(C) /\ Cardinality(C) \in Nat /\ Cardinality(C) <= Cardinality(A) + 1
    BY <1>3
  <2>2. B \subseteq C
    BY <1>5
  <2> HIDE DEF C
  <2> QED BY <1>1, <1>2, <2>1, <2>2
<1>6. ASSUME NEW B, NEW x, NEW y, B \subseteq A \cup {x, y}
      PROVE  Cardinality(B) \in Nat /\ Cardinality(B) <= Cardinality(A) + 2
  <2> DEFINE C == A \cup {x, y}
  <2>1. IsFiniteSet(C) /\ Cardinality(C) \in Nat /\ Cardinality(C) <= Cardinality(A) + 2
    BY <1>4
  <2>2. B \subseteq C
    BY <1>6
  <2> HIDE DEF C
  <2> QED BY <1>1, <1>2, <2>1, <2>2
<1> QED BY <1>1, <1>2, <1>5, <1>6

LEMMA FilesAreFinite ==
  ASSUME TypeOK
  PROVE  /\ IsFiniteSet(Left) /\ IsFiniteSet(Pending)
         /\ Cardinality(Left) \in Nat /\ Cardinality(Pending) \in Nat
         /\ Ended \in Int
<1>1. IsFiniteSet({1, 2} \X Number)
  <2>1. IsFiniteSet(1 .. 2)
    <3>1. 1 \in Int /\ 2 \in Int
      OBVIOUS
    <3> QED BY <3>1, FS_Interval
  <2>3. IsFiniteSet(Number)
    <3>1. 0 \in Int /\ MaxNumber \in Int
      BY BoundsAssumption
    <3> QED BY <3>1, FS_Interval DEF Number
  <2>2. {1, 2} = 1 .. 2
    OBVIOUS
  <2> QED BY <2>1, <2>2, <2>3, FS_Product
<1>2. Left \subseteq {1, 2} \X Number
  BY DEF Left, Stale, TypeOK
<1>3. IsFiniteSet(1 .. Len(procs)) /\ Pending \subseteq 1 .. Len(procs)
  <2>1. procs \in Seq(Process)
    BY DEF TypeOK, Process
  <2>2. DOMAIN procs = 1 .. Len(procs) /\ Len(procs) \in Int
    BY <2>1
  <2>3. IsFiniteSet(1 .. Len(procs))
    BY <2>2, FS_Interval
  <2> QED BY <2>2, <2>3 DEF Pending, Opening
<1>4. IsFiniteSet(Left) /\ IsFiniteSet(Pending)
  BY <1>1, <1>2, <1>3, FS_Subset
<1>5. session \in Int
  BY DEF TypeOK
<1> QED
  BY <1>4, <1>5, FS_CardinalityType DEF Ended

(* A step that leaves nothing behind keeps the account.                      *)
LEMMA NothingLeft ==
  ASSUME TypeOK, TypeOK', Accounted, Left' \subseteq Left, Pending' \subseteq Pending,
         Ended' = Ended
  PROVE  Accounted'
<1>1. /\ Cardinality(Left) \in Nat /\ Cardinality(Pending) \in Nat /\ Ended \in Int
      /\ IsFiniteSet(Left) /\ IsFiniteSet(Pending)
  BY FilesAreFinite
<1>2. /\ Cardinality(Left') \in Nat /\ Cardinality(Left') <= Cardinality(Left)
      /\ Cardinality(Pending') \in Nat /\ Cardinality(Pending') <= Cardinality(Pending)
  BY <1>1, CardinalityBounds
<1> QED
  BY <1>1, <1>2 DEF Accounted

(* A kernel that ends: either it was removing files, or its process opens.   *)
LEMMA EndOfKernel ==
  ASSUME IInv, IInv', FilesInv, up, ~up', session' = session, counter' = counter, files' = files,
         DOMAIN procs' = DOMAIN procs,
         \A p \in DOMAIN procs :
           /\ procs'[p].session = procs[p].session
           /\ procs'[p].st \in {"load", "open"} => procs[p].st \in {"load", "open"}
  PROVE  FilesInv'
<1>0. TypeOK /\ TypeOK'
  BY DEF IInv
<1>1. /\ Cardinality(Left) \in Nat /\ Cardinality(Pending) \in Nat /\ session \in Int
      /\ IsFiniteSet(Left) /\ IsFiniteSet(Pending)
  BY <1>0, FilesAreFinite DEF TypeOK
<1>2. OpensInExchange'
  BY DEF FilesInv, OpensInExchange
<1>3. Ended' = Ended + 1
  BY <1>1 DEF Ended
<1>4. Left' \subseteq Left \cup ToRemove
  BY DEF Left, Stale, ToRemove
<1>5. Pending' \subseteq Pending \cup {p \in Opening : Owned(p)}
  BY DEF Pending, Opening
<1>6. \/ ToRemove = {} /\ Pending' \subseteq Pending \cup {Current}
      \/ ToRemove \subseteq {<<1, counter - 1>>, <<2, counter - 1>>} /\ Pending' \subseteq Pending
  <2>1. {p \in Opening : Owned(p)} \subseteq {Current}
    BY DEF FilesInv, OpensInExchange
  <2>2. step # "exchanging" => {p \in Opening : Owned(p)} = {}
    BY DEF FilesInv, OpensInExchange
  <2>3. step = "exchanging" => ToRemove = {}
    BY DEF ToRemove
  <2>4. ToRemove \subseteq {<<1, counter - 1>>, <<2, counter - 1>>}
    BY DEF ToRemove
  <2> QED BY <1>5, <2>1, <2>2, <2>3, <2>4
<1>7. /\ Cardinality(Left') \in Nat /\ Cardinality(Pending') \in Nat
      /\ Cardinality(Left') + Cardinality(Pending') <= Cardinality(Left) + Cardinality(Pending) + 2
  <2>1. CASE ToRemove = {} /\ Pending' \subseteq Pending \cup {Current}
    <3>1. Left' \subseteq Left
      BY <1>4, <2>1
    <3>2. Cardinality(Left') \in Nat /\ Cardinality(Left') <= Cardinality(Left)
      BY <1>1, <3>1, CardinalityBounds
    <3>3. Cardinality(Pending') \in Nat /\ Cardinality(Pending') <= Cardinality(Pending) + 1
      BY <1>1, <2>1, CardinalityBounds
    <3> QED BY <1>1, <3>2, <3>3
  <2>2. CASE ToRemove \subseteq {<<1, counter - 1>>, <<2, counter - 1>>} /\ Pending' \subseteq Pending
    <3>1. Left' \subseteq Left \cup {<<1, counter - 1>>, <<2, counter - 1>>}
      BY <1>4, <2>2
    <3>2. Cardinality(Left') \in Nat /\ Cardinality(Left') <= Cardinality(Left) + 2
      BY <1>1, <3>1, CardinalityBounds
    <3>3. Cardinality(Pending') \in Nat /\ Cardinality(Pending') <= Cardinality(Pending)
      BY <1>1, <2>2, CardinalityBounds
    <3> QED BY <1>1, <3>2, <3>3
  <2> QED BY <1>6, <2>1, <2>2
<1>8. Accounted'
  <2>1. Cardinality(Left) + Cardinality(Pending) <= 2 * Ended /\ Ended \in Int
    BY <1>1 DEF FilesInv, Accounted, Ended
  <2> QED BY <1>1, <1>3, <1>7, <2>1 DEF Accounted
<1> QED
  BY <1>2, <1>8 DEF FilesInv

LEMMA KernelKeepsFiles ==
  ASSUME IInv, IInv', FilesInv,
         StartKernel \/ Request \/ IncrementThenLoadCounter \/ RemoveFormerFile
           \/ CreateFile \/ FetchPipes \/ InitEvaluate \/ InitSIGINTHandler \/ Serve
  PROVE  FilesInv'
<1>1. TypeOK /\ TypeOK' /\ Accounted /\ OpensInExchange
  BY DEF IInv, FilesInv
<1>2. /\ procs' = procs /\ session \in Int /\ counter \in Int /\ files \subseteq {1, 2} \X Number
      /\ \A p \in DOMAIN procs : procs[p].session \in Int
  <2>1. procs \in Seq(Process)
    BY <1>1 DEF TypeOK, Process
  <2>2. \A p \in DOMAIN procs : procs[p].session \in Int
    <3>1. \A p \in DOMAIN procs : procs[p] \in Process
      BY <2>1
    <3> QED BY <3>1 DEF Process
  <2>3. session \in Int /\ counter \in Int /\ files \subseteq {1, 2} \X Number
    BY <1>1 DEF TypeOK, Number, Nil
  <2> QED BY <2>2, <2>3 DEF StartKernel, Request, IncrementThenLoadCounter, RemoveFormerFile,
        CreateFile, FetchPipes, InitEvaluate, InitSIGINTHandler, Serve, kernelVars
<1>3. CASE StartKernel
  <2>1. ~up /\ up' /\ session' = session + 1 /\ step' = "idle" /\ files' = files /\ counter' = counter
    BY <1>3 DEF StartKernel, pipeVars
  <2>2. \A p \in DOMAIN procs : procs[p].session < session'
    BY <1>1, <1>2, <2>1 DEF OpensInExchange
  <2>3. OpensInExchange'
    BY <1>2, <2>1, <2>2 DEF OpensInExchange, Opening, Owned
  <2>4. Left' \subseteq Left
    BY <2>1 DEF Left, Stale, ToRemove
  <2>5. Pending' \subseteq Pending
    BY <1>2, <2>1 DEF Pending, Opening, Owned
  <2>6. Ended' = Ended
    BY <1>2, <2>1 DEF Ended
  <2> QED BY <1>1, <2>3, <2>4, <2>5, <2>6, NothingLeft DEF FilesInv
<1>4. ASSUME ~StartKernel
      PROVE  up /\ up' /\ session' = session /\ step # "exchanging" /\ OpensInExchange'
             /\ Pending' = Pending /\ Ended' = Ended
  <2>1. up /\ up' /\ session' = session /\ step # "exchanging"
    BY <1>4 DEF Request, IncrementThenLoadCounter, RemoveFormerFile,
        CreateFile, FetchPipes, InitEvaluate, InitSIGINTHandler, Serve, kernelVars, Go
  <2>2. OpensInExchange'
    BY <1>1, <1>2, <2>1 DEF OpensInExchange, Opening, Owned, Current
  <2>3. Pending' = Pending /\ Ended' = Ended
    BY <1>2, <2>1 DEF Pending, Opening, Owned, Ended
  <2> QED BY <2>1, <2>2, <2>3
<1>5. ASSUME ~StartKernel, Left' \subseteq Left
      PROVE  FilesInv'
  <2>1. Pending' \subseteq Pending /\ Ended' = Ended /\ OpensInExchange'
    BY <1>4, <1>5
  <2> QED BY <1>1, <1>5, <2>1, NothingLeft DEF FilesInv
<1>6. CASE IncrementThenLoadCounter /\ ~StartKernel
  <2>1. /\ step = "increment" /\ counter' = counter + 1 /\ files' = files
        /\ step' = IF counter' > 0 THEN "remove1" ELSE "create1"
    BY <1>6 DEF IncrementThenLoadCounter
  <2>2. counter' - 1 = counter /\ counter' \in Int
    BY <1>2, <2>1
  <2>3. Left = Stale
    BY <2>1 DEF Left, ToRemove
  <2>4. \A f \in files : f \in {1, 2} \X Number /\ f[2] \in Nat /\ f = <<f[1], f[2]>> /\ f[1] \in {1, 2}
    BY <1>2, BoundsAssumption DEF Number
  <2>5. CASE counter' > 0
    <3>1. ToRemove' = {<<1, counter>>, <<2, counter>>}
      BY <1>4, <1>6, <2>1, <2>2, <2>5 DEF ToRemove
    <3>2. ASSUME NEW f \in files, f[2] < counter', f \notin ToRemove'
          PROVE  f[2] < counter
      <4>1. f[2] # counter
        BY <2>4, <3>1, <3>2
      <4> QED BY <1>2, <2>1, <2>4, <3>2, <4>1
    <3>3. Left' \subseteq Stale
      BY <2>1, <3>2 DEF Left, Stale
    <3> QED BY <1>5, <1>6, <2>3, <3>3
  <2>6. CASE ~(counter' > 0)
    <3>1. \A f \in files : ~(f[2] < counter')
      BY <2>2, <2>4, <2>6
    <3>2. Left' = {}
      BY <2>1, <3>1 DEF Left, Stale
    <3> QED BY <1>5, <1>6, <3>2
  <2> QED BY <2>5, <2>6
<1>7. CASE RemoveFormerFile /\ ~StartKernel
  <2>1. counter' = counter
    BY <1>7 DEF RemoveFormerFile
  <2>2. CASE Go("remove1", "remove2") /\ files' = files \ {<<1, counter - 1>>}
    <3>1. ToRemove = {<<1, counter - 1>>, <<2, counter - 1>>} /\ ToRemove' = {<<2, counter - 1>>}
      BY <1>4, <1>7, <2>1, <2>2 DEF ToRemove, Go
    <3>2. Left' \subseteq Left
      BY <2>1, <2>2, <3>1 DEF Left, Stale
    <3> QED BY <1>5, <1>7, <3>2
  <2>3. CASE Go("remove2", "create1") /\ files' = files \ {<<2, counter - 1>>}
    <3>1. ToRemove = {<<2, counter - 1>>}
      BY <1>4, <1>7, <2>1, <2>3 DEF ToRemove, Go
    <3>2. Left' \subseteq Left
      BY <2>1, <2>3, <3>1 DEF Left, Stale
    <3> QED BY <1>5, <1>7, <3>2
  <2> QED BY <1>7, <2>2, <2>3 DEF RemoveFormerFile
<1>8. CASE CreateFile /\ ~StartKernel
  <2>1. counter' = counter /\ files' \subseteq files \cup {<<1, counter>>, <<2, counter>>}
    BY <1>8 DEF CreateFile
  <2>2. ToRemove = {} /\ ToRemove' = {}
    BY <1>8 DEF CreateFile, Go, ToRemove
  <2>3. ~(<<1, counter>>[2] < counter) /\ ~(<<2, counter>>[2] < counter)
    BY <1>2
  <2>4. Left' \subseteq Left
    BY <2>1, <2>2, <2>3 DEF Left, Stale
  <2> QED BY <1>5, <1>8, <2>4
<1>9. CASE (Request \/ FetchPipes \/ InitEvaluate \/ InitSIGINTHandler \/ Serve) /\ ~StartKernel
  <2>1. counter' = counter /\ files' = files
    BY <1>9 DEF Request, FetchPipes, InitEvaluate, InitSIGINTHandler, Serve, pipeVars
  <2>2. ToRemove = {} /\ ToRemove' = {}
    BY <1>9 DEF Request, FetchPipes, InitEvaluate, InitSIGINTHandler, Serve, Go, ToRemove,
       kernelVars
  <2>3. Left' \subseteq Left
    BY <2>1, <2>2 DEF Left, Stale
  <2> QED BY <1>5, <1>9, <2>3
<1> QED
  BY <1>3, <1>6, <1>7, <1>8, <1>9

(* A step of a process that does not begin to open its pipes.                *)
LEMMA NothingOpens ==
  ASSUME IInv, IInv', FilesInv, up' = up, session' = session, Left' \subseteq Left,
         \A q \in DOMAIN procs' :
           procs'[q].session = IF q \in DOMAIN procs THEN procs[q].session ELSE session,
         Opening' \subseteq Opening,
         \A q \in Opening' : Owned(q) => step' = step /\ Len(procs') = Len(procs)
  PROVE  FilesInv'
<1>1. TypeOK /\ TypeOK' /\ Accounted /\ OpensInExchange
  BY DEF IInv, FilesInv
<1>2. \A q \in Opening' : q \in Opening /\ q \in DOMAIN procs /\ Owned(q)' = Owned(q)
  BY DEF Opening, Owned
<1>3. OpensInExchange'
  <2>1. ASSUME NEW q \in DOMAIN procs' PROVE procs'[q].session <= session'
    <3>1. session \in Int
      BY <1>1 DEF TypeOK
    <3>2. procs'[q].session <= session
      BY <1>1, <3>1 DEF OpensInExchange
    <3> QED BY <3>2
  <2>2. ASSUME up', NEW q \in Opening', Owned(q)' PROVE q = Current' /\ step' = "exchanging"
    <3>1. Owned(q) /\ q \in Opening
      BY <1>2, <2>2
    <3>2. q = Current /\ step = "exchanging"
      BY <1>1, <2>2, <3>1 DEF OpensInExchange
    <3>3. step' = step /\ Len(procs') = Len(procs)
      BY <2>2, <3>1
    <3> QED BY <3>2, <3>3 DEF Current
  <2> QED BY <2>1, <2>2 DEF OpensInExchange
<1>4. Pending' \subseteq Pending
  BY <1>2 DEF Pending
<1>5. Ended' = Ended
  BY DEF Ended
<1> QED
  BY <1>1, <1>3, <1>4, <1>5, NothingLeft DEF FilesInv

LEMMA StepsOfCellKeepFiles ==
  ASSUME IInv, IInv', FilesInv, NEW p \in DOMAIN procs, NEW s \in ProcessStates \ {"load", "open"},
         To(p, s), up' = up, session' = session, counter' = counter, files' = files,
         \/ step' = step
         \/ /\ {step, step'} \cap {"remove1", "remove2"} = {}
            /\ step = "exchanging" => p = Current
  PROVE  FilesInv'
<1>1. /\ Len(procs') = Len(procs) /\ DOMAIN procs' = DOMAIN procs
      /\ procs'[p].st = s /\ procs'[p].session = procs[p].session
      /\ \A q \in DOMAIN procs : q # p => procs'[q] = procs[q]
  BY Moved DEF IInv
<1>2. Left' \subseteq Left
  BY DEF Left, Stale, ToRemove
<1>3. Opening' \subseteq Opening \ {p}
  BY <1>1 DEF Opening
<1>4. ASSUME NEW q \in Opening', Owned(q) PROVE step' = step
  <2>1. q \in Opening /\ q # p /\ up
    BY <1>3, <1>4 DEF Owned
  <2>2. q = Current /\ step = "exchanging"
    BY <1>4, <2>1 DEF FilesInv, OpensInExchange
  <2> QED BY <2>1, <2>2
<1> QED
  BY <1>1, <1>2, <1>3, <1>4, NothingOpens

LEMMA OpeningKeepsFiles ==
  ASSUME IInv, IInv', FilesInv, NEW p \in DOMAIN procs, OpenFiles(p)
  PROVE  FilesInv'
<1> DEFINE n == procs[p].loaded
<1>1. /\ procs[p].st = "open" /\ files' = files \cup {<<1, n>>}
      /\ UNCHANGED <<counter, session, up, step>>
      /\ TypeOK /\ TypeOK' /\ Accounted /\ OpensInExchange
  BY DEF OpenFiles, kernelVars, IInv, FilesInv
<1>2. procs \in Seq(Process) /\ procs[p] \in Process
  <2>1. procs \in Seq(Process)
    BY <1>1 DEF TypeOK, Process
  <2> QED BY <2>1
<1>3. /\ Len(procs') = Len(procs) /\ DOMAIN procs' = DOMAIN procs
      /\ procs'[p].st \in {"opened", "dead"} /\ procs'[p].session = procs[p].session
      /\ \A q \in DOMAIN procs : q # p => procs'[q] = procs[q]
  <2>1. CASE To(p, "dead")
    BY <1>1, <2>1, Moved DEF ProcessStates
  <2>2. CASE procs' = [procs EXCEPT ![p].st = "opened", ![p].id = n]
    <3> DEFINE r == [procs[p] EXCEPT !.st = "opened", !.id = n]
    <3>1. procs' = [procs EXCEPT ![p] = r]
      BY <2>2
    <3>2. r.st = "opened" /\ r.session = procs[p].session
      BY <1>2 DEF Process
    <3> HIDE DEF r
    <3> QED BY <1>2, <3>1, <3>2
  <2> QED BY <2>1, <2>2 DEF OpenFiles
<1>4. Opening' \subseteq Opening \ {p} /\ p \in Opening
  BY <1>1, <1>3 DEF Opening
<1>5. CASE Owned(p)
  <2>1. step = "exchanging" /\ p = Current /\ up
    BY <1>1, <1>4, <1>5 DEF OpensInExchange, Owned
  <2>2. n = counter
    BY <1>1, <2>1 DEF IInv, ExchangeUnderWay
  <2>3. ~(<<1, n>>[2] < counter)
    <3>1. counter \in Int
      BY <1>1 DEF TypeOK, Number, Nil
    <3> QED BY <2>2, <3>1
  <2>4. Left' \subseteq Left
    BY <1>1, <2>3 DEF Left, Stale, ToRemove
  <2> QED BY <1>1, <1>3, <1>4, <2>4, NothingOpens
<1>6. CASE ~Owned(p)
  <2>1. \A q \in Opening' : q \in Opening /\ q \in DOMAIN procs /\ Owned(q)' = Owned(q)
    BY <1>1, <1>3, <1>4 DEF Opening, Owned
  <2>2. OpensInExchange'
    BY <1>1, <1>3, <2>1 DEF OpensInExchange, Current
  <2>3. Pending' \subseteq Pending \ {p} /\ p \in Pending
    BY <1>4, <1>6, <2>1 DEF Pending
  <2>4. Left' \subseteq Left \cup {<<1, n>>}
    BY <1>1 DEF Left, Stale, ToRemove
  <2>5. /\ IsFiniteSet(Left) /\ IsFiniteSet(Pending)
        /\ Cardinality(Left) \in Nat /\ Cardinality(Pending) \in Nat /\ Ended \in Int
    BY <1>1, FilesAreFinite
  <2>6. Cardinality(Left') \in Nat /\ Cardinality(Left') <= Cardinality(Left) + 1
    BY <2>4, <2>5, CardinalityBounds
  <2>7. Cardinality(Pending') \in Nat /\ Cardinality(Pending') <= Cardinality(Pending) - 1
    <3> DEFINE rest == Pending \ {p}
    <3>1. IsFiniteSet(rest) /\ Cardinality(rest) = Cardinality(Pending) - 1
      BY <2>3, <2>5, FS_RemoveElement
    <3>2. Pending' \subseteq rest
      BY <2>3
    <3> HIDE DEF rest
    <3>3. Cardinality(Pending') \in Nat /\ Cardinality(Pending') <= Cardinality(rest)
      BY <3>1, <3>2, CardinalityBounds
    <3> QED BY <3>1, <3>3
  <2>8. Ended' = Ended
    BY <1>1 DEF Ended
  <2>9. Accounted'
    BY <1>1, <2>5, <2>6, <2>7, <2>8 DEF Accounted
  <2> QED BY <2>2, <2>9 DEF FilesInv
<1> QED
  BY <1>5, <1>6

LEMMA ProcessesKeepFiles ==
  ASSUME IInv, IInv', FilesInv,
         \/ KillKernel \/ InitReplProcess \/ BeginExchange \/ EndExchange
         \/ \E p \in DOMAIN procs : ProcessStep(p)
  PROVE  FilesInv'
<1>1. /\ TypeOK /\ TypeOK' /\ Accounted /\ OpensInExchange
      /\ procs \in Seq(Process) /\ DOMAIN procs = 1 .. Len(procs) /\ Len(procs) \in Nat
  <2>1. TypeOK /\ TypeOK' /\ Accounted /\ OpensInExchange
    BY DEF IInv, FilesInv
  <2>2. procs \in Seq(Process)
    BY <2>1 DEF TypeOK, Process
  <2> QED BY <2>1, <2>2
<1>2. CASE KillKernel
  <2>1. PICK spared \in BOOLEAN : procs' =
          [p \in DOMAIN procs |->
             IF Owned(p) /\ (procs[p].st = "stopped" \/ ~spared)
               THEN [procs[p] EXCEPT !.st = "dead"] ELSE procs[p]]
    BY <1>2 DEF KillKernel
  <2>2. \A p \in DOMAIN procs : procs[p] \in Process
    BY <1>1
  <2>3. \A p \in DOMAIN procs :
          /\ procs'[p].session = procs[p].session
          /\ procs'[p].st \in {"load", "open"} => procs[p].st \in {"load", "open"}
    BY <2>1, <2>2 DEF Process
  <2>4. DOMAIN procs' = DOMAIN procs
    BY <2>1
  <2> QED BY <1>2, <2>3, <2>4, EndOfKernel DEF KillKernel, pipeVars
<1>3. CASE InitReplProcess
  <2>1. /\ step = "launch" /\ up /\ up' /\ session' = session /\ counter' = counter
        /\ files' = files /\ step' \in {"communicator", "idle"}
    BY <1>1, <1>3 DEF InitReplProcess, Go, pipeVars, TypeOK
  <2>2. \/ procs' = procs
        \/ procs' = Append(procs, [session |-> session, st |-> "stopped", id |-> Nil, loaded |-> Nil])
    BY <1>3 DEF InitReplProcess
  <2>3. \A q \in Opening : ~Owned(q)
    BY <1>1, <2>1 DEF OpensInExchange
  <2>4. Left' \subseteq Left
    BY <2>1 DEF Left, Stale, ToRemove
  <2>5. /\ Opening' \subseteq Opening
        /\ \A q \in DOMAIN procs' :
             procs'[q].session = IF q \in DOMAIN procs THEN procs[q].session ELSE session
    <3>1. CASE procs' = procs
      BY <3>1 DEF Opening
    <3>2. CASE procs' = Append(procs, [session |-> session, st |-> "stopped", id |-> Nil, loaded |-> Nil])
      <4> DEFINE new == [session |-> session, st |-> "stopped", id |-> Nil, loaded |-> Nil]
      <4>1. new.st = "stopped" /\ new.session = session
        OBVIOUS
      <4>2. procs' = Append(procs, new)
        BY <3>2
      <4> HIDE DEF new
      <4>3. /\ DOMAIN procs' = 1 .. Len(procs) + 1 /\ procs'[Len(procs) + 1] = new
            /\ \A q \in DOMAIN procs : procs'[q] = procs[q]
        BY <1>1, <4>2
      <4>4. \A q \in DOMAIN procs' : q \in DOMAIN procs \/ q = Len(procs) + 1
        BY <1>1, <4>3
      <4> QED BY <1>1, <4>1, <4>3, <4>4 DEF Opening
    <3> QED BY <2>2, <3>1, <3>2
  <2> QED BY <2>1, <2>3, <2>4, <2>5, NothingOpens
<1>4. CASE BeginExchange
  <2>1. /\ step = "exchange" /\ up /\ up' /\ session' = session /\ counter' = counter
        /\ files' = files /\ step' = "exchanging" /\ To(Current, "load")
    BY <1>1, <1>4 DEF BeginExchange, Go, pipeVars, TypeOK
  <2>2. Current \in DOMAIN procs /\ procs[Current].session = session
    BY <1>1, <2>1 DEF IInv, GlobalsSet, Current
  <2>3. /\ Len(procs') = Len(procs) /\ DOMAIN procs' = DOMAIN procs
        /\ procs'[Current].session = procs[Current].session
        /\ \A q \in DOMAIN procs : q # Current => procs'[q] = procs[q]
    BY <1>1, <2>1, <2>2, Moved DEF ProcessStates
  <2>4. \A q \in Opening : ~Owned(q)
    BY <1>1, <2>1 DEF OpensInExchange
  <2>5. \A q \in Opening' : q = Current \/ q \in Opening
    BY <2>3 DEF Opening
  <2>6. \A q \in DOMAIN procs : procs'[q].session = procs[q].session /\ Owned(q)' = Owned(q)
    BY <2>1, <2>3 DEF Owned
  <2>7. OpensInExchange'
    <3>1. \A q \in DOMAIN procs' : procs'[q].session <= session'
      BY <1>1, <2>1, <2>3, <2>6 DEF OpensInExchange
    <3>2. \A q \in Opening' : Owned(q)' => q = Current
      BY <2>4, <2>5, <2>6 DEF Opening
    <3> QED BY <2>1, <2>3, <3>1, <3>2 DEF OpensInExchange, Current
  <2>8. Pending' \subseteq Pending
    <3>1. Owned(Current)
      BY <2>1, <2>2 DEF Owned
    <3> QED BY <2>2, <2>5, <2>6, <3>1 DEF Pending, Opening
  <2>9. Left' \subseteq Left /\ Ended' = Ended
    BY <2>1 DEF Left, Stale, ToRemove, Ended
  <2> QED BY <1>1, <2>7, <2>8, <2>9, NothingLeft DEF FilesInv
<1>5. CASE EndExchange
  <2>1. /\ step = "exchanging" /\ up /\ up' = up /\ session' = session /\ counter' = counter
        /\ files' = files /\ step' \in {"cell", "stuck"}
    BY <1>1, <1>5 DEF EndExchange, Go, pipeVars, TypeOK
  <2>2. Current \in DOMAIN procs
    BY <1>1, <2>1 DEF IInv, GlobalsSet, Current
  <2>3. CASE \E s \in {"run", "stopped"} : To(Current, s)
    BY <2>1, <2>2, <2>3, StepsOfCellKeepFiles DEF ProcessStates
  <2>4. CASE procs[Current].st = "dead" /\ procs' = procs
    <3>1. \A q \in Opening : ~Owned(q)
      BY <1>1, <2>1, <2>4 DEF OpensInExchange, Opening
    <3>2. Opening' \subseteq Opening /\ Left' \subseteq Left
      BY <2>1, <2>4 DEF Opening, Left, Stale, ToRemove
    <3> QED BY <2>1, <2>4, <3>1, <3>2, NothingOpens
  <2> QED BY <1>5, <2>3, <2>4 DEF EndExchange
<1>6. ASSUME NEW p \in DOMAIN procs, ProcessStep(p)
      PROVE  FilesInv'
  <2>1. CASE LoadCounter(p)
    <3> DEFINE r == [procs[p] EXCEPT !.st = "open", !.id = Nil, !.loaded = counter]
    <3>1. /\ procs[p].st = "load" /\ procs' = [procs EXCEPT ![p] = r]
          /\ UNCHANGED <<counter, files, up, step, session>>
      BY <2>1 DEF LoadCounter, pipeVars, kernelVars
    <3>2. r.session = procs[p].session
      <4>1. procs[p] \in Process
        BY <1>1
      <4> QED BY <4>1 DEF Process
    <3> HIDE DEF r
    <3>3. /\ DOMAIN procs' = DOMAIN procs /\ Len(procs') = Len(procs) /\ procs'[p] = r
          /\ \A q \in DOMAIN procs : q # p => procs'[q] = procs[q]
      BY <1>1, <3>1
    <3>4. Opening' \subseteq Opening /\ Left' \subseteq Left
      BY <3>1, <3>3 DEF Opening, Left, Stale, ToRemove
    <3> QED BY <3>1, <3>2, <3>3, <3>4, NothingOpens
  <2>2. CASE OpenFiles(p)
    BY <2>2, OpeningKeepsFiles
  <2>3. CASE OrphanEnds(p)
    BY <2>3, StepsOfCellKeepFiles DEF OrphanEnds, pipeVars, kernelVars, ProcessStates
  <2>4. CASE EndCell(p)
    BY <2>4, StepsOfCellKeepFiles DEF EndCell, Go, pipeVars, ProcessStates
  <2>5. CASE ProgramDies(p)
    <3>1. /\ up /\ ~up' /\ session' = session /\ counter' = counter /\ files' = files
          /\ To(p, "dead")
      BY <2>5 DEF ProgramDies, Owned, pipeVars
    <3>2. /\ DOMAIN procs' = DOMAIN procs /\ procs'[p].st = "dead"
          /\ procs'[p].session = procs[p].session
          /\ \A q \in DOMAIN procs : q # p => procs'[q] = procs[q]
      BY <1>1, <3>1, Moved DEF ProcessStates
    <3> QED BY <3>1, <3>2, EndOfKernel
  <2>6. CASE BeginSend(p) \/ Write(p)
    BY <2>6, StepsOfCellKeepFiles DEF BeginSend, Validated, Write, pipeVars, kernelVars,
       ProcessStates
  <2>7. CASE BeginRecv(p) \/ Read(p)
    BY <2>7, StepsOfCellKeepFiles DEF BeginRecv, Validated, Read, pipeVars, kernelVars,
       ProcessStates
  <2> QED BY <1>6, <2>1, <2>2, <2>3, <2>4, <2>5, <2>6, <2>7 DEF ProcessStep
<1> QED
  BY <1>2, <1>3, <1>4, <1>5, <1>6

LEMMA StepFilesInv == IInv /\ IInv' /\ FilesInv /\ [Next]_vars => FilesInv'
<1> SUFFICES ASSUME IInv, IInv', FilesInv, [Next]_vars PROVE FilesInv'
  OBVIOUS
<1>1. CASE UNCHANGED vars
  BY <1>1 DEF vars, FilesInv, Accounted, OpensInExchange, Left, Stale, ToRemove, Pending,
              Opening, Owned, Ended, Current
<1>2. CASE Next
  BY <1>2, KernelKeepsFiles, ProcessesKeepFiles DEF Next, KernelStep
<1> QED BY <1>1, <1>2

LEMMA InitFilesInv == Init => FilesInv
<1> SUFFICES ASSUME Init PROVE FilesInv
  OBVIOUS
<1>1. OpensInExchange
  BY DEF Init, OpensInExchange, Opening
<1>2. Left = {} /\ Pending = {} /\ Ended = 0
  BY DEF Init, Left, Stale, Pending, Opening, Ended
<1>3. Accounted
  BY <1>2, FS_EmptySet DEF Accounted
<1> QED BY <1>1, <1>3 DEF FilesInv

(* However many kernels are killed and whatever their processes still open,  *)
(* two pipe files for each of them are left behind at the most.              *)
THEOREM FewFilesLeftBehind == Spec => []FilesLeftBehind
<1>1. IInv /\ FilesInv => FilesLeftBehind
  <2> SUFFICES ASSUME IInv, FilesInv PROVE FilesLeftBehind
    OBVIOUS
  <2>1. /\ IsFiniteSet(Left) /\ Cardinality(Left) \in Nat /\ Cardinality(Pending) \in Nat
        /\ Ended \in Int /\ Cardinality(Left) + Cardinality(Pending) <= 2 * Ended
    BY FilesAreFinite DEF IInv, FilesInv, Accounted
  <2>2. Stale \subseteq Left \cup ToRemove
    BY DEF Left
  <2>3. CASE up /\ step \in {"remove1", "remove2"}
    <3> DEFINE f1 == <<1, counter - 1>>
               f2 == <<2, counter - 1>>
    <3>1. Stale \subseteq Left \cup {f1, f2}
      BY <2>2, <2>3 DEF ToRemove
    <3> HIDE DEF f1, f2
    <3>2. Cardinality(Stale) \in Nat /\ Cardinality(Stale) <= Cardinality(Left) + 2
      BY <2>1, <3>1, CardinalityBounds
    <3>3. Cardinality(Stale) <= 2 * Ended + 2
      BY <2>1, <3>2
    <3> QED BY <2>3, <3>3 DEF FilesLeftBehind, Ended
  <2>4. CASE ~(up /\ step \in {"remove1", "remove2"})
    <3>1. Stale \subseteq Left
      BY <2>2, <2>4 DEF ToRemove
    <3>2. Cardinality(Stale) \in Nat /\ Cardinality(Stale) <= Cardinality(Left)
      BY <2>1, <3>1, CardinalityBounds
    <3>3. Cardinality(Stale) <= 2 * Ended + 0
      BY <2>1, <3>2
    <3> QED BY <2>4, <3>3 DEF FilesLeftBehind, Ended
  <2> QED BY <2>3, <2>4
<1> QED BY <1>1, InitIInv, StepIInv, InitFilesInv, StepFilesInv, PTL DEF Spec
=============================================================================
