----------------------------- MODULE LLDBProcess -----------------------------
(* The C++ bindings of LLDB (LLDBProcess.cpp) with the Swift code that calls *)
(* them and turns what they return into an error report                      *)
(* (PreprocessAndExecute.swift, DoExecute.swift, FormatErrors.swift).        *)
(*                                                                           *)
(* Memory that the bindings hand to Swift is modelled byte by byte: a block  *)
(* has the size that malloc was given and the bytes that were written.       *)
(* Characters are their codes; a byte that is never written is Unwritten.    *)
EXTENDS Integers, Sequences

CONSTANTS
  MaxLaunches,   \* bound on the calls of init_repl_process
  MaxCells,      \* bound on the number of cells
  MaxDepth,      \* bound on the depth of a stack
  Text,          \* descriptions and error messages of LLDB
  Frame,         \* stack frames
  ErrorLine      \* first lines of what a trap prints to stderr

NUL == 0
LF == 10
CR == 13
Slash == 47
Colon == 58
Underscore == 95             \* a name that begins with "__lldb_expr_"
Unwritten == -1

Generated == <<60, 62>>      \* "<compiler-generated>"
Checkouts == <<80>>          \* the install location, the package, checkouts
StackTrace == <<83>>         \* "Current stack trace:"

(* A C string, whose length fits an int, and the numbers of a uint32_t: the  *)
(* highest of the four bytes is a byte (the positive half of one).           *)
Char == 1 .. 255
High(n) == n \div 256
Name == {s \in Seq(Char) : High(High(High(Len(s)))) < 128}
UInt32 == {n \in Nat : High(High(High(n))) < 256}

ASSUME ConstantsAssumption ==
  /\ MaxLaunches \in Nat /\ MaxCells \in Nat /\ MaxDepth \in Nat
  /\ Text \subseteq Seq(Char) /\ ErrorLine \subseteq Seq(Char)
  /\ Frame \subseteq [spec : BOOLEAN, exists : BOOLEAN, function : Name,
                      file : Name, directory : Name,
                      line : UInt32, column : UInt32]

ErrorType == {"Invalid", "Generic", "MachKernel", "POSIX", "Expression", "Win32"}
StateType == {"Invalid", "Unloaded", "Connected", "Attaching", "Launching",
              "Stopped", "Running", "Stepping", "Crashed", "Detached", "Exited",
              "Suspended"}
NoText == <<Unwritten>>
NoBlock == [size |-> 0, bytes |-> <<>>]
NoSource == <<>>

VARIABLES
  launches,        \* history: calls of init_repl_process
  globals,         \* the launch each C++ global belongs to, 0 when it is not valid
  phase,           \* what the kernel does
  cell,            \* number of the cell
  state,           \* state of SBProcess
  result,          \* error and text of the latest evaluation
  code,            \* what execute returned
  description,     \* the block execute returned
  told,            \* the description that Swift took out of it
  stack,           \* frames of main_thread
  next,            \* the loop variable of the traces
  frames,          \* the blocks get_pretty_stack_trace has filled
  lines,           \* lines of the trace that is printed
  live,            \* blocks that are allocated
  err,             \* /opt/swift/err: <<cell that wrote it, line>>
  errorStreamEnd,  \* what of it has been looked at
  shown            \* what fetchStderr returned: the lines and errorSource

vars == <<launches, globals, phase, cell, state, result, code, description,
          told, stack, next, frames, lines, live, err, errorStreamEnd, shown>>

callVars  == <<result, code, description, told>>
traceVars == <<stack, next, frames, lines>>
errVars   == <<err, errorStreamEnd, shown>>

-----------------------------------------------------------------------------
(* Launching the process.                                                    *)

(* The globals in the order in which init_repl_process sets them, and the    *)
(* checks that end it with the codes 1 to 4.                                 *)
Order == [debugger |-> 1, target |-> 2, main_bp |-> 3, process |-> 4,
          expr_opts |-> 5, main_thread |-> 5]
Global == DOMAIN Order

Init ==
  /\ launches = 0 /\ globals = [g \in Global |-> 0]
  /\ phase = "down" /\ cell = 0 /\ state = "Invalid"
  /\ result = [error |-> "Generic", text |-> NoText] /\ code = 1
  /\ description = NoBlock /\ told = NoText
  /\ stack = <<>> /\ next = 1 /\ frames = <<>> /\ lines = <<>>
  /\ live = {} /\ err = <<>> /\ errorStreamEnd = 0
  /\ shown = [lines |-> <<>>, source |-> NoSource]

(* A mistake: a target that a failed launch left behind is kept.             *)
LaunchKeepingTarget ==
  /\ phase = "down" /\ launches < MaxLaunches
  /\ launches' = launches + 1
  /\ \E failed \in 0 .. 4 :
       /\ globals' = [g \in Global |->
            IF g = "target" /\ globals[g] # 0 THEN globals[g]
            ELSE IF failed = 0 \/ Order[g] < failed THEN launches'
            ELSE IF Order[g] = failed THEN 0 ELSE globals[g]]
       /\ err' = IF failed \in {0, 4} THEN <<>> ELSE err
       /\ IF failed = 0 THEN phase' = "ready" /\ state' = "Stopped"
                        ELSE UNCHANGED <<phase, state>>
  /\ UNCHANGED <<cell, callVars, traceVars, live, errorStreamEnd, shown>>

(* init_repl_process: a call that fails leaves new globals up to its check   *)
(* and those of an earlier call after it; the file for stderr is emptied     *)
(* before the launch.                                                        *)
Launch ==
  /\ phase = "down" /\ launches < MaxLaunches
  /\ launches' = launches + 1
  /\ \E failed \in 0 .. 4 :
       /\ globals' = [g \in Global |->
            IF failed = 0 \/ Order[g] < failed THEN launches'
            ELSE IF Order[g] = failed THEN 0 ELSE globals[g]]
       /\ err' = IF failed \in {0, 4} THEN <<>> ELSE err
       /\ IF failed = 0 THEN phase' = "ready" /\ state' = "Stopped"
                        ELSE UNCHANGED <<phase, state>>
  /\ UNCHANGED <<cell, callVars, traceVars, live, errorStreamEnd, shown>>

(* The rest of initSwift fails before the first cell: the next request       *)
(* launches another process.                                                 *)
InitFails ==
  /\ phase = "ready" /\ cell = 0
  /\ phase' = "down"
  /\ UNCHANGED <<launches, globals, cell, state, callVars, traceVars, live, errVars>>

-----------------------------------------------------------------------------
(* Running a cell.                                                           *)

(* doExecute needs a process that answers, and looks past what earlier cells *)
(* have written to stderr.  The variables that stand for locals start anew.  *)
BeginCell ==
  /\ phase = "ready" /\ state = "Stopped" /\ cell < MaxCells
  /\ cell' = cell + 1
  /\ phase' = "cell"
  /\ errorStreamEnd' = Len(err)
  /\ shown' = [lines |-> <<>>, source |-> NoSource]
  /\ code' = 1 /\ told' = NoText /\ description' = NoBlock
  /\ result' = [error |-> "Generic", text |-> NoText]
  /\ stack' = <<>> /\ next' = 1 /\ frames' = <<>> /\ lines' = <<>>
  /\ UNCHANGED <<launches, globals, state, live, err>>

(* The text without a line break at its end, for errors.                     *)
EndsInBreak(error, text) ==
  error # "Invalid" /\ text # <<>> /\ text[Len(text)] \in {LF, CR}
DescriptionSize(error, text) ==
  IF EndsInBreak(error, text) THEN Len(text) - 1 ELSE Len(text)

(* A mistake: the block has no room for the end of the string.               *)
BlockWithoutEnd(error, text) ==
  LET size == DescriptionSize(error, text)
  IN  [size |-> size, bytes |-> SubSeq(text, 1, size) \o <<NUL>>]

(* malloc, memcpy of desc_size + 1 bytes, and the end over the line break.   *)
OwnedDescription(error, text) ==
  LET size == DescriptionSize(error, text)
      copy == SubSeq(text \o <<NUL>>, 1, size + 1)
  IN  [size  |-> size + 1,
       bytes |-> IF EndsInBreak(error, text) THEN [copy EXCEPT ![size + 1] = NUL] ELSE copy]

(* LLDB has a text for every error but Generic; a value may have none.       *)
Outcome ==
  [error : {"Invalid"}, text : Text \cup {NoText}]
  \cup [error : {"Generic"}, text : {NoText}]
  \cup [error : ErrorType \ {"Invalid", "Generic"}, text : Text]

Stacks == UNION {[1 .. depth -> Frame] : depth \in 0 .. MaxDepth}

(* What the program writes to stderr: nothing, a line of its own, or the     *)
(* message of a trap with the stack that the runtime prints.                 *)
Written == {<<>>} \cup {<<<<cell, l>>>> : l \in ErrorLine}
           \cup {<<<<cell, l>>, <<cell, StackTrace>>>> : l \in ErrorLine}

(* A mistake: a value without a description is returned as one.              *)
ExecuteWithoutNullCheck ==
  /\ phase = "cell"
  /\ \E r \in Outcome, written \in Written :
       /\ result' = r
       /\ code' = IF r.error = "Invalid" THEN 0 ELSE IF r.error = "Generic" THEN 1 ELSE 2
       /\ IF r.text = NoText
            THEN description' = NoBlock /\ UNCHANGED live
            ELSE description' = OwnedDescription(r.error, r.text) /\ live' = live \cup {<<"description">>}
       /\ err' = err \o written
       /\ state' \in IF r.error = "Expression" THEN StateType ELSE {"Stopped"}
       /\ stack' = <<>>
  /\ phase' = "returned"
  /\ UNCHANGED <<launches, globals, cell, told, next, frames, lines, errorStreamEnd, shown>>

(* execute: the program of the cell runs, may write to stderr, and the call  *)
(* returns; a trap leaves a stack behind, and the process may die.           *)
Execute ==
  /\ phase = "cell"
  /\ \E r \in Outcome, written \in Written :
       LET error == IF r.error = "Invalid" /\ r.text = NoText THEN "Generic" ELSE r.error
       IN  /\ result' = r
           /\ code' = IF error = "Invalid" THEN 0 ELSE IF error = "Generic" THEN 1 ELSE 2
           /\ IF error = "Generic"
                THEN description' = NoBlock /\ UNCHANGED live
                ELSE /\ description' = OwnedDescription(error, r.text)
                     /\ live' = live \cup {<<"description">>}
           /\ err' = err \o written
           /\ state' \in IF error = "Expression" THEN StateType ELSE {"Stopped"}
           /\ IF error = "Expression" /\ state' = "Stopped"
                THEN stack' \in Stacks ELSE stack' = <<>>
  /\ phase' = "returned"
  /\ UNCHANGED <<launches, globals, cell, told, next, frames, lines, errorStreamEnd, shown>>

(* String(cString:) *)
CString(block) ==
  LET end == CHOOSE k \in 1 .. Len(block.bytes) :
               /\ block.bytes[k] = NUL
               /\ \A j \in 1 .. k - 1 : block.bytes[j] # NUL
  IN  SubSeq(block.bytes, 1, end - 1)

process_is_alive ==
  state \in {"Attaching", "Launching", "Stopped", "Running", "Stepping", "Crashed", "Suspended"}

(* Swift takes the description over; an error of a cell that has printed its *)
(* header is reported with stderr and a stack, others with the description.  *)
TakeDescription ==
  /\ phase = "returned"
  /\ told' = IF description = NoBlock THEN NoText ELSE CString(description)
  /\ description' = NoBlock
  /\ live' = live \ {<<"description">>}
  /\ \E hadStdout \in BOOLEAN :
       phase' = IF code # 2 THEN "ready"
                ELSE IF ~process_is_alive THEN "stopping"
                ELSE IF hadStdout THEN "report" ELSE "ready"
  /\ UNCHANGED <<launches, globals, cell, state, result, code, traceVars, errVars>>

-----------------------------------------------------------------------------
(* What the process wrote to stderr.                                         *)

Positions(line, c) == {k \in DOMAIN line : line[k] = c}
Least(S) == CHOOSE x \in S : \A y \in S : x <= y

(* fetchStderr on the first line, "module/file:line: message": the source it *)
(* names and the rest, or the line as it is.                                 *)
Digit == 48 .. 57
Located(line) ==
  LET slashes == Positions(line, Slash)
      slash   == Least(slashes)
      colons  == {k \in Positions(line, Colon) : k > slash}
      first   == Least(colons)
      second  == Least(colons \ {first})
      number  == SubSeq(line, first + 1, second - 1)
      plain   == [line |-> line, source |-> NoSource, trap |-> FALSE]
  IN  IF slashes = {} THEN plain
      ELSE IF slash = 1 \/ colons = {} THEN plain
      ELSE IF colons = {first} THEN plain
      ELSE IF number = <<>> \/ \E k \in DOMAIN number : number[k] \notin Digit THEN plain
      ELSE [line   |-> IF second + 2 <= Len(line) THEN SubSeq(line, second + 2, Len(line)) ELSE line,
            source |-> <<SubSeq(line, IF line[1] = Underscore THEN slash + 1 ELSE 1, first - 1), number>>,
            trap   |-> second + 2 > Len(line) + 1]

(* A mistake: everything that the session wrote is shown.                    *)
FetchAllStderr ==
  /\ phase = "report"
  /\ errorStreamEnd' = Len(err)
  /\ shown' = [lines |-> [k \in 1 .. Len(err) |-> err[k]], source |-> NoSource]
  /\ phase' = "trace"
  /\ UNCHANGED <<launches, globals, cell, state, callVars, traceVars, live, err>>

(* getStderr and fetchStderr: the index of the character after the line's    *)
(* second colon and the blank must exist, or Swift traps.                    *)
FetchStderr ==
  LET new     == SubSeq(err, errorStreamEnd + 1, Len(err))
      trapped == \E k \in DOMAIN new : new[k][2] = StackTrace
      first   == Located(new[1][2])
  IN  /\ phase = "report"
      /\ errorStreamEnd' = Len(err)
      /\ shown' = IF trapped
                    THEN [lines |-> <<<<new[1][1], first.line>>>>, source |-> first.source]
                    ELSE [lines |-> new, source |-> NoSource]
      /\ phase' \in IF new = <<>> THEN {"trace", "ready"}
                    ELSE IF trapped /\ first.trap THEN {"trapped"} ELSE {"trace"}
      /\ UNCHANGED <<launches, globals, cell, state, callVars, traceVars, live, err>>

-----------------------------------------------------------------------------
(* The stack.                                                                *)

(* ~3 & (n + 3), and an int in memory.                                       *)
Aligned(n) == ((n + 3) \div 4) * 4
Word(n) == <<n % 256, High(n) % 256, High(High(n)) % 256, High(High(High(n)))>>
WordAt(b, p) == b[p] + 256 * (b[p + 1] + 256 * (b[p + 2] + 256 * b[p + 3]))

Directory(f) == IF f.exists THEN f.directory ELSE <<>>
Component(s) == Word(Len(s)) \o s \o [k \in 1 .. Aligned(Len(s)) - Len(s) |-> Unwritten]

(* A mistake: the sizes are not aligned.                                     *)
BlockSizeUnaligned(f) ==
  4 + 4 + (4 + Len(f.function)) + (4 + Len(f.file)) + (4 + Len(Directory(f)))

BlockSize(f) ==
  4 + 4 + (4 + Aligned(Len(f.function))) + (4 + Aligned(Len(f.file)))
        + (4 + Aligned(Len(Directory(f))))
FrameBlock(f) ==
  [size  |-> BlockSize(f),
   bytes |-> Word(f.line) \o Word(f.column) \o Component(f.function)
             \o Component(f.file) \o Component(Directory(f))]

(* get_pretty_stack_trace: the array of pointers ...                         *)
BeginTrace ==
  /\ phase = "trace"
  /\ phase' = "serialise"
  /\ next' = 1 /\ frames' = <<>> /\ lines' = <<>>
  /\ live' = live \cup {<<"frames">>}
  /\ UNCHANGED <<launches, globals, cell, state, callVars, stack, errVars>>

(* A mistake: specialisations of library functions are not left out.         *)
SerialiseGenerated ==
  /\ phase = "serialise" /\ next <= Len(stack)
  /\ next' = next + 1
  /\ IF ~stack[next].spec THEN UNCHANGED <<frames, live>>
     ELSE /\ frames' = Append(frames, FrameBlock(stack[next]))
          /\ live' = live \cup {<<"frame", Len(frames')>>}
  /\ UNCHANGED <<launches, globals, phase, cell, state, callVars, stack, lines, errVars>>

(* ... a block for each frame that has a place in a source file ...          *)
SerialiseFrame ==
  /\ phase = "serialise" /\ next <= Len(stack)
  /\ next' = next + 1
  /\ IF ~stack[next].spec \/ stack[next].file = Generated THEN UNCHANGED <<frames, live>>
     ELSE /\ frames' = Append(frames, FrameBlock(stack[next]))
          /\ live' = live \cup {<<"frame", Len(frames')>>}
  /\ UNCHANGED <<launches, globals, phase, cell, state, callVars, stack, lines, errVars>>

(* ... and back in Swift.                                                    *)
EndSerialise ==
  /\ phase = "serialise" /\ next > Len(stack)
  /\ phase' = "print" /\ next' = 1
  /\ UNCHANGED <<launches, globals, cell, state, callVars, stack, frames, lines, live, errVars>>

(* extractComponent, and where the next component begins.                    *)
ComponentAt(b, p) == SubSeq(b, p + 4, p + 3 + WordAt(b, p))
After(b, p) == p + 4 + Aligned(WordAt(b, p))

(* The path that is shown: in a package, somewhere else, or in a cell.       *)
Path(directory, file) ==
  IF directory # <<>> /\ SubSeq(directory, 1, 1) = Checkouts
    THEN SubSeq(directory, 2, Len(directory)) \o <<Slash>> \o file
  ELSE IF directory # <<>> THEN directory \o <<Slash>> \o file
  ELSE file

(* A mistake: the blocks of the frames are left to the array.                *)
PrintWithoutFree ==
  /\ phase = "print" /\ next <= Len(frames)
  /\ LET b == frames[next].bytes
         toFile == After(b, 9)
         toDirectory == After(b, toFile)
     IN  lines' = Append(lines,
           [id |-> next, function |-> ComponentAt(b, 9),
            path |-> Path(ComponentAt(b, toDirectory), ComponentAt(b, toFile)),
            line |-> WordAt(b, 1), column |-> WordAt(b, 5)])
  /\ next' = next + 1
  /\ UNCHANGED <<launches, globals, phase, cell, state, callVars, stack, frames, live, errVars>>

(* One round of the loop of prettyPrintStackTrace.                           *)
PrintFrame ==
  /\ phase = "print" /\ next <= Len(frames)
  /\ LET b == frames[next].bytes
         toFile == After(b, 9)
         toDirectory == After(b, toFile)
     IN  lines' = Append(lines,
           [id |-> next, function |-> ComponentAt(b, 9),
            path |-> Path(ComponentAt(b, toDirectory), ComponentAt(b, toFile)),
            line |-> WordAt(b, 1), column |-> WordAt(b, 5)])
  /\ next' = next + 1
  /\ live' = live \ {<<"frame", next>>}
  /\ UNCHANGED <<launches, globals, phase, cell, state, callVars, stack, frames, errVars>>

EndPrint ==
  /\ phase = "print" /\ next > Len(frames)
  /\ phase' = "ready"
  /\ live' = live \ {<<"frames">>}
  /\ UNCHANGED <<launches, globals, cell, state, callVars, traceVars, errVars>>

-----------------------------------------------------------------------------
Next ==
  \/ Launch \/ InitFails \/ BeginCell \/ Execute \/ TakeDescription \/ FetchStderr
  \/ BeginTrace \/ SerialiseFrame \/ EndSerialise \/ PrintFrame \/ EndPrint

Spec == Init /\ [][Next]_vars

-----------------------------------------------------------------------------
(* Properties.                                                               *)

Memory == [size : Nat, bytes : Seq(Unwritten .. 255)]

(* The types of the variables. *)
TypeOK ==
  /\ launches \in 0 .. MaxLaunches /\ globals \in [Global -> 0 .. MaxLaunches]
  /\ phase \in {"down", "ready", "cell", "returned", "report", "trace",
                "serialise", "print", "stopping", "trapped"}
  /\ cell \in 0 .. MaxCells /\ state \in StateType
  /\ result.error \in ErrorType /\ code \in 0 .. 2
  /\ description = NoBlock \/ description \in Memory
  /\ frames \in Seq(Memory) /\ Len(frames) <= Len(stack)
  /\ next \in 1 .. Len(stack) + 1
  /\ errorStreamEnd \in 0 .. Len(err)

(* Whatever launches failed before, cells are evaluated in, traced in and    *)
(* asked of one process: the globals never mix two launches while a cell     *)
(* runs.                                                                     *)
OneLaunch == phase # "down" => \A g \in Global : globals[g] = launches

(* No copy writes or leaves bytes beyond what malloc was asked for, and a    *)
(* string that Swift reads ends within its block.                            *)
InBounds ==
  /\ description # NoBlock =>
       /\ Len(description.bytes) <= description.size
       /\ \E k \in DOMAIN description.bytes : description.bytes[k] = NUL
  /\ \A k \in DOMAIN frames : Len(frames[k].bytes) <= frames[k].size

(* The codes 0 and 2 come with a description, which Swift unwraps, and it is *)
(* the text of LLDB, without its last line break when it is an error's.      *)
DescriptionArrives ==
  phase \notin {"down", "cell", "returned"} /\ cell > 0 =>
    /\ (told = NoText) <=> (code = 1)
    /\ code = 0 => told = result.text
    /\ code = 2 =>
         /\ result.text \in {told, told \o <<LF>>, told \o <<CR>>}
         /\ told = result.text /\ told # <<>> => told[Len(told)] \notin {LF, CR}

(* Every block the bindings allocate is freed by the time the next cell can  *)
(* begin.                                                                    *)
NothingLeaked == phase \in {"ready", "cell", "stopping"} => live = {}

(* The trace that is shown has a line for every frame with a place in a      *)
(* source file, in order, numbered from 1, with all that LLDB said of it.    *)
IsShown(f) == f.spec /\ f.file # Generated
LineOf(f, id) ==
  [id |-> id, function |-> f.function, path |-> Path(Directory(f), f.file),
   line |-> f.line, column |-> f.column]
TraceIsTheStack ==
  phase = "print" /\ next > Len(frames) =>
    \E place \in [DOMAIN lines -> DOMAIN stack] :
      /\ \A k, l \in DOMAIN lines : k < l => place[k] < place[l]
      /\ {place[k] : k \in DOMAIN lines} = {p \in DOMAIN stack : IsShown(stack[p])}
      /\ \A k \in DOMAIN lines : lines[k] = LineOf(stack[place[k]], k)

(* What is shown of stderr was written by the cell that is reported, however *)
(* much earlier cells and reports have left in the file.                     *)
StderrIsTheCells ==
  phase \in {"trace", "serialise", "print"} =>
    \A k \in DOMAIN shown.lines : shown.lines[k][1] = cell

(* The invariant: the types, one process, and blocks that are written within *)
(* their bounds, read as what they were made from, and freed.                *)
BindingsInv == TypeOK /\ OneLaunch /\ InBounds /\ DescriptionArrives /\ NothingLeaked
=============================================================================
