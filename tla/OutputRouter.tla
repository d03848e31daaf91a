----------------------------- MODULE OutputRouter -----------------------------
(* The way of stdout from the process to the front end, byte by byte         *)
(* (getStdout, getAndSendStdout and sendStdout in HandleIO.swift, and        *)
(* get_stdout in LLDBProcess.cpp).                                           *)
(*                                                                           *)
(* What the process prints passes through a pseudo-terminal that a thread of *)
(* LLDB empties in pieces of any size; a drain takes what has arrived until  *)
(* nothing is left.  Neither knows of characters, of the header, of markers  *)
(* or of the sequence that clears the output, and no drain waits for what    *)
(* is still on its way.                                                      *)
(*                                                                           *)
(* Each of those has two bytes here, and other characters have one.          *)
EXTENDS Naturals, Sequences, SequencesExt

CONSTANTS
  MaxCells,      \* bound on the number of cells
  MaxItems,      \* bound on what they print altogether
  BufferSize     \* bufferSize (65536)

ASSUME BoundsAssumption ==
  MaxCells \in Nat /\ MaxItems \in Nat /\ BufferSize \in Nat \ {0}

Item == {"header", "marker", "clear", "wide", "plain"}
Bytes(item) ==
  CASE item = "header" -> <<"h1", "h2">>
    [] item = "marker" -> <<"m1", "m2">>
    [] item = "clear"  -> <<"c1", "c2">>
    [] item = "wide"   -> <<"u1", "u2">>
    [] item = "plain"  -> <<"a">>
Byte == {"h1", "h2", "m1", "m2", "c1", "c2", "u1", "u2", "a"}

VARIABLES
  cell,        \* number of the cell
  phase,       \* no cell, its program runs, or its result is known
  waiting,     \* the program waits for the response to a marker
  written,     \* history: <<cell, item>> that was printed
  pty,         \* bytes on their way
  available,   \* bytes that LLDB holds
  reading,     \* the kernel is in getStdout
  buffer,      \* bytes of this drain
  hadStdout,
  sent,        \* <<cell, byte>>, and "serve" and "clear" for what was done in between
  drained,     \* history: how many bytes were drained
  torn,        \* history: a drain ended between the bytes of an item
  late,        \* history: a cell ended while its bytes were on their way
  failed       \* the kernel met a trap or a failed precondition

vars == <<cell, phase, waiting, written, pty, available, reading, buffer,
          hadStdout, sent, drained, torn, late, failed>>
processVars == <<waiting, written, pty, available>>
drainVars == <<reading, buffer, hadStdout, sent, drained, torn, late, failed>>

Init ==
  /\ cell = 0 /\ phase = "idle" /\ waiting = FALSE /\ written = <<>>
  /\ pty = <<>> /\ available = <<>> /\ reading = FALSE /\ buffer = <<>>
  /\ hadStdout = FALSE /\ sent = <<>> /\ drained = 0
  /\ torn = FALSE /\ late = FALSE /\ failed = FALSE

-----------------------------------------------------------------------------
(* The process and LLDB.                                                     *)

(* A mistake: the flag of the cell before is kept.                           *)
BeginCellWithoutReset ==
  /\ phase = "idle" /\ ~failed /\ cell < MaxCells
  /\ cell' = cell + 1 /\ phase' = "running"
  /\ \/ UNCHANGED <<written, pty>>
     \/ Len(written) < MaxItems /\ written' = Append(written, <<cell', "header">>)
        /\ pty' = pty \o Bytes("header")
  /\ UNCHANGED <<waiting, available, drainVars>>

(* doExecute resets hadStdout; a program that compiles prints the header.    *)
BeginCell ==
  /\ phase = "idle" /\ ~failed /\ cell < MaxCells
  /\ cell' = cell + 1 /\ phase' = "running"
  /\ hadStdout' = FALSE
  /\ \/ UNCHANGED <<written, pty>>
     \/ Len(written) < MaxItems /\ written' = Append(written, <<cell', "header">>)
        /\ pty' = pty \o Bytes("header")
  /\ UNCHANGED <<waiting, available, reading, buffer, sent, drained, torn, late, failed>>

(* It prints more, and waits after a marker.                                 *)
Compiled == \E k \in DOMAIN written : written[k] = <<cell, "header">>
PrintItem ==
  /\ phase = "running" /\ Compiled /\ ~waiting /\ Len(written) < MaxItems
  /\ \E item \in Item \ {"header"} :
       /\ written' = Append(written, <<cell, item>>)
       /\ pty' = pty \o Bytes(item)
       /\ waiting' = (item = "marker")
  /\ UNCHANGED <<cell, phase, available, drainVars>>

Arrive ==
  /\ pty # <<>>
  /\ \E n \in 1 .. Len(pty) :
       /\ available' = available \o SubSeq(pty, 1, n)
       /\ pty' = SubSeq(pty, n + 1, Len(pty))
  /\ UNCHANGED <<cell, phase, waiting, written, drainVars>>

(* The worker has stored the result.                                         *)
EndProgram ==
  /\ phase = "running" /\ ~waiting /\ ~reading
  /\ phase' = "ended"
  /\ UNCHANGED <<cell, processVars, drainVars>>

-----------------------------------------------------------------------------
(* The kernel.                                                               *)

Smaller(a, b) == IF a < b THEN a ELSE b

(* The number of bytes that a call of get_stdout takes. *)
get_stdout == Smaller(BufferSize, Len(available))

BeginDrain ==
  /\ phase # "idle" /\ ~reading /\ ~failed
  /\ available # <<>> \/ phase = "ended"
  /\ reading' = TRUE /\ buffer' = <<>>
  /\ UNCHANGED <<cell, phase, processVars, hadStdout, sent, drained, torn, late, failed>>

(* A mistake: each piece is put before the others.                           *)
ReadBackwards ==
  LET n == get_stdout
  IN  /\ reading /\ n > 0
      /\ buffer' = SubSeq(available, 1, n) \o buffer
      /\ available' = SubSeq(available, n + 1, Len(available))
      /\ UNCHANGED <<cell, phase, waiting, written, pty, reading, hadStdout, sent,
                     drained, torn, late, failed>>

(* A mistake: the buffer is taken to have been filled.                       *)
ReadFullBuffer ==
  LET n == get_stdout
  IN  /\ reading /\ n > 0
      /\ buffer' = buffer \o SubSeq(available, 1, n) \o [k \in 1 .. BufferSize - n |-> "?"]
      /\ available' = SubSeq(available, n + 1, Len(available))
      /\ UNCHANGED <<cell, phase, waiting, written, pty, reading, hadStdout, sent,
                     drained, torn, late, failed>>

(* One round of the loop of getStdout. *)
Read ==
  LET n == get_stdout
  IN  /\ reading /\ n > 0
      /\ buffer' = buffer \o SubSeq(available, 1, n)
      /\ available' = SubSeq(available, n + 1, Len(available))
      /\ UNCHANGED <<cell, phase, waiting, written, pty, reading, hadStdout, sent,
                     drained, torn, late, failed>>

(* String(data:encoding:) *)
IsUTF8(bytes) ==
  \A k \in DOMAIN bytes :
    /\ bytes[k] = "u1" => k < Len(bytes) /\ bytes[k + 1] = "u2"
    /\ bytes[k] = "u2" => k > 1 /\ bytes[k - 1] = "u1"

Occurs(bytes, item, i, j) == {k \in i .. j - 1 : SubSeq(bytes, k, k + 1) = Bytes(item)}
Least(S) == CHOOSE x \in S : \A y \in S : x <= y

(* A mistake: what follows a clear sequence is taken for text.               *)
RouteTailAsText(bytes) ==
  LET route[i \in 1 .. Len(bytes) + 1, j \in 0 .. Len(bytes)] ==
        LET markers == Occurs(bytes, "marker", i, j)
            clears  == Occurs(bytes, "clear", i, j)
            k       == Least(markers)
            c       == Least(clears)
        IN  IF clears # {}
              THEN route[i, c - 1] \o <<"clear">> \o SubSeq(bytes, c + 2, j)
            ELSE IF markers # {}
              THEN route[i, k - 1] \o <<"serve">> \o route[k + 2, j]
            ELSE SubSeq(bytes, i, j)
  IN  route[1, Len(bytes)]

(* sendStdout: the text before and after the first marker, or else the first *)
(* clear sequence, is routed in turn.                                        *)
Between(bytes, i, j, route) ==
  LET markers == Occurs(bytes, "marker", i, j)
      clears  == Occurs(bytes, "clear", i, j)
      Around(k, done) == route[<<i, k - 1>>] \o <<done>> \o route[<<k + 2, j>>]
  IN  IF markers # {} THEN Around(Least(markers), "serve")
      ELSE IF clears # {} THEN Around(Least(clears), "clear")
      ELSE SubSeq(bytes, i, j)
Route(bytes) ==
  LET route[ends \in (1 .. Len(bytes) + 1) \X (0 .. Len(bytes))] ==
        Between(bytes, ends[1], ends[2], route)
  IN  route[<<1, Len(bytes)>>]

(* What was printed, and where a drain may end without cutting an item.      *)
Pieces(n) == [k \in 1 .. n |-> Bytes(written[k][2])]
Printed == FlattenSeq(Pieces(Len(written)))
Boundaries == {Len(FlattenSeq(Pieces(n))) : n \in 0 .. Len(written)}

(* Nothing is left: getStdout decodes, and getAndSendStdout takes the header *)
(* off the first output of a cell and sends the rest.  The drain after the   *)
(* result is the last one of the cell.                                       *)
EndDrain ==
  LET header == SubSeq(buffer, 1, Smaller(2, Len(buffer))) = Bytes("header")
      text   == IF hadStdout THEN buffer ELSE SubSeq(buffer, 3, Len(buffer))
      routed == Route(text)
  IN  /\ reading /\ available = <<>>
      /\ reading' = FALSE
      /\ drained' = drained + Len(buffer)
      /\ torn' = (torn \/ drained' \notin Boundaries)
      /\ IF ~IsUTF8(buffer) \/ (buffer # <<>> /\ ~hadStdout /\ ~header)
           THEN failed' = TRUE /\ UNCHANGED <<sent, hadStdout, waiting>>
           ELSE /\ sent' = sent \o [k \in DOMAIN routed |-> <<cell, routed[k]>>]
                /\ hadStdout' = (hadStdout \/ buffer # <<>>)
                /\ waiting' = (waiting /\ \A k \in DOMAIN routed : routed[k] # "serve")
                /\ UNCHANGED failed
      /\ IF phase = "ended"
           THEN phase' = "idle" /\ late' = (late \/ pty # <<>>)
           ELSE UNCHANGED <<phase, late>>
      /\ UNCHANGED <<cell, written, pty, available, buffer>>

-----------------------------------------------------------------------------
Next ==
  \/ BeginCell \/ PrintItem \/ Arrive \/ EndProgram
  \/ BeginDrain \/ Read \/ EndDrain

Spec == Init /\ [][Next]_vars

(* What was printed arrives, and the kernel polls. *)
FairSpec ==
  Spec /\ WF_vars(Arrive) /\ WF_vars(BeginDrain) /\ WF_vars(Read) /\ WF_vars(EndDrain)

-----------------------------------------------------------------------------
(* Properties.                                                               *)

(* The types of the variables. *)
TypeOK ==
  /\ cell \in 0 .. MaxCells /\ phase \in {"idle", "running", "ended"}
  /\ waiting \in BOOLEAN /\ reading \in BOOLEAN /\ hadStdout \in BOOLEAN
  /\ written \in Seq((1 .. MaxCells) \X Item)
  /\ pty \in Seq(Byte) /\ available \in Seq(Byte) /\ buffer \in Seq(Byte)
  /\ sent \in Seq((1 .. MaxCells) \X (Byte \cup {"serve", "clear"}))
  /\ torn \in BOOLEAN /\ late \in BOOLEAN /\ failed \in BOOLEAN

(* What an item becomes for the front end, and what the items printed up to  *)
(* the drained byte become.                                                  *)
Shown(item) ==
  CASE item = "header" -> <<>>
    [] item = "marker" -> <<"serve">>
    [] item = "clear"  -> <<"clear">>
    [] OTHER           -> Bytes(item)
ShownIn(c, item) == [j \in DOMAIN Shown(item) |-> <<c, Shown(item)[j]>>]
Expected ==
  FlattenSeq([k \in DOMAIN written |->
                IF Len(FlattenSeq(Pieces(k - 1))) < drained
                  THEN ShownIn(written[k][1], written[k][2]) ELSE <<>>])

(* However the output is cut, as long as no item is: each marker is served   *)
(* and each clear sequence obeyed at its place in the text, the header is    *)
(* not shown, and every byte is shown once, in order, in the cell that       *)
(* printed it (unless it comes after the end of that cell).  Then output     *)
(* never ends the kernel (the decoder at HandleIO.swift:31 and the           *)
(* precondition at 104).                                                     *)
RoutedInOrder == ~torn /\ ~late => ~failed /\ sent = Expected

(* A program that has printed a marker is served, unless the output was cut. *)
MarkersAreServed == waiting ~> (~waiting \/ torn \/ late)

(* Even when items are cut, what was drained before the kernel failed is     *)
(* shown whole and in order: a cut sequence appears as text, none vanishes   *)
(* but headers (one that comes late may be taken for text).                  *)
Raw(x) == IF x = "serve" THEN Bytes("marker") ELSE IF x = "clear" THEN Bytes("clear") ELSE <<x>>
RawBytes(s) == FlattenSeq([k \in DOMAIN s |-> Raw(s[k])])
WithoutHeaders(bytes) ==
  FlattenSeq([k \in DOMAIN bytes |-> IF bytes[k] \in {"h1", "h2"} THEN <<>> ELSE <<bytes[k]>>])
NothingVanishes ==
  ~failed => WithoutHeaders(RawBytes([k \in DOMAIN sent |-> sent[k][2]]))
               = WithoutHeaders(SubSeq(Printed, 1, drained))

(* The invariant: the types, and output that is shown whole.                 *)
RouterInv == TypeOK /\ NothingVanishes
=============================================================================
