----------------------------- MODULE CellService -----------------------------
(* What the Jupyter front end is promised about one notebook session.       *)
(*                                                                          *)
(* A request is accepted when no other one is in progress.  While it is in  *)
(* progress the user's program produces items of output (texts, the marker  *)
(* of a rich message, the header of a program that compiled); the kernel    *)
(* delivers them in the order in which they were produced, each one once,   *)
(* and it answers the request only after it has delivered everything.       *)
(*                                                                          *)
(* The module knows nothing of threads, locks, LLDB or pipes: CellExecution *)
(* is the program that implements it.                                       *)
EXTENDS Naturals, Sequences

CONSTANT Item             \* what a program can put on its standard output

VARIABLES busy,           \* a request is in progress
          produced,       \* the output of the request in progress
          delivered       \* the part of it that reached the front end

vars == <<busy, produced, delivered>>

Init == /\ busy = FALSE
        /\ produced = <<>>
        /\ delivered = <<>>

Accept == /\ ~busy
          /\ busy' = TRUE
          /\ produced' = <<>>
          /\ delivered' = <<>>

Produce == /\ busy
           /\ \E item \in Item : produced' = Append(produced, item)
           /\ UNCHANGED <<busy, delivered>>

Deliver == /\ busy
           /\ Len(delivered) < Len(produced)
           /\ delivered' = Append(delivered, produced[Len(delivered) + 1])
           /\ UNCHANGED <<busy, produced>>

Answer == /\ busy
          /\ delivered = produced
          /\ busy' = FALSE
          /\ UNCHANGED <<produced, delivered>>

Next == Accept \/ Produce \/ Deliver \/ Answer

Spec == Init /\ [][Next]_vars

(* Output is shown, and a request whose program has stopped producing is    *)
(* answered.                                                                *)
Fairness == WF_vars(Deliver) /\ WF_vars(Answer)

FairSpec == Spec /\ Fairness
==============================================================================
