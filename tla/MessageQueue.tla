---------------------------- MODULE MessageQueue ----------------------------
(* What the two processes expect of a pipe file: messages arrive whole, in  *)
(* the order in which they were sent, each one once; a reader gets all the  *)
(* messages that are there.                                                 *)
EXTENDS Sequences

CONSTANT Message

VARIABLES sent, received

vars == <<sent, received>>

Init == sent = <<>> /\ received = <<>>

Send == /\ \E message \in Message : sent' = Append(sent, message)
        /\ UNCHANGED received

Receive == /\ received # sent
           /\ received' = sent
           /\ UNCHANGED sent

Next == Send \/ Receive

Spec == Init /\ [][Next]_vars

(* A reader that polls gets to every message.                               *)
FairSpec == Spec /\ WF_vars(Receive)
=============================================================================
