---- MODULE MCPipeFraming ----
(* The instance of PipeFraming that TLC checks: frames of three to six     *)
(* bytes and a scratch buffer of three, so that a read may end at the end   *)
(* of a frame, in a header and in a body.                                   *)
EXTENDS PipeFraming
====
