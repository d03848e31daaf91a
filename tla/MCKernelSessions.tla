--------------------------- MODULE MCKernelSessions ---------------------------
(* The instance of KernelSessions that TLC checks.  Each initSwift and each  *)
(* cell take a number: with six of them, and three processes, one of the     *)
(* two kernels may retry its initialisation, and the second runs a cell      *)
(* while a process of the first still polls.                                 *)
EXTENDS KernelSessions
=============================================================================
