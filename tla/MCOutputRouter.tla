---------------------------- MODULE MCOutputRouter ----------------------------
(* The instance of OutputRouter that TLC checks: two cells, and a buffer of  *)
(* three bytes, so that a drain takes several reads and a read can end       *)
(* between the bytes of an item.                                             *)
EXTENDS OutputRouter
=============================================================================
