------------------------------ MODULE MCFrontEnd ------------------------------
(* The instance of FrontEnd that TLC checks: two requests (the reply to the  *)
(* first can come during the second), a request and a command in either      *)
(* order, or two commands; two lines and two pieces of output, so that there *)
(* is an order.                                                              *)
EXTENDS FrontEnd
=============================================================================
