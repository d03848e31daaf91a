---------------------------- MODULE MCLLDBProcess ----------------------------
(* The instance of LLDBProcess that TLC checks: names whose lengths leave    *)
(* every remainder by four, numbers that need two bytes, frames of a cell,   *)
(* of a package, of another directory, of a file that is gone, of generated  *)
(* code and of a library; messages of traps with and without a place.        *)
EXTENDS LLDBProcess

In(f, file, directory, exists, line) ==
  [spec |-> TRUE, exists |-> exists, function |-> f, file |-> file,
   directory |-> directory, line |-> line, column |-> 7]

MCFrame ==
  {In(<<97>>, <<98, 98>>, <<>>, FALSE, 300),
   In(<<>>, <<98, 98, 98>>, <<80, 99, 99, 99, 99>>, TRUE, 1),
   In(<<97, 97, 97, 97, 97>>, <<98>>, <<99, 99>>, TRUE, 65537),
   In(<<97, 97>>, <<98, 98, 98, 98>>, <<99>>, FALSE, 2),
   In(<<97, 97, 97>>, Generated, <<99>>, TRUE, 0),
   [In(<<97>>, <<98>>, <<>>, FALSE, 0) EXCEPT !.spec = FALSE]}

MCText == {<<>>, <<10>>, <<97, 13>>, <<97, 10, 10>>, <<97, 98>>}

(* "_/b:1: a", "m/b:1: a", "_/b:1:", "_/b:1: ", "_/b:a: a", "a" *)
MCErrorLine ==
  {<<95, 47, 98, 58, 49, 58, 32, 97>>, <<109, 47, 98, 58, 49, 58, 32, 97>>,
   <<95, 47, 98, 58, 49, 58>>, <<95, 47, 98, 58, 49, 58, 32>>,
   <<95, 47, 98, 58, 97, 58, 32, 97>>, <<97>>}
=============================================================================
