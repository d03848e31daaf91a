--------------------------- MODULE MCCellExecution ---------------------------
(* CellExecution for model checking: the texts are interchangeable.         *)
EXTENDS CellExecution, TLC

Symmetry == Permutations(Text)
=============================================================================
