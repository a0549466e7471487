--------------------------- MODULE MCFileProgress ---------------------------
(* Two file runs, the worker and the API's request threads.                *)
EXTENDS FileProgress, TLC

CONSTANTS f1, f2, w, c1, c2

Symmetry == Permutations(Files)
=============================================================================
