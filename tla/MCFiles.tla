------------------------------ MODULE MCFiles ------------------------------
(* Files with a buffer that is longer than a pipe.                         *)
EXTENDS Files, TLC

CONSTANTS a, b

MCWrites == {<<a, b, b>>}

Alike == Permutations(Procs)
=============================================================================
