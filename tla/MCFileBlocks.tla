---------------------------- MODULE MCFileBlocks ----------------------------
(***************************************************************************)
(* A small file system for model checking FileBlocks.                      *)
(***************************************************************************)
EXTENDS FileBlocks, TLC

\* The root directory has one byte of entries, and mkfs has one file, which
\* needs an indirect block.
MCImage == <<<<1>>, <<2, 2, 2>>>>

MCByte == <<3, 4>>

Alike == Permutations(Procs)
=============================================================================
