----------------------------- MODULE MCCowMemory ----------------------------
(***************************************************************************)
(* Instances of CowMemory for TLC.  Frames are alike, and so are the       *)
(* processes other than the first: no action or property tells two of them *)
(* apart.                                                                  *)
(***************************************************************************)
EXTENDS CowMemory, TLC

Alike == Permutations(Frames) \cup Permutations(Procs \ {INITPROC})
=============================================================================
