------------------------------ MODULE MCConsole ------------------------------
(***************************************************************************)
(* Two CPUs: the process of the one that takes the interrupts writes to    *)
(* the console, that of the other reads from it and sleeps.                *)
(***************************************************************************)
EXTENDS Console, TLC

CONSTANTS c0, c1

MCOps == c0 :> {"write"} @@ c1 :> {"read", "sleep"}
=============================================================================
