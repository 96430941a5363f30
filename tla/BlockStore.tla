----------------------------- MODULE BlockStore -----------------------------
(***************************************************************************)
(* What the buffer cache promises to the file system: bread() of a block   *)
(* returns what was last put into it, the disk changes only when a block   *)
(* is written, and then to what bread() returns, and a block that the log  *)
(* has marked stays marked until it is written.                            *)
(***************************************************************************)
EXTENDS Integers

CONSTANTS Blocks, Values, ZERO

VARIABLES mem,      \* what bread() of every block returns
          disk,     \* what is on disk
          pinned    \* blocks that are marked B_DIRTY

Init ==
  /\ mem = [k \in Blocks |-> ZERO]
  /\ disk = [k \in Blocks |-> ZERO]
  /\ pinned = {}

Modify(k, v) ==
  /\ mem' = [mem EXCEPT ![k] = v]
  /\ pinned' = pinned \cup {k}
  /\ UNCHANGED disk

Written(k) ==
  /\ k \in pinned
  /\ disk' = [disk EXCEPT ![k] = mem[k]]
  /\ pinned' = pinned \ {k}
  /\ UNCHANGED mem

Next == \E k \in Blocks : Written(k) \/ \E v \in Values : Modify(k, v)

Spec == Init /\ [][Next]_<<mem, disk, pinned>>
=============================================================================
