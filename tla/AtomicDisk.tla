----------------------------- MODULE AtomicDisk -----------------------------
(***************************************************************************)
(* What the log promises: the disk moves from one state between file       *)
(* system calls to a later one, at once; a crash loses what was not        *)
(* committed, all of it, and nothing else.                                 *)
(***************************************************************************)
CONSTANTS Procs, Blocks, Values

VARIABLES durable,   \* the contents that survive a crash
          current,   \* the contents that file system calls see
          active     \* the processes inside a file system call

Init == /\ durable \in [Blocks -> Values]
        /\ current = durable
        /\ active = {}

Begin(p) == /\ active' = active \cup {p}
            /\ UNCHANGED <<durable, current>>

Write(p, b, v) == /\ p \in active
                  /\ current' = [current EXCEPT ![b] = v]
                  /\ UNCHANGED <<durable, active>>

End(p) == /\ active' = active \ {p}
          /\ UNCHANGED <<durable, current>>

\* Only between calls: no part of a call becomes durable without the rest.
Commit == /\ active = {}
          /\ durable' = current
          /\ UNCHANGED <<current, active>>

Crash == /\ current' = durable
         /\ active' = {}
         /\ UNCHANGED durable

Next == \/ \E p \in Procs : Begin(p) \/ End(p)
        \/ \E p \in Procs, b \in Blocks, v \in Values : Write(p, b, v)
        \/ Commit \/ Crash

Spec == Init /\ [][Next]_<<durable, current, active>>
=============================================================================
