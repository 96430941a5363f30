---------------------------- MODULE PrivateMemory ---------------------------
(***************************************************************************)
(* What fork() promises of memory: every process has pages of its own, and *)
(* a child starts with a copy of its parent's.                             *)
(***************************************************************************)
EXTENDS Integers

CONSTANTS Procs, Pages, Values, ZERO, NOPAGE

VARIABLE mem   \* mem[p][g]: what process p reads in its page g

NoPages == [g \in Pages |-> NOPAGE]

Init == \E p \in Procs : mem = [q \in Procs |-> IF q = p THEN [NoPages EXCEPT ![0] = ZERO]
                                                        ELSE NoPages]

Store(p, g, v) == mem[p][g] # NOPAGE /\ mem' = [mem EXCEPT ![p][g] = v]
Grow(p, g) == mem[p][g] = NOPAGE /\ mem' = [mem EXCEPT ![p][g] = ZERO]
Shrink(p, g) == mem' = [mem EXCEPT ![p][g] = NOPAGE]
Fork(p, c) == mem[c] = NoPages /\ mem' = [mem EXCEPT ![c] = mem[p]]
Exec(p, n, v) == mem' = [mem EXCEPT ![p] = [g \in Pages |-> IF g < n THEN v ELSE NOPAGE]]
Exit(p) == mem' = [mem EXCEPT ![p] = NoPages]

Next == \E p \in Procs :
          \/ \E g \in Pages : Grow(p, g) \/ Shrink(p, g) \/ \E v \in Values : Store(p, g, v)
          \/ \E c \in Procs : Fork(p, c)
          \/ \E g \in Pages, v \in Values : Exec(p, g + 1, v)
          \/ Exit(p)

Spec == Init /\ [][Next]_mem
=============================================================================
