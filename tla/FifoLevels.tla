----------------------------- MODULE FifoLevels -----------------------------
(***************************************************************************)
(* What the scheduler promises: PLEVELS first-in first-out queues of       *)
(* distinct processes, served in the order of their level.                 *)
(***************************************************************************)
EXTENDS Integers, Sequences, SequencesExt

CONSTANTS Procs, PLEVELS, NCPU

VARIABLES queue,    \* queue[l]: the processes waiting at level l, next first
          running   \* the processes that have a CPU

Levels == 0 .. (PLEVELS - 1)
Queued == UNION {ToSet(queue[l]) : l \in Levels}

Init == /\ \E p \in Procs, l \in Levels :
             queue = [k \in Levels |-> IF k = l THEN <<p>> ELSE <<>>]
        /\ running = {}

\* A process that is not waiting joins the end of a queue, giving up its CPU
\* if it has one.
Join(p, l) == /\ queue' = [queue EXCEPT ![l] = Append(@, p)]
              /\ running' = running \ {p}

\* A free CPU takes the first process of the first queue that is not empty.
Run(l) == /\ queue[l] # <<>>
          /\ \A k \in Levels : k < l => queue[k] = <<>>
          /\ Cardinality(running) < NCPU
          /\ queue' = [queue EXCEPT ![l] = Tail(@)]
          /\ running' = running \cup {Head(queue[l])}

\* A waiting process moves to the end of the queue above.
Raise(p, l) == /\ queue' = [queue EXCEPT ![l] = SelectSeq(@, LAMBDA q : q # p),
                                         ![l - 1] = Append(@, p)]
               /\ UNCHANGED running

\* A process that runs goes to sleep or exits.
Stop(p) == /\ running' = running \ {p}
           /\ UNCHANGED queue

Step == \/ \E p \in running : Stop(p)
        \/ \E l \in Levels : Run(l)
        \/ \E l \in Levels \ {0} : \E p \in ToSet(queue[l]) : Raise(p, l)
        \/ \E p \in Procs \ Queued, l \in Levels : Join(p, l)

\* Said first that something changes, TLC looks no further at a stutter.
Next == <<queue, running>>' # <<queue, running>> /\ Step

Spec == Init /\ [][Next]_<<queue, running>>
=============================================================================
