---------------------------- MODULE MCProcTable -----------------------------
(* ProcTable for TLC, with its refinement of FifoLevels.                   *)
EXTENDS ProcTable, Sequences

\* Level l from its last process back to its head, at most NPROC long.
QueueOf(l) ==
  LET before == [p \in Links |-> IF p = NULL THEN NULL ELSE levels.back[p]]
      walk[n \in 1 .. NPROC] == IF n = 1 THEN levels.last[l] ELSE before[walk[n - 1]]
  IN SelectSeq(walk, LAMBDA p : p # NULL)

Fifo == INSTANCE FifoLevels
          WITH queue <- [l \in Level |-> QueueOf(l)],
               running <- {p \in Procs : state[p] = "RUNNING"}

\* The linked lists and the scheduler implement first-in first-out queues
\* served by priority (enqueue, dequeue, removefromlevel, scheduler, aging).
ServesFifo == Fifo!Spec
=============================================================================
