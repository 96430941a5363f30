------------------------------- MODULE Levels -------------------------------
(***************************************************************************)
(* The priority levels of the scheduler (proc.c): PLEVELS doubly linked    *)
(* lists threaded through the process table.  enqueue() inserts at the     *)
(* head, dequeue() takes from the last, so each level is a FIFO queue; p's *)
(* next is the process that runs before it.  The operators are the C       *)
(* functions as functions from lists to lists; they must be called with    *)
(* ptable.lock held, so one call is one atomic change.                     *)
(***************************************************************************)
EXTENDS Integers

CONSTANTS NPROC,         \* slots of the process table
          PLEVELS,       \* priority levels; level 0 is the highest priority
          DEFAULTPLEVEL  \* the level a new process starts at

ASSUME SizesAssumption ==
  /\ NPROC \in Nat \ {0}
  /\ PLEVELS \in Nat \ {0}
  /\ DEFAULTPLEVEL \in 0 .. (PLEVELS - 1)

Procs == 1 .. NPROC
NULL == 0
Links == Procs \cup {NULL}
Level == 0 .. (PLEVELS - 1)

\* struct level levels[PLEVELS], and the next and back of every struct proc.
Lists == [head : [Level -> Links], last : [Level -> Links],
          next : [Procs -> Links], back : [Procs -> Links]]

EmptyLists == [head |-> [l \in Level |-> NULL], last |-> [l \in Level |-> NULL],
               next |-> [p \in Procs |-> NULL], back |-> [p \in Procs |-> NULL]]

\* Mutant: the old head is not linked back to the process put before it.
enqueue_NoBack(q, p, l) ==
  [head |-> [q.head EXCEPT ![l] = p],
   last |-> IF q.head[l] # NULL THEN q.last ELSE [q.last EXCEPT ![l] = p],
   next |-> [q.next EXCEPT ![p] = q.head[l]],
   back |-> [q.back EXCEPT ![p] = NULL]]

\* enqueue(p) with p->nice = l: insert at the head of the level.
enqueue(q, p, l) ==
  [head |-> [q.head EXCEPT ![l] = p],
   last |-> IF q.head[l] # NULL THEN q.last ELSE [q.last EXCEPT ![l] = p],
   next |-> [q.next EXCEPT ![p] = q.head[l]],
   back |-> IF q.head[l] # NULL
              THEN [q.back EXCEPT ![p] = NULL, ![q.head[l]] = p]
              ELSE [q.back EXCEPT ![p] = NULL]]

\* Mutant: the process that is taken stays queued.
dequeue_Keep(q, l) == q

\* dequeue(l): unlink the last process of a level that is not empty.
dequeue(q, l) ==
  LET p == q.last[l]
      b == q.back[p]
  IN [head |-> IF b = NULL THEN [q.head EXCEPT ![l] = NULL] ELSE q.head,
      last |-> [q.last EXCEPT ![l] = b],
      next |-> IF b = NULL THEN [q.next EXCEPT ![p] = NULL]
                           ELSE [q.next EXCEPT ![b] = NULL, ![p] = NULL],
      back |-> [q.back EXCEPT ![p] = NULL]]

\* Mutant: removal from the middle forgets the back link of the next process.
removefromlevel_OneSided(q, p, l) ==
  LET b == q.back[p]
      n == q.next[p]
  IN [head |-> IF b = NULL THEN [q.head EXCEPT ![l] = n] ELSE q.head,
      last |-> IF n = NULL THEN [q.last EXCEPT ![l] = b] ELSE q.last,
      next |-> IF b = NULL THEN [q.next EXCEPT ![p] = NULL]
                           ELSE [q.next EXCEPT ![b] = n, ![p] = NULL],
      back |-> [q.back EXCEPT ![p] = NULL]]

\* removefromlevel(p, l): unlink p, wherever it stands; the code's four cases
\* are b and n NULL or not.
removefromlevel(q, p, l) ==
  LET b == q.back[p]
      n == q.next[p]
  IN [head |-> IF b = NULL THEN [q.head EXCEPT ![l] = n] ELSE q.head,
      last |-> IF n = NULL THEN [q.last EXCEPT ![l] = b] ELSE q.last,
      next |-> IF b = NULL THEN [q.next EXCEPT ![p] = NULL]
                           ELSE [q.next EXCEPT ![b] = n, ![p] = NULL],
      back |-> IF n = NULL THEN [q.back EXCEPT ![p] = NULL]
                           ELSE [q.back EXCEPT ![n] = b, ![p] = NULL]]

isempty(q, l) == q.head[l] = NULL

decreasepriority(n) == IF n < PLEVELS - 1 THEN n + 1 ELSE n

\* Mutant: the first level is never reached again.
increasepriority_Short(n) == IF n > 1 THEN n - 1 ELSE n

increasepriority(n) == IF n > 0 THEN n - 1 ELSE n

-----------------------------------------------------------------------------
(* What the lists must look like when exactly the processes of S are       *)
(* queued, each at level lv[p].                                            *)

\* Neighbours point at each other and share a level; what is not queued has
\* no links; the ends of a level are the processes without a neighbour.
Linked(q, S, lv) ==
  /\ \A p \in Procs \ S : q.next[p] = NULL /\ q.back[p] = NULL
  /\ \A p \in S :
       /\ q.next[p] = NULL => q.last[lv[p]] = p
       /\ q.back[p] = NULL => q.head[lv[p]] = p
       /\ q.next[p] # NULL =>
            /\ q.next[p] \in S
            /\ lv[q.next[p]] = lv[p]
            /\ q.back[q.next[p]] = p
       /\ q.back[p] # NULL =>
            /\ q.back[p] \in S
            /\ lv[q.back[p]] = lv[p]
            /\ q.next[q.back[p]] = p
  /\ \A l \in Level :
       /\ q.head[l] = NULL <=> q.last[l] = NULL
       /\ q.head[l] # NULL =>
            q.head[l] \in S /\ lv[q.head[l]] = l /\ q.back[q.head[l]] = NULL
       /\ q.last[l] # NULL =>
            q.last[l] \in S /\ lv[q.last[l]] = l /\ q.next[q.last[l]] = NULL

\* No cycle: every nonempty set of queued processes has one whose next is
\* outside it.
Acyclic(q, S) ==
  \A T \in SUBSET S : T # {} => \E p \in T : q.next[p] \notin T

WellFormed(q, S, lv) == Linked(q, S, lv) /\ Acyclic(q, S)
=============================================================================
