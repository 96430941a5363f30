----------------------------- MODULE Semaphores -----------------------------
(***************************************************************************)
(* The kernel semaphores (semaphore.c): the system's table, the            *)
(* descriptors of every process, and how fork() and exit() treat them.     *)
(*                                                                         *)
(* A critical section of sems.lock is one action, and so is wakeup() after *)
(* semup() has released it.  semattach() and semdetach() change only the   *)
(* caller's descriptors, so they belong to the action of the critical      *)
(* section they follow.                                                    *)
(*                                                                         *)
(* The keys that processes pass are those of the table, and -1.            *)
(***************************************************************************)
EXTENDS Integers, FiniteSets, FiniteSetsExt

CONSTANTS Procs,       \* slots of the process table
          INITPROC,    \* the first process, which never exits
          NOPROC,
          SYSMAXSEM,   \* semaphores of the system
          PROCMAXSEM,  \* descriptors of a process
          MAXVALUE,    \* bound: no semup() beyond this value
          MAXREFS      \* bound: no new reference from this count on

ASSUME SemAssumption ==
  /\ INITPROC \in Procs
  /\ NOPROC \notin Procs
  /\ IsFiniteSet(Procs)
  /\ SYSMAXSEM \in Nat \ {0}
  /\ PROCMAXSEM \in Nat \ {0}
  /\ MAXVALUE \in Nat
  /\ MAXREFS \in Nat

Sems == 0 .. (SYSMAXSEM - 1)
Descs == 0 .. (PROCMAXSEM - 1)

VARIABLES
  value, references, used,   \* sems
  semids, semcount,          \* of struct proc
  pc,      \* unused, run; sleep, woken: in semdown; up: in semup; copy: in fork
  key,     \* the semaphore that sleep, woken and up are about
  child,   \* the process a fork() is building
  next     \* the descriptor semcopy() copies next

sems == <<value, references, used>>
descs == <<semids, semcount>>
forking == <<child, next>>
vars == <<value, references, used, semids, semcount, pc, key, child, next>>

TypeOK ==
  /\ value \in [Sems -> 0 .. MAXVALUE]
  /\ references \in [Sems -> Nat]
  /\ used \in Int
  /\ semids \in [Procs -> [Descs -> Sems \cup {-1}]]
  /\ semcount \in [Procs -> 0 .. PROCMAXSEM]
  /\ pc \in [Procs -> {"unused", "embryo", "run", "sleep", "woken", "up", "copy"}]
  /\ key \in [Procs -> Sems \cup {-1}]
  /\ child \in [Procs -> Procs \cup {NOPROC}]
  /\ next \in [Procs -> 0 .. PROCMAXSEM]

Init ==
  /\ value = [s \in Sems |-> 0]
  /\ references = [s \in Sems |-> 0]
  /\ used = 0
  /\ semids = [p \in Procs |-> [i \in Descs |-> -1]]
  /\ semcount = [p \in Procs |-> 0]
  /\ pc = [p \in Procs |-> IF p = INITPROC THEN "run" ELSE "unused"]
  /\ key = [p \in Procs |-> -1]
  /\ child = [p \in Procs |-> NOPROC]
  /\ next = [p \in Procs |-> 0]

Goto(p, l) == pc' = [pc EXCEPT ![p] = l]

-----------------------------------------------------------------------------
(* The table and the descriptors.                                          *)

isfree(s) == references[s] = 0

FreeSems == {s \in Sems : isfree(s)}
semcreate == IF FreeSems # {} THEN Min(FreeSems) ELSE -1

FreeDescs(p) == {i \in Descs : semids[p][i] = -1}
DescsOf(p, s) == {i \in Descs : semids[p][i] = s}

\* Sets semids and semcount; without a free descriptor it changes nothing.
semattach(p, s) ==
  IF FreeDescs(p) # {}
    THEN /\ semids' = [semids EXCEPT ![p][Min(FreeDescs(p))] = s]
         /\ semcount' = [semcount EXCEPT ![p] = @ + 1]
    ELSE UNCHANGED descs

semdetach(p, s) ==
  /\ semids' = [semids EXCEPT ![p][Min(DescsOf(p, s))] = -1]
  /\ semcount' = [semcount EXCEPT ![p] = @ - 1]

\* The test that semfree, semdown and semup make of a key.
Valid(p, k) == ~isfree(k) /\ DescsOf(p, k) # {}

-----------------------------------------------------------------------------
(* semget() and semfree().                                                 *)

\* semget() goes on: neither ENSEM, ENSEMSYS nor EINVAL.
SemgetValid(p, k) ==
  /\ semcount[p] <= PROCMAXSEM
  /\ used <= SYSMAXSEM
  /\ k \in Sems => ~isfree(k)

\* Mutant: used is not counted.
Used_Not(s) == used

\* semcreate() counts a new semaphore, and semget() counts it again.
Used(s) == used + (IF s = -1 THEN 1 ELSE 2)

semget(p, k, v) ==
  /\ pc[p] = "run"
  /\ \/ ~SemgetValid(p, k) /\ UNCHANGED <<sems, descs>>
     \/ /\ SemgetValid(p, k) /\ k = -1
        /\ value' = [value EXCEPT ![semcreate] = v]
        /\ references' = [references EXCEPT ![semcreate] = 1]
        /\ used' = Used(semcreate)
        /\ semattach(p, semcreate)
     \/ /\ SemgetValid(p, k) /\ k \in Sems
        /\ references[k] < MAXREFS
        /\ references' = [references EXCEPT ![k] = @ + 1]
        /\ semattach(p, k)
        /\ UNCHANGED <<value, used>>
  /\ UNCHANGED <<pc, key, forking>>

\* The last reference frees the semaphore.
semfree(p, k) ==
  /\ pc[p] = "run" /\ Valid(p, k)
  /\ semdetach(p, k)
  /\ references' = [references EXCEPT ![k] = @ - 1]
  /\ used' = IF references[k] = 1 THEN used - 1 ELSE used
  /\ UNCHANGED <<value, pc, key, forking>>

-----------------------------------------------------------------------------
(* semdown() and semup().                                                  *)

\* Once round the loop of semdown(), with sems.lock.
Down(p, k) ==
  /\ IF value[k] > 0
       THEN /\ value' = [value EXCEPT ![k] = @ - 1]
            /\ Goto(p, "run")
            /\ key' = [key EXCEPT ![p] = -1]
       ELSE /\ Goto(p, "sleep")
            /\ key' = [key EXCEPT ![p] = k]
            /\ UNCHANGED value
  /\ UNCHANGED <<references, used, descs, forking>>

semdown(p, k) == pc[p] = "run" /\ Valid(p, k) /\ Down(p, k)
semdown_again(p) == pc[p] = "woken" /\ Down(p, key[p])

\* Mutant: the sleepers are told only when the value leaves 1.
MustWake_Late(v) == v = 1

MustWake(v) == v = 0

semup(p, k) ==
  /\ pc[p] = "run" /\ Valid(p, k)
  /\ value[k] < MAXVALUE
  /\ value' = [value EXCEPT ![k] = @ + 1]
  /\ IF MustWake(value[k])
       THEN Goto(p, "up") /\ key' = [key EXCEPT ![p] = k]
       ELSE UNCHANGED <<pc, key>>
  /\ UNCHANGED <<references, used, descs, forking>>

\* wakeup(s) at the end of semup(), after the lock is released.
wakeup(p) ==
  /\ pc[p] = "up"
  /\ pc' = [q \in Procs |->
              IF q = p THEN "run"
              ELSE IF pc[q] = "sleep" /\ key[q] = key[p] THEN "woken" ELSE pc[q]]
  /\ key' = [key EXCEPT ![p] = -1]
  /\ UNCHANGED <<sems, descs, forking>>

\* kill() of a process that sleeps in semdown(), which does not look at killed.
kill(p) ==
  /\ pc[p] = "sleep" /\ Goto(p, "woken")
  /\ UNCHANGED <<sems, descs, key, forking>>

-----------------------------------------------------------------------------
(* fork() and exit().                                                      *)

\* allocproc() clears the descriptors of the child.
fork(p, c) ==
  /\ pc[p] = "run" /\ pc[c] = "unused"
  /\ \A s \in Sems : references[s] < MAXREFS
  /\ pc' = [pc EXCEPT ![p] = "copy", ![c] = "embryo"]
  /\ child' = [child EXCEPT ![p] = c]
  /\ next' = [next EXCEPT ![p] = 0]
  /\ semids' = [semids EXCEPT ![c] = [i \in Descs |-> -1]]
  /\ semcount' = [semcount EXCEPT ![c] = 0]
  /\ UNCHANGED <<sems, key>>

\* Mutant: the child's descriptor is not counted.
Copied_Uncounted(s) == references

Copied(s) == [references EXCEPT ![s] = @ + 1]

\* One iteration of semcopy(); after the last, the child runs.
semcopy(p) ==
  /\ pc[p] = "copy"
  /\ \/ /\ next[p] < PROCMAXSEM
        /\ LET s == semids[p][next[p]]
           IN /\ semids' = [semids EXCEPT ![child[p]][next[p]] = s]
              /\ references' = Copied(s)
        /\ next' = [next EXCEPT ![p] = @ + 1]
        /\ UNCHANGED <<semcount, pc, child>>
     \/ /\ next[p] = PROCMAXSEM
        /\ semcount' = [semcount EXCEPT ![child[p]] = semcount[p]]
        /\ pc' = [pc EXCEPT ![p] = "run", ![child[p]] = "run"]
        /\ child' = [child EXCEPT ![p] = NOPROC]
        /\ next' = [next EXCEPT ![p] = 0]
        /\ UNCHANGED <<semids, references>>
  /\ UNCHANGED <<value, used, key>>

\* exit() and the wait() for it leave the semaphores as they are.
exit(p) ==
  /\ pc[p] = "run" /\ p # INITPROC
  /\ Goto(p, "unused")
  /\ UNCHANGED <<sems, descs, key, forking>>

Next ==
  \E p \in Procs :
    \/ \E k \in Sems \cup {-1}, v \in 0 .. MAXVALUE : semget(p, k, v)
    \/ \E k \in Sems : semfree(p, k) \/ semdown(p, k) \/ semup(p, k)
    \/ semdown_again(p) \/ wakeup(p) \/ kill(p)
    \/ semcopy(p) \/ exit(p)
    \/ \E c \in Procs : fork(p, c)

Spec == Init /\ [][Next]_vars

-----------------------------------------------------------------------------
(* Safety.                                                                 *)

Alive == {p \in Procs : pc[p] # "unused"}
Attachments(s) == {d \in Alive \X Descs : semids[d[1]][d[2]] = s}

\* Types are kept, and every descriptor of a live process is counted, those of a child under
\* construction included, so that semcreate() never hands out a semaphore that
\* some process still uses (semget, semfree, semcopy).
AttachedCounted ==
  /\ TypeOK
  /\ \A s \in Sems : Cardinality(Attachments(s)) <= references[s]

\* No lost wakeup: while a process sleeps on a semaphore that could be taken
\* down, the semup() that raised it has not yet called wakeup() (semdown, semup).
NoLostWakeup ==
  \A s \in Sems : value[s] > 0 =>
    \/ \A p \in Procs : ~(pc[p] = "sleep" /\ key[p] = s)
    \/ \E q \in Procs : pc[q] = "up" /\ key[q] = s

\* Whenever the test of sems.used lets semget() go on, semcreate() finds a free
\* semaphore: semset() is never called for -1.
CreateSucceeds == used <= SYSMAXSEM => FreeSems # {}

-----------------------------------------------------------------------------
(* Liveness: a process in the kernel goes on.                              *)

FairSpec == Spec /\ \A p \in Procs :
  WF_vars(wakeup(p)) /\ WF_vars(semdown_again(p)) /\ WF_vars(semcopy(p))

\* A process that sleeps on a semaphore with a positive value is woken, or the
\* value is taken by others (semdown, semup).
SleeperServed ==
  \A p \in Procs, s \in Sems :
    (pc[p] = "sleep" /\ key[p] = s /\ value[s] > 0) ~> (pc[p] # "sleep" \/ value[s] = 0)
=============================================================================
