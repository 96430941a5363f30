----------------------------- MODULE ProcTable ------------------------------
(***************************************************************************)
(* The process table and the multilevel feedback scheduler (proc.c), with  *)
(* the part of trap() that drives it (trap.c): system call entry and       *)
(* return, the clock tick, aging and the quantum.                          *)
(*                                                                         *)
(* A critical section of ptable.lock is one action, except where it loops  *)
(* over the table: wakeup1() and aging() take one action per process, with *)
(* lock held by the CPU.  sched() hands the lock to the scheduler, which   *)
(* releases it, so giving up the CPU ends the action with the CPU idle.    *)
(* Fields that are used without the lock (killed in trap(), ticks_count,   *)
(* the state of a failed fork's child) change in actions that do not wait  *)
(* for it.                                                                 *)
(***************************************************************************)
EXTENDS Levels, FiniteSets, FiniteSetsExt

CONSTANTS NCPU,       \* CPUs are 0 .. NCPU - 1
          QUANTUM,    \* ticks a process may run before it must yield
          AGINGSTEP,  \* clock ticks between two runs of aging()
          AGELIMIT,   \* age from which aging() raises a process
          Chans,      \* what sleep() is called on besides a proc (wait())
          TICKS       \* &ticks, the channel of sys_sleep()

ASSUME TimesAssumption ==
  /\ NCPU \in Nat \ {0}
  /\ QUANTUM \in Nat \ {0}
  /\ AGINGSTEP \in Nat \ {0}
  /\ AGELIMIT \in Nat \ {0}
  /\ TICKS \in Chans
  /\ Chans \cap Links = {}

CPUs == 0 .. (NCPU - 1)
NOCPU == -1
initproc == 1

VARIABLES
  state, nice, age, ticks_count, chan, parent, killed,  \* struct proc
  pid,       \* pid[p]: whether the slot's pid field is not 0
  kpc,       \* where each process is in the kernel, kept while it is off CPU
  np,        \* the child a process in fork() is building
  levels,    \* the priority levels: Lists
  cproc,     \* cpu->proc
  pc,        \* where each CPU is
  lock,      \* the CPU that holds ptable.lock
  wchan,     \* wakeup1's argument
  cursor,    \* aging's loop: level i, process p
  aging_ticks

fields == <<age, ticks_count, parent, killed, pid, np>>
timer == <<cursor, aging_ticks>>
vars == <<state, nice, age, ticks_count, chan, parent, killed, pid, kpc, np,
          levels, cproc, pc, lock, wchan, cursor, aging_ticks>>

ProcState == {"UNUSED", "EMBRYO", "SLEEPING", "RUNNABLE", "RUNNING", "ZOMBIE"}

\* user: in user space; trap: preempted there; kern: in a system call; fork,
\* wait, exit: inside that function.
KernelPc == {"user", "trap", "kern", "fork", "wait", "exit"}

\* run: the process cproc[c], or the scheduler loop.  With ptable.lock held:
\* wait (scanning again after sleep), wakeup, tickwake, exitparent, exitinit
\* (four uses of wakeup1), reparent, zombie, aging.  In the timer interrupt:
\* age (about to call aging), tick (about to call wakeup), quantum.
WakePc == {"wakeup", "tickwake", "exitparent", "exitinit"}
LockPc == WakePc \cup {"wait", "reparent", "zombie", "aging"}
CpuPc == LockPc \cup {"run", "age", "tick", "quantum", "panic"}

TypeOK ==
  /\ state \in [Procs -> ProcState]
  /\ nice \in [Procs -> Level]
  /\ age \in [Procs -> 0 .. (AGELIMIT - 1)]
  /\ ticks_count \in [Procs -> 0 .. (QUANTUM - 1)]
  /\ chan \in [Procs -> Chans \cup Links]
  /\ parent \in [Procs -> Links]
  /\ killed \in [Procs -> BOOLEAN]
  /\ pid \in [Procs -> BOOLEAN]
  /\ kpc \in [Procs -> KernelPc]
  /\ np \in [Procs -> Links]
  /\ levels \in Lists
  /\ cproc \in [CPUs -> Links]
  /\ pc \in [CPUs -> CpuPc]
  /\ lock \in CPUs \cup {NOCPU}
  /\ wchan \in Chans \cup Links
  /\ cursor \in [i : 1 .. PLEVELS, p : Links]
  /\ aging_ticks \in 0 .. AGINGSTEP

Runnable == {p \in Procs : state[p] = "RUNNABLE"}

\* userinit() has made initproc RUNNABLE; every CPU enters scheduler().
Init ==
  /\ state = [p \in Procs |-> IF p = initproc THEN "RUNNABLE" ELSE "UNUSED"]
  /\ nice = [p \in Procs |-> IF p = initproc THEN DEFAULTPLEVEL ELSE 0]
  /\ age = [p \in Procs |-> 0]
  /\ ticks_count = [p \in Procs |-> 0]
  /\ chan = [p \in Procs |-> NULL]
  /\ parent = [p \in Procs |-> NULL]
  /\ killed = [p \in Procs |-> FALSE]
  /\ pid = [p \in Procs |-> p = initproc]
  /\ kpc = [p \in Procs |-> "user"]
  /\ np = [p \in Procs |-> NULL]
  /\ levels = enqueue(EmptyLists, initproc, DEFAULTPLEVEL)
  /\ cproc = [c \in CPUs |-> NULL]
  /\ pc = [c \in CPUs |-> "run"]
  /\ lock = NOCPU
  /\ wchan = NULL
  /\ cursor = [i |-> 1, p |-> NULL]
  /\ aging_ticks = 0

-----------------------------------------------------------------------------
(* Helpers.                                                                *)

\* CPU c runs process p, whose kernel position is in K.
Runs(c, p, K) == pc[c] = "run" /\ cproc[c] = p /\ p # NULL /\ kpc[p] \in K

\* ptable.lock can be taken for a critical section that is one action.
Free == lock = NOCPU /\ UNCHANGED lock

Goto(c, l) == pc' = [pc EXCEPT ![c] = l]
Kgoto(p, l) == kpc' = [kpc EXCEPT ![p] = l]

\* enqueue(p) as the callers see it: RUNNABLE, and at the head of level l.
MakeRunnable(p, l) ==
  /\ state' = [state EXCEPT ![p] = "RUNNABLE"]
  /\ nice' = [nice EXCEPT ![p] = l]
  /\ levels' = enqueue(levels, p, l)

-----------------------------------------------------------------------------
(* The scheduler.                                                          *)

NonEmpty == {l \in Level : ~isempty(levels, l)}

\* Mutant: the lowest priority first.
Pick_Last == Max(NonEmpty)

\* The first level that is not empty.
Pick == Min(NonEmpty)

\* One round of scheduler(): take the next process and switch to it.  It comes
\* back from sched(): sleep() clears chan, and in wait() it still holds the
\* lock; after a yield in trap() it exits if it has been killed.
scheduler(c) ==
  /\ pc[c] = "run" /\ cproc[c] = NULL /\ lock = NOCPU
  /\ NonEmpty # {}
  /\ LET p == levels.last[Pick]
     IN /\ levels' = dequeue(levels, Pick)
        /\ cproc' = [cproc EXCEPT ![c] = p]
        /\ state' = [state EXCEPT ![p] = "RUNNING"]
        /\ chan' = [chan EXCEPT ![p] = NULL]
        /\ IF kpc[p] = "wait"
             THEN lock' = c /\ Goto(c, "wait")
             ELSE UNCHANGED <<lock, pc>>
        /\ IF kpc[p] = "trap"
             THEN Kgoto(p, IF killed[p] THEN "exit" ELSE "user")
             ELSE UNCHANGED kpc
  /\ UNCHANGED <<fields, nice, wchan, timer>>

QuantumUsed(p) == ticks_count[p] + 1 >= QUANTUM

\* yield(): lower the priority, queue, and back to the scheduler.
yield(c, p) ==
  /\ Free
  /\ ticks_count' = [ticks_count EXCEPT ![p] = 0]
  /\ MakeRunnable(p, decreasepriority(nice[p]))
  /\ cproc' = [cproc EXCEPT ![c] = NULL]
  /\ IF kpc[p] = "user" THEN Kgoto(p, "trap") ELSE UNCHANGED kpc

\* sleep(ch, lk) up to the switch to the scheduler.
GoToSleep(c, p, ch) ==
  /\ chan' = [chan EXCEPT ![p] = ch]
  /\ state' = [state EXCEPT ![p] = "SLEEPING"]
  /\ cproc' = [cproc EXCEPT ![c] = NULL]

\* A system call (or the file closing of exit()) sleeps on some channel.
sleep(c, ch) == \E p \in Procs :
  /\ Runs(c, p, {"kern", "exit"})
  /\ Free
  /\ GoToSleep(c, p, ch)
  /\ UNCHANGED <<fields, nice, kpc, levels, pc, wchan, timer>>

\* wakeup(ch), from a system call or from a device interrupt.
wakeup(c, ch) ==
  /\ pc[c] = "run" /\ lock = NOCPU
  /\ lock' = c /\ Goto(c, "wakeup") /\ wchan' = ch
  /\ UNCHANGED <<fields, state, nice, chan, kpc, levels, cproc, timer>>

Sleepers == {p \in Procs : state[p] = "SLEEPING" /\ chan[p] = wchan}

\* Where the four callers of wakeup1 go on, and whether they release the lock.
AfterWake == [wakeup |-> "run", tickwake |-> "quantum",
              exitparent |-> "reparent", exitinit |-> "zombie"]

\* The end of trap() after an interrupt: a killed process in user space exits.
InterruptReturn(c) ==
  LET p == cproc[c]
  IN IF p # NULL /\ kpc[p] = "user" /\ killed[p] THEN [kpc EXCEPT ![p] = "exit"] ELSE kpc

\* wakeup1's loop: the first sleeper left in table order, or the end.
wakeup1(c) ==
  /\ pc[c] \in WakePc
  /\ \/ /\ Sleepers # {}
        /\ LET p == Min(Sleepers) IN MakeRunnable(p, increasepriority(nice[p]))
        /\ UNCHANGED <<kpc, lock, pc, wchan>>
     \/ /\ Sleepers = {}
        /\ Goto(c, AfterWake[pc[c]])
        /\ lock' = IF pc[c] \in {"wakeup", "tickwake"} THEN NOCPU ELSE lock
        /\ kpc' = IF pc[c] = "wakeup" THEN InterruptReturn(c) ELSE kpc
        /\ wchan' = NULL
        /\ UNCHANGED <<state, nice, levels>>
  /\ UNCHANGED <<fields, chan, cproc, timer>>

-----------------------------------------------------------------------------
(* System calls.                                                           *)

\* trap(T_SYSCALL) on entry.
sysenter(c) == \E p \in Procs :
  /\ Runs(c, p, {"user"})
  /\ Kgoto(p, IF killed[p] THEN "exit" ELSE "kern")
  /\ UNCHANGED <<fields, state, nice, chan, levels, cproc, pc, lock, wchan, timer>>

\* The system call is exit(), or it returns and trap() looks at killed again.
sysexit(c) == \E p \in Procs :
  /\ Runs(c, p, {"kern"})
  /\ \/ Kgoto(p, IF killed[p] THEN "exit" ELSE "user")
     \/ Kgoto(p, "exit")
  /\ UNCHANGED <<fields, state, nice, chan, levels, cproc, pc, lock, wchan, timer>>

\* trap() on an exception in user space.
userfault(c) == \E p \in Procs :
  /\ Runs(c, p, {"user"})
  /\ killed' = [killed EXCEPT ![p] = TRUE]
  /\ Kgoto(p, "exit")
  /\ UNCHANGED <<state, nice, age, ticks_count, chan, parent, pid, np,
                 levels, cproc, pc, lock, wchan, timer>>

\* fork(): allocproc() takes the first UNUSED slot.  Without one fork()
\* returns -1 and nothing changes.
forkalloc(c) == \E p \in Procs :
  /\ Runs(c, p, {"kern"})
  /\ Free
  /\ \E u \in Procs : state[u] = "UNUSED"
  /\ LET u == Min({v \in Procs : state[v] = "UNUSED"})
     IN /\ state' = [state EXCEPT ![u] = "EMBRYO"]
        /\ pid' = [pid EXCEPT ![u] = TRUE]
        /\ nice' = [nice EXCEPT ![u] = DEFAULTPLEVEL]
        /\ kpc' = [kpc EXCEPT ![p] = "fork", ![u] = "user"]
        /\ np' = [np EXCEPT ![p] = u]
  /\ UNCHANGED <<age, ticks_count, chan, parent, killed, levels, cproc, pc,
                 lock, wchan, timer>>

\* kalloc() or cowuvm() fails: the slot is given back, without the lock.
forkfail(c) == \E p \in Procs :
  /\ Runs(c, p, {"fork"})
  /\ state' = [state EXCEPT ![np[p]] = "UNUSED"]
  /\ np' = [np EXCEPT ![p] = NULL]
  /\ Kgoto(p, "kern")
  /\ UNCHANGED <<nice, age, ticks_count, chan, parent, killed, pid, levels,
                 cproc, pc, lock, wchan, timer>>

\* The child is complete: it gets its parent and is queued.
forkdone(c) == \E p \in Procs :
  /\ Runs(c, p, {"fork"})
  /\ Free
  /\ parent' = [parent EXCEPT ![np[p]] = p]
  /\ MakeRunnable(np[p], nice[np[p]])
  /\ np' = [np EXCEPT ![p] = NULL]
  /\ Kgoto(p, "kern")
  /\ UNCHANGED <<age, ticks_count, chan, killed, pid, cproc, pc, wchan, timer>>

\* The slots kill() can find: pids that are not 0 are distinct, and kill(0)
\* finds the first slot whose pid is 0.
KillTargets == {q \in Procs : pid[q] \/ \A r \in 1 .. (q - 1) : pid[r]}

\* kill(pid of slot q)
kill(c, q) == \E p \in Procs :
  /\ Runs(c, p, {"kern"})
  /\ Free
  /\ q \in KillTargets
  /\ killed' = [killed EXCEPT ![q] = TRUE]
  /\ IF state[q] = "SLEEPING"
       THEN MakeRunnable(q, nice[q])
       ELSE UNCHANGED <<state, nice, levels>>
  /\ UNCHANGED <<age, ticks_count, chan, parent, pid, kpc, np, cproc, pc,
                 wchan, timer>>

\* nice(inc): the caller is running, so it is on no level.
setnice(c, inc) == \E p \in Procs :
  /\ Runs(c, p, {"kern"})
  /\ Free
  /\ nice[p] + inc \in Level
  /\ nice' = [nice EXCEPT ![p] = @ + inc]
  /\ UNCHANGED <<fields, state, chan, kpc, levels, cproc, pc, wchan, timer>>

-----------------------------------------------------------------------------
(* exit() and wait().                                                      *)

\* Mutant: exit() wakes whoever waits for its own children.
Awaiter_Self(p) == p

\* Who may be sleeping in wait() for p.
Awaiter(p) == parent[p]

\* exit() up to wakeup1(curproc->parent); init may not exit.
exit(c) == \E p \in Procs :
  /\ Runs(c, p, {"exit"})
  /\ \/ p = initproc /\ Goto(c, "panic") /\ UNCHANGED <<lock, wchan>>
     \/ /\ p # initproc
        /\ lock = NOCPU
        /\ lock' = c /\ Goto(c, "exitparent") /\ wchan' = Awaiter(p)
  /\ UNCHANGED <<fields, state, nice, chan, kpc, levels, cproc, timer>>

Children(p) == {k \in Procs : parent[k] = p}
Zombies(S) == {k \in S : state[k] = "ZOMBIE"}

WakeInit(p) == Zombies(Children(p)) # {}

\* Mutant: exit() leaves the children with their parent.
PassToInit_Skip(p) == parent

PassToInit(p) == [k \in Procs |-> IF parent[k] = p THEN initproc ELSE parent[k]]

\* The loop that passes abandoned children to init.
reparent(c) ==
  /\ pc[c] = "reparent"
  /\ parent' = PassToInit(cproc[c])
  /\ IF WakeInit(cproc[c]) THEN Goto(c, "exitinit") /\ wchan' = initproc
                           ELSE Goto(c, "zombie") /\ UNCHANGED wchan
  /\ UNCHANGED <<state, nice, age, ticks_count, chan, killed, pid, kpc, np,
                 levels, cproc, lock, timer>>

\* The end of exit(): ZOMBIE, and the scheduler releases the lock.
zombie(c) ==
  /\ pc[c] = "zombie"
  /\ state' = [state EXCEPT ![cproc[c]] = "ZOMBIE"]
  /\ cproc' = [cproc EXCEPT ![c] = NULL]
  /\ lock' = NOCPU /\ Goto(c, "run")
  /\ UNCHANGED <<fields, nice, chan, kpc, levels, wchan, timer>>

\* wait() takes the lock, or goes round its loop after sleep() with it held.
waitscan(c, p) ==
  /\ cproc[c] = p
  /\ \/ Runs(c, p, {"kern"}) /\ lock = NOCPU
     \/ pc[c] = "wait"
  /\ lock' = NOCPU /\ Goto(c, "run")
  /\ \/ /\ Zombies(Children(p)) # {}
        /\ LET k == Min(Zombies(Children(p)))
           IN /\ pid' = [pid EXCEPT ![k] = FALSE]
              /\ parent' = [parent EXCEPT ![k] = NULL]
              /\ killed' = [killed EXCEPT ![k] = FALSE]
              /\ state' = [state EXCEPT ![k] = "UNUSED"]
        /\ Kgoto(p, "kern")
        /\ UNCHANGED <<chan, cproc>>
     \/ /\ Zombies(Children(p)) = {}
        /\ Children(p) = {} \/ killed[p]
        /\ Kgoto(p, "kern")
        /\ UNCHANGED <<state, parent, killed, pid, chan, cproc>>
     \/ /\ Zombies(Children(p)) = {}
        /\ Children(p) # {} /\ ~killed[p]
        /\ Kgoto(p, "wait")
        /\ GoToSleep(c, p, p)
        /\ UNCHANGED <<parent, killed, pid>>
  /\ UNCHANGED <<nice, age, ticks_count, np, levels, wchan, timer>>

wait(c) == \E p \in Procs : waitscan(c, p)

-----------------------------------------------------------------------------
(* The timer interrupt.                                                    *)

\* trap(IRQ_TIMER): CPU 0 keeps the time.
tick(c) ==
  /\ pc[c] = "run"
  /\ IF c = 0
       THEN /\ aging_ticks' = aging_ticks + 1
            /\ Goto(c, IF aging_ticks + 1 >= AGINGSTEP THEN "age" ELSE "tick")
       ELSE Goto(c, "quantum") /\ UNCHANGED aging_ticks
  /\ UNCHANGED <<fields, state, nice, chan, kpc, levels, cproc, lock, wchan, cursor>>

agingbegin(c) ==
  /\ pc[c] = "age" /\ lock = NOCPU
  /\ lock' = c /\ Goto(c, "aging")
  /\ cursor' = [i |-> 1, p |-> IF 1 \in Level THEN levels.head[1] ELSE NULL]
  /\ UNCHANGED <<fields, state, nice, chan, kpc, levels, cproc, wchan, aging_ticks>>

TooOld(p) == age[p] + 1 >= AGELIMIT

\* One iteration of aging()'s loops: age a process, raise it if it is too old;
\* or go to the next level; or the end.  age stops at AGELIMIT - 1: only the
\* comparison ++age >= AGELIMIT reads it, and that stays true from there on.
aging(c) ==
  /\ pc[c] = "aging"
  /\ \/ /\ cursor.p # NULL
        /\ age' = [age EXCEPT ![cursor.p] = IF TooOld(cursor.p) THEN @ ELSE @ + 1]
        /\ cursor' = [cursor EXCEPT !.p = levels.next[cursor.p]]
        /\ IF TooOld(cursor.p)
             THEN LET l == increasepriority(nice[cursor.p])
                  IN /\ nice' = [nice EXCEPT ![cursor.p] = l]
                     /\ levels' = enqueue(removefromlevel(levels, cursor.p, cursor.i),
                                          cursor.p, l)
             ELSE UNCHANGED <<nice, levels>>
        /\ UNCHANGED <<pc, lock, aging_ticks>>
     \/ /\ cursor.p = NULL /\ cursor.i < PLEVELS
        /\ cursor' = [i |-> cursor.i + 1,
                      p |-> IF cursor.i + 1 < PLEVELS THEN levels.head[cursor.i + 1] ELSE NULL]
        /\ UNCHANGED <<age, nice, levels, pc, lock, aging_ticks>>
     \/ /\ cursor.p = NULL /\ cursor.i = PLEVELS
        /\ lock' = NOCPU /\ Goto(c, "tick")
        /\ aging_ticks' = 0
        /\ cursor' = [cursor EXCEPT !.i = 1]
        /\ UNCHANGED <<age, nice, levels>>
  /\ UNCHANGED <<state, ticks_count, chan, parent, killed, pid, kpc, np, cproc, wchan>>

\* wakeup(&ticks)
tickwake(c) ==
  /\ pc[c] = "tick" /\ lock = NOCPU
  /\ lock' = c /\ Goto(c, "tickwake") /\ wchan' = TICKS
  /\ UNCHANGED <<fields, state, nice, chan, kpc, levels, cproc, timer>>

\* The end of trap(): a killed process in user space exits; a process that has
\* used its quantum yields.
quantum(c) ==
  /\ pc[c] = "quantum" /\ Goto(c, "run")
  /\ LET p == cproc[c]
     IN \/ /\ p = NULL
           /\ UNCHANGED <<state, nice, levels, kpc, cproc, ticks_count, lock>>
        \/ /\ p # NULL /\ killed[p] /\ kpc[p] = "user"
           /\ Kgoto(p, "exit")
           /\ UNCHANGED <<state, nice, levels, cproc, ticks_count, lock>>
        \/ /\ p # NULL /\ ~(killed[p] /\ kpc[p] = "user")
           /\ IF QuantumUsed(p)
                THEN yield(c, p)
                ELSE /\ ticks_count' = [ticks_count EXCEPT ![p] = @ + 1]
                     /\ UNCHANGED <<state, nice, levels, kpc, cproc, lock>>
  /\ UNCHANGED <<age, chan, parent, killed, pid, np, wchan, timer>>

-----------------------------------------------------------------------------
\* The steps a CPU takes by itself once it is in the kernel.
KernelStep(c) ==
  \/ wakeup1(c) \/ reparent(c) \/ zombie(c) \/ (pc[c] = "wait" /\ wait(c))
  \/ agingbegin(c) \/ aging(c) \/ tickwake(c) \/ quantum(c)

Next ==
  \E c \in CPUs :
    \/ scheduler(c) \/ wakeup1(c) \/ reparent(c) \/ zombie(c) \/ wait(c)
    \/ sysenter(c) \/ sysexit(c) \/ userfault(c) \/ exit(c)
    \/ forkalloc(c) \/ forkfail(c) \/ forkdone(c)
    \/ tick(c) \/ agingbegin(c) \/ aging(c) \/ tickwake(c) \/ quantum(c)
    \/ \E ch \in Chans : sleep(c, ch) \/ wakeup(c, ch)
    \/ \E q \in Procs : kill(c, q)
    \/ \E inc \in (1 - PLEVELS) .. (PLEVELS - 1) : setnice(c, inc)

Spec == Init /\ [][Next]_vars

-----------------------------------------------------------------------------
(* Safety.                                                                 *)

\* The levels hold exactly the RUNNABLE processes, each at the level of its
\* nice field, as proper doubly linked lists: enqueue, dequeue and
\* removefromlevel never lose, duplicate or misplace a process, whatever the
\* interleaving of yield, wakeup, kill, nice, fork and aging.
QueueInv == WellFormed(levels, Runnable, nice)

\* A process is RUNNING exactly while one CPU runs it, and no process is on two
\* CPUs (scheduler and the switches through sched()).
CpuInv ==
  /\ \A p \in Procs : state[p] = "RUNNING" <=> \E c \in CPUs : cproc[c] = p
  /\ \A c, d \in CPUs : cproc[c] = cproc[d] /\ cproc[c] # NULL => c = d

\* Between critical sections, a process asleep in wait() has a child, and none
\* of its children is already a zombie: no exit is missed (exit, wait).
NoMissedExit ==
  lock = NOCPU =>
    \A p \in Procs : state[p] = "SLEEPING" /\ chan[p] = p =>
      Children(p) # {} /\ Zombies(Children(p)) = {}

\* Every process but init has a parent that can still wait() for it: exit()
\* leaves no orphan behind.
ParentAlive ==
  \A p \in Procs \ {initproc} : state[p] \notin {"UNUSED", "EMBRYO"} =>
    /\ parent[p] # NULL
    /\ state[parent[p]] \notin {"UNUSED", "EMBRYO", "ZOMBIE"}

-----------------------------------------------------------------------------
(* The inductive invariant behind TypeOK, QueueInv and CpuInv.             *)

\* The CPU inside a critical section that takes several actions holds the lock.
LockInv == \A c \in CPUs : pc[c] \in LockPc <=> lock = c

\* These are reached only from a process.
CallerInv == \A c \in CPUs :
  pc[c] \in {"wait", "exitparent", "reparent", "exitinit", "zombie"} => cproc[c] # NULL

\* Each fork() has a child of its own, which nobody else touches.
ForkInv == \A p \in Procs : kpc[p] = "fork" =>
  /\ np[p] # NULL
  /\ state[np[p]] = "EMBRYO"
  /\ \A r \in Procs \ {p} : kpc[r] = "fork" => np[r] # np[p]

\* aging() walks a list nobody else changes.
CursorInv == cursor.p # NULL =>
  /\ \E c \in CPUs : pc[c] = "aging"
  /\ state[cursor.p] = "RUNNABLE" /\ nice[cursor.p] = cursor.i

AgingInv ==
  /\ \A c \in CPUs : pc[c] \in {"age", "aging"} => c = 0
  /\ pc[0] \notin {"age", "aging"} => aging_ticks < AGINGSTEP

\* The conjunction that every action of the process table preserves: the types,
\* the lock and the caller of each critical section, the children being forked,
\* aging's cursor, the levels and the CPUs.
IInv == /\ TypeOK /\ LockInv /\ CallerInv /\ ForkInv /\ CursorInv /\ AgingInv
        /\ QueueInv /\ CpuInv

-----------------------------------------------------------------------------
(* Liveness.  A CPU in the kernel goes on (weak fairness); the scheduler   *)
(* loop gets through between interrupts, and a pending timer interrupt is  *)
(* taken when interrupts are enabled again (strong fairness).  Nothing is  *)
(* assumed of what processes do.                                           *)

Fairness == \A c \in CPUs :
  WF_vars(KernelStep(c)) /\ SF_vars(scheduler(c)) /\ SF_vars(tick(c))

FairSpec == Spec /\ Fairness

Panic == \E c \in CPUs : pc[c] = "panic"

\* Aging prevents starvation: a RUNNABLE process runs, whatever the processes
\* of higher priority do (aging, scheduler), unless init exits and the CPU
\* stops in panic().
NoStarvation ==
  \A p \in Procs : state[p] = "RUNNABLE" ~> (state[p] = "RUNNING" \/ Panic)
=============================================================================
