------------------------------- MODULE Console -------------------------------
(***************************************************************************)
(* Spin locks and interrupts (spinlock.c, trap.c), and what they protect   *)
(* in the console (console.c) and the clock (sys_sleep in sysproc.c).      *)
(*                                                                         *)
(* Every CPU runs one process, which calls read() and write() on the       *)
(* console or sleep(), or the scheduler while the process sleeps.  On top  *)
(* of these CPU0 runs the handlers of the keyboard, the serial port and    *)
(* the clock.  A step of a CPU is what it does between two tries to get a  *)
(* lock.                                                                   *)
(***************************************************************************)
EXTENDS Integers, Sequences

CONSTANTS Cpus,
          NOCPU,
          CPU0,        \* the CPU that takes the interrupts of the console, and whose
                       \* timer counts ticks
          Ops,         \* bound: the calls that the process of each CPU makes
          Chars,       \* what is typed: "nl", "D", "U", "H" for newline, ^D, ^U
                       \* and backspace, "P" for ^P, and characters
          INPUT_BUF,
          UINTS,       \* number of values of an unsigned int
          READ,        \* bound: how many characters read() asks for
          NTICKS       \* bound: how many ticks sleep() asks for

ASSUME ConsoleAssumption ==
  /\ NOCPU \notin Cpus /\ CPU0 \in Cpus
  /\ Ops \in [Cpus -> SUBSET {"read", "write", "sleep"}]
  /\ INPUT_BUF \in Nat \ {0} /\ UINTS \in Nat /\ UINTS > INPUT_BUF
  /\ UINTS % INPUT_BUF = 0
  /\ READ \in Nat \ {0} /\ NTICKS \in 1 .. UINTS - 1

Locks == {"cons", "ticks", "ptable"}

VARIABLES
  cpu,      \* who holds each lock
  ints,     \* CPUs that take interrupts
  ncli,     \* depth of pushcli
  intena,   \* were interrupts on before the first pushcli?
  saved,    \* sched(): intena, to be restored when the process runs again
  ppc,      \* where the process of a CPU is, or the scheduler in its place
  op,       \* its call
  n,        \* read(): characters yet to read
  ticks0,   \* sleep(): when it began
  killed,
  ipc,      \* where the interrupt handler of CPU0 is
  kind,     \* whose interrupt it is: "cons" or "ticks", as the lock it takes
  doprocdump,
  buf, r, w, e,   \* input
  ticks,
  line, ready,  \* history: the line as edited, the input that can be read
  slept     \* history: ticks since the process began to sleep

cli == <<ints, ncli, intena, saved>>
input == <<buf, r, w, e, line, ready>>
clock == <<ticks, slept>>
call == <<op, n, ticks0, killed>>
intr == <<ipc, kind, doprocdump>>
vars == <<cpu, cli, ppc, call, intr, input, clock>>

\* user; first, again: about to get the lock of the call, for the first time or
\* after sleep; in: with that lock; sleep: about to get ptable.lock; slept: with
\* both; switch: with ptable.lock; asleep; runnable; run: the scheduler is about
\* to get ptable.lock; woken: with it; relock: without it
Ppc == {"user", "first", "in", "sleep", "slept", "switch", "asleep", "runnable",
        "run", "woken", "relock", "again"}

TypeOK ==
  /\ cpu \in [Locks -> Cpus \cup {NOCPU}]
  /\ ints \in [Cpus -> BOOLEAN]
  /\ ncli \in [Cpus -> 0 .. 2]
  /\ intena \in [Cpus -> BOOLEAN]
  /\ saved \in [Cpus -> BOOLEAN]
  /\ ppc \in [Cpus -> Ppc]
  /\ op \in [Cpus -> {"none", "read", "write", "sleep"}]
  /\ n \in [Cpus -> 0 .. READ]
  /\ ticks0 \in [Cpus -> 0 .. UINTS - 1]
  /\ killed \in [Cpus -> BOOLEAN]
  /\ ipc \in {"none", "first", "in", "age", "aged", "wake", "wakeup", "end", "dump", "dumped"}
  /\ kind \in {"none", "cons", "ticks"}
  /\ doprocdump \in BOOLEAN
  /\ buf \in [0 .. INPUT_BUF - 1 -> Chars \cup {"none"}]
  /\ r \in 0 .. UINTS - 1 /\ w \in 0 .. UINTS - 1 /\ e \in 0 .. UINTS - 1
  /\ ticks \in 0 .. UINTS - 1
  /\ line \in Seq(Chars) /\ ready \in Seq(Chars)
  /\ slept \in [Cpus -> 0 .. NTICKS]

Init ==
  /\ cpu = [l \in Locks |-> NOCPU]
  /\ ints = [c \in Cpus |-> TRUE]
  /\ ncli = [c \in Cpus |-> 0]
  /\ intena = [c \in Cpus |-> FALSE]
  /\ saved = [c \in Cpus |-> FALSE]
  /\ ppc = [c \in Cpus |-> "user"]
  /\ op = [c \in Cpus |-> "none"]
  /\ n = [c \in Cpus |-> 0]
  /\ ticks0 = [c \in Cpus |-> 0]
  /\ killed = [c \in Cpus |-> FALSE]
  /\ ipc = "none"
  /\ kind = "none"
  /\ doprocdump = FALSE
  /\ buf = [k \in 0 .. INPUT_BUF - 1 |-> "none"]
  /\ r = 0 /\ w = 0 /\ e = 0
  /\ ticks = 0
  /\ line = <<>> /\ ready = <<>>
  /\ slept = [c \in Cpus |-> 0]

-----------------------------------------------------------------------------
\* spinlock.c.

Set(x, c, v) == [x EXCEPT ![c] = v]

\* x++ of an unsigned int.
Inc(x) == (x + 1) % UINTS

Intena_Always(c) == ints[c]

\* intena after pushcli().
Intena(c) == IF ncli[c] = 0 THEN ints[c] ELSE intena[c]

pushcli(c) ==
  /\ ints' = Set(ints, c, FALSE)
  /\ intena' = Set(intena, c, Intena(c))
  /\ ncli' = [ncli EXCEPT ![c] = @ + 1]

popcli(c) ==
  /\ ncli' = [ncli EXCEPT ![c] = @ - 1]
  /\ ints' = Set(ints, c, ncli[c] = 1 /\ intena[c])
  /\ UNCHANGED intena

\* acquire(), after pushcli(): xchg finds the lock free.
xchg(c, l) ==
  /\ cpu[l] = NOCPU
  /\ cpu' = Set(cpu, l, c)

release(c, l) ==
  /\ cpu' = Set(cpu, l, NOCPU)
  /\ popcli(c)

-----------------------------------------------------------------------------
\* The processes: consoleread, consolewrite, sys_sleep.

\* CPU c is not in an interrupt handler.
Base(c) == c # CPU0 \/ ipc = "none"

\* The lock of a call, which is also what the process sleeps on.
Lock(c) == IF op[c] = "sleep" THEN "ticks" ELSE "cons"

\* A system call, up to acquire().
syscall(c) ==
  /\ Base(c)
  /\ ppc[c] = "user"
  /\ \E o \in Ops[c] : op' = Set(op, c, o) /\ n' = Set(n, c, IF o = "read" THEN READ ELSE 0)
  /\ pushcli(c)
  /\ ppc' = Set(ppc, c, "first")
  /\ UNCHANGED <<cpu, saved, ticks0, killed, intr, input, clock>>

\* It has the lock; sys_sleep notes the time.
locked(c) ==
  /\ Base(c)
  /\ ppc[c] \in {"first", "again"}
  /\ xchg(c, Lock(c))
  /\ ticks0' = Set(ticks0, c, IF ppc[c] = "first" /\ op[c] = "sleep" THEN ticks ELSE ticks0[c])
  /\ ppc' = Set(ppc, c, "in")
  /\ UNCHANGED <<cli, op, n, killed, intr, input, clock>>

\* It releases the lock and returns; if it was killed the next process takes over.
return(c) ==
  /\ release(c, Lock(c))
  /\ ppc' = Set(ppc, c, "user")
  /\ op' = Set(op, c, "none")
  /\ n' = Set(n, c, 0)
  /\ ticks0' = Set(ticks0, c, 0)
  /\ killed' = Set(killed, c, FALSE)
  /\ slept' = Set(slept, c, 0)
  /\ UNCHANGED saved

\* What read() takes from the ring and what it leaves; what is not in r .. e - 1
\* is not looked at again, and is not kept.
Taken == [buf EXCEPT ![r % INPUT_BUF] = "none"]

\* consoleread(): the next character.  ^D ends the call, and is left for the next
\* one if there are characters before it.
consoleread(c) ==
  LET x == buf[r % INPUT_BUF]
      keep == x = "D" /\ n[c] < READ
  IN /\ Base(c)
     /\ ppc[c] = "in" /\ op[c] = "read"
     /\ r # w
     /\ IF keep THEN UNCHANGED <<r, buf, ready>>
                ELSE r' = Inc(r) /\ buf' = Taken /\ ready' = Tail(ready)
     /\ IF x \in {"D", "nl"} \/ n[c] = 1
          THEN return(c)
          ELSE n' = [n EXCEPT ![c] = @ - 1] /\ UNCHANGED <<cpu, cli, ppc, op, ticks0, killed, slept>>
     /\ UNCHANGED <<w, e, line, intr, ticks>>

consolewrite(c) ==
  /\ Base(c)
  /\ ppc[c] = "in" /\ op[c] = "write"
  /\ return(c)
  /\ UNCHANGED <<intr, input, ticks>>

\* The ticks that sys_sleep has seen, an unsigned difference.
Elapsed(c) == (ticks - ticks0[c]) % UINTS

Waits_Deadline(c) ==
  \/ op[c] = "read" /\ r = w
  \/ op[c] = "sleep" /\ ticks < (ticks0[c] + NTICKS) % UINTS

\* The call has to wait.
Waits(c) ==
  \/ op[c] = "read" /\ r = w
  \/ op[c] = "sleep" /\ Elapsed(c) < NTICKS

sys_sleep(c) ==
  /\ Base(c)
  /\ ppc[c] = "in" /\ op[c] = "sleep"
  /\ ~Waits(c)
  /\ return(c)
  /\ UNCHANGED <<intr, input, ticks>>

\* The process waits in vain: it was killed.
giveup(c) ==
  /\ Base(c)
  /\ ppc[c] = "in"
  /\ Waits(c) /\ killed[c]
  /\ return(c)
  /\ UNCHANGED <<intr, input, ticks>>

\* sleep(): up to acquire() of ptable.lock.
sleep(c) ==
  /\ Base(c)
  /\ ppc[c] = "in"
  /\ Waits(c) /\ ~killed[c]
  /\ pushcli(c)
  /\ ppc' = Set(ppc, c, "sleep")
  /\ UNCHANGED <<cpu, saved, call, intr, input, clock>>

sleep_locked(c) ==
  /\ Base(c)
  /\ ppc[c] = "sleep"
  /\ xchg(c, "ptable")
  /\ ppc' = Set(ppc, c, "slept")
  /\ UNCHANGED <<cli, call, intr, input, clock>>

\* It gives up the lock of the call.
sleep_release(c) ==
  /\ Base(c)
  /\ ppc[c] = "slept"
  /\ release(c, Lock(c))
  /\ ppc' = Set(ppc, c, "switch")
  /\ UNCHANGED <<saved, call, intr, input, clock>>

\* SLEEPING, sched(), and the scheduler, which releases ptable.lock and turns
\* interrupts on.
sched(c) ==
  /\ Base(c)
  /\ ppc[c] = "switch"
  /\ ppc' = Set(ppc, c, "asleep")
  /\ saved' = Set(saved, c, intena[c])
  /\ cpu' = Set(cpu, "ptable", NOCPU)
  /\ ncli' = [ncli EXCEPT ![c] = @ - 1]
  /\ ints' = Set(ints, c, TRUE)
  /\ UNCHANGED <<intena, call, intr, input, clock>>

\* The scheduler looks for a process to run: up to acquire() of ptable.lock.
scheduler(c) ==
  /\ Base(c)
  /\ ppc[c] = "runnable"
  /\ pushcli(c)
  /\ ppc' = Set(ppc, c, "run")
  /\ UNCHANGED <<cpu, saved, call, intr, input, clock>>

\* It switches to the process.
swtch(c) ==
  /\ Base(c)
  /\ ppc[c] = "run"
  /\ xchg(c, "ptable")
  /\ intena' = Set(intena, c, saved[c])
  /\ saved' = Set(saved, c, FALSE)
  /\ ppc' = Set(ppc, c, "woken")
  /\ UNCHANGED <<ints, ncli, call, intr, input, clock>>

\* The process releases ptable.lock, and tries to get its own lock again.
sleep_woken(c) ==
  /\ Base(c)
  /\ ppc[c] = "woken"
  /\ release(c, "ptable")
  /\ ppc' = Set(ppc, c, "relock")
  /\ UNCHANGED <<saved, call, intr, input, clock>>

sleep_relock(c) ==
  /\ Base(c)
  /\ ppc[c] = "relock"
  /\ pushcli(c)
  /\ ppc' = Set(ppc, c, "again")
  /\ UNCHANGED <<cpu, saved, call, intr, input, clock>>

\* kill(), by a process elsewhere.
kill(c) ==
  /\ cpu["ptable"] = NOCPU
  /\ op[c] \in {"read", "sleep"}
  /\ ~killed[c]
  /\ killed' = Set(killed, c, TRUE)
  /\ ppc' = Set(ppc, c, IF ppc[c] = "asleep" THEN "runnable" ELSE ppc[c])
  /\ UNCHANGED <<cpu, cli, op, n, ticks0, intr, input, clock>>

-----------------------------------------------------------------------------
\* The interrupt handlers: trap, consoleintr.

\* An interrupt: the gate turns interrupts off, and trap() gets to the acquire()
\* of the handler.
trap ==
  /\ ints[CPU0]
  /\ Base(CPU0)
  /\ kind' \in {"cons", "ticks"}
  /\ ipc' = "first"
  /\ ints' = Set(ints, CPU0, FALSE)
  /\ intena' = Set(intena, CPU0, FALSE)
  /\ ncli' = [ncli EXCEPT ![CPU0] = @ + 1]
  /\ UNCHANGED <<cpu, saved, ppc, call, doprocdump, input, clock>>

trap_locked ==
  /\ ipc = "first"
  /\ xchg(CPU0, kind)
  /\ ipc' = "in"
  /\ UNCHANGED <<cli, ppc, call, kind, doprocdump, input, clock>>

\* The CPU goes back to what it was at.
iret ==
  /\ cpu' = Set(cpu, kind, NOCPU)
  /\ ncli' = [ncli EXCEPT ![CPU0] = @ - 1]
  /\ ints' = Set(ints, CPU0, TRUE)
  /\ ipc' = "none"
  /\ kind' = "none"
  /\ UNCHANGED <<intena, saved, ppc, call, input, clock>>

\* History: the ticks that sleepers have seen.
Slept ==
  [c \in Cpus |-> IF op[c] = "sleep" /\ ppc[c] # "first" /\ slept[c] < NTICKS
                    THEN slept[c] + 1 ELSE slept[c]]

tick_Aging ==
  /\ ipc = "in" /\ kind = "ticks"
  /\ ticks' = Inc(ticks)
  /\ slept' = Slept
  /\ \/ pushcli(CPU0) /\ ipc' = "age"
     \/ ipc' = "end" /\ UNCHANGED <<ints, intena, ncli>>
  /\ UNCHANGED <<cpu, saved, ppc, call, kind, doprocdump, input>>

\* The timer interrupt: one more tick, and up to the acquire() of aging(), which
\* only some ticks call, or of wakeup().
tick ==
  /\ ipc = "in" /\ kind = "ticks"
  /\ ticks' = Inc(ticks)
  /\ slept' = Slept
  /\ pushcli(CPU0)
  /\ ipc' \in {"age", "wake"}
  /\ UNCHANGED <<cpu, saved, ppc, call, kind, doprocdump, input>>

\* aging() moves processes between levels, with ptable.lock; then the acquire() of
\* wakeup().
aging ==
  /\ \/ ipc = "age" /\ xchg(CPU0, "ptable") /\ ipc' = "aged"
     \/ ipc = "aged" /\ cpu' = Set(cpu, "ptable", NOCPU) /\ ipc' = "wake"
  /\ UNCHANGED <<cli, ppc, call, kind, doprocdump, input, clock>>

tick_return ==
  /\ ipc = "end"
  /\ iret
  /\ UNCHANGED doprocdump

\* How many characters ^U erases: those of the line.
Erased ==
  CHOOSE k \in 0 .. (e - w) % UINTS :
    /\ \A j \in 1 .. k : buf[((e - j) % UINTS) % INPUT_BUF] # "nl"
    /\ k < (e - w) % UINTS => buf[((e - (k + 1)) % UINTS) % INPUT_BUF] = "nl"

\* The last k characters are erased; what is not in the ring is not kept.
Erase(k) ==
  /\ e' = (e - k) % UINTS
  /\ buf' = [i \in DOMAIN buf |->
               IF \E j \in 1 .. k : i = ((e - j) % UINTS) % INPUT_BUF THEN "none" ELSE buf[i]]
  /\ UNCHANGED <<r, w>>

\* Backspace erases what is being edited only.
HasLine == e # w

\* consoleintr(): getc() returns ^P, ^U or backspace.
consoleintr_edit ==
  /\ ipc = "in" /\ kind = "cons"
  /\ \/ /\ "P" \in Chars
        /\ doprocdump' = TRUE
        /\ UNCHANGED <<buf, r, w, e, line>>
     \/ /\ "U" \in Chars
        /\ Erase(Erased)
        /\ line' = <<>>
        /\ UNCHANGED doprocdump
     \/ /\ "H" \in Chars
        /\ HasLine
        /\ Erase(1)
        /\ line' = SubSeq(line, 1, Len(line) - 1)
        /\ UNCHANGED doprocdump
  /\ UNCHANGED <<cpu, cli, ppc, call, ipc, kind, ready, clock>>

\* The ring has no room for another character.
Full == (e - r) % UINTS >= INPUT_BUF

Commits_Lines(x) == x \in {"nl", "D"}

\* With x at its end the line can be read.
Commits(x) == x \in {"nl", "D"} \/ Inc(e) = (r + INPUT_BUF) % UINTS

\* Any other character goes into the ring, if there is room.  The end of a line
\* goes to the readers: up to the acquire() of wakeup().
consoleintr ==
  /\ ipc = "in" /\ kind = "cons"
  /\ ~Full
  /\ \E x \in Chars \ {"P", "U", "H"} :
       /\ buf' = Set(buf, e % INPUT_BUF, x)
       /\ e' = Inc(e)
       /\ \/ /\ Commits(x)
             /\ w' = e'
             /\ ready' = ready \o Append(line, x)
             /\ line' = <<>>
             /\ pushcli(CPU0)
             /\ ipc' = "wake"
          \/ /\ ~Commits(x)
             /\ line' = Append(line, x)
             /\ UNCHANGED <<w, ready, ints, ncli, intena, ipc>>
  /\ UNCHANGED <<cpu, saved, ppc, call, kind, doprocdump, r, clock>>

wakeup ==
  /\ ipc = "wake"
  /\ xchg(CPU0, "ptable")
  /\ ipc' = "wakeup"
  /\ UNCHANGED <<cli, ppc, call, kind, doprocdump, input, clock>>

\* wakeup1(), of those that sleep on what the handler is about.
wakeup1 ==
  /\ ipc = "wakeup"
  /\ ppc' = [d \in Cpus |-> IF ppc[d] = "asleep" /\ Lock(d) = kind THEN "runnable" ELSE ppc[d]]
  /\ release(CPU0, "ptable")
  /\ ipc' = IF kind = "cons" THEN "in" ELSE "end"
  /\ UNCHANGED <<saved, call, kind, doprocdump, input, clock>>

\* getc() has nothing more: consoleintr() releases its lock and, if it has to list
\* the processes, goes on to the acquire() in cprintf().
consoleintr_end ==
  /\ ipc = "in" /\ kind = "cons"
  /\ IF doprocdump
       THEN /\ cpu' = Set(cpu, "cons", NOCPU)
            /\ ipc' = "dump"
            /\ doprocdump' = FALSE
            /\ UNCHANGED <<cli, ppc, call, kind, input, clock>>
       ELSE iret /\ UNCHANGED doprocdump

\* procdump(): a line of the list.
procdump ==
  \/ /\ ipc = "dump"
     /\ xchg(CPU0, "cons")
     /\ ipc' = "dumped"
     /\ UNCHANGED <<cli, ppc, call, kind, doprocdump, input, clock>>
  \/ /\ ipc = "dumped"
     /\ iret
     /\ UNCHANGED doprocdump

Next ==
  \/ trap \/ trap_locked \/ tick \/ aging \/ tick_return
  \/ consoleintr_edit \/ consoleintr \/ wakeup \/ wakeup1
  \/ consoleintr_end \/ procdump
  \/ \E c \in Cpus :
       \/ syscall(c) \/ locked(c) \/ consoleread(c) \/ consolewrite(c)
       \/ sys_sleep(c) \/ giveup(c) \/ sleep(c) \/ sleep_locked(c)
       \/ sleep_release(c) \/ sched(c) \/ scheduler(c) \/ swtch(c)
       \/ sleep_woken(c) \/ sleep_relock(c) \/ kill(c)

Spec == Init /\ [][Next]_vars

-----------------------------------------------------------------------------
\* Properties.

\* The lock that a CPU spins for, if any.
Wanted(c) ==
  CASE Base(c) /\ ppc[c] \in {"first", "again"} -> {Lock(c)}
    [] Base(c) /\ ppc[c] \in {"sleep", "run"} -> {"ptable"}
    [] ~Base(c) /\ ipc = "first" -> {kind}
    [] ~Base(c) /\ ipc \in {"age", "wake"} -> {"ptable"}
    [] ~Base(c) /\ ipc = "dump" -> {"cons"}
    [] OTHER -> {}

\* The size of a set of locks.
Size(S) == (IF "cons" \in S THEN 1 ELSE 0) + (IF "ticks" \in S THEN 1 ELSE 0)
           + (IF "ptable" \in S THEN 1 ELSE 0)

\* pushcli() and popcli() match the locks: no CPU takes an interrupt with a lock
\* held or asked for, none asks for a lock it holds ("acquire" panics), ncli counts
\* its locks (sched() and popcli() panic if it does not), and with no lock and out
\* of handlers it takes interrupts again.
CliMatches ==
  \A c \in Cpus :
    LET held == {l \in Locks : cpu[l] = c}
    IN /\ Wanted(c) \cap held = {}
       /\ ncli[c] = Size(held) + Size(Wanted(c))
       /\ ints[c] <=> Base(c) /\ ncli[c] = 0
       /\ ppc[c] = "switch" => held = {"ptable"}

\* The ring holds the input that can be read and then the line being edited, as
\* typed, with ^U and backspace done; it never holds more than it has room for,
\* whatever its unsigned indexes wrapped to.
RingMatches ==
  /\ (w - r) % UINTS = Len(ready)
  /\ (e - w) % UINTS = Len(line)
  /\ Len(ready) + Len(line) <= INPUT_BUF
  /\ \A k \in 1 .. Len(ready \o line) :
       (ready \o line)[k] = buf[((r + (k - 1)) % UINTS) % INPUT_BUF]

\* A full ring can be read: typing does not get stuck on a line too long.
FullIsReadable == Full => r # w

\* Types are kept, and consoleintr() and consoleread() keep the input and never get
\* stuck with it.
InputKept == TypeOK /\ RingMatches /\ FullIsReadable

\* A process that sleeps in consoleread() or sys_sleep() has still to wait, or a
\* handler is about to wake it.
NoLostWakeup ==
  \A c \in Cpus :
    ppc[c] = "asleep" /\ ~Waits(c) =>
      ipc \in {"age", "aged", "wake", "wakeup"} /\ kind = Lock(c)

\* sys_sleep() of a process that is not killed returns after that many ticks, no
\* fewer, even if the counter wraps.
SleepsEnough ==
  [][\A c \in Cpus : op[c] = "sleep" /\ op'[c] = "none" /\ ~killed[c] => slept[c] = NTICKS]_vars
=============================================================================
