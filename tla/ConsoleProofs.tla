---------------------------- MODULE ConsoleProofs ----------------------------
(***************************************************************************)
(* Proofs about spin locks, interrupts, the input of the console and       *)
(* sys_sleep(), for any number of CPUs, any size of the ring and any       *)
(* number of ticks.                                                        *)
(***************************************************************************)
EXTENDS Console, TLAPS

\* Where the process of a CPU neither holds nor asks for a lock.
Quiet == {"user", "asleep", "runnable", "relock"}

\* CPU c is where the code holds lock l: the process, or the scheduler in its
\* place, or an interrupt handler.
Holds(c, l) ==
  \/ ppc[c] \in {"in", "sleep", "slept"} /\ l = Lock(c)
  \/ ppc[c] \in {"slept", "switch", "woken"} /\ l = "ptable"
  \/ c = CPU0 /\ ipc \in {"in", "age", "aged", "wake", "wakeup", "end", "dumped"} /\ l = kind
  \/ c = CPU0 /\ ipc \in {"aged", "wakeup"} /\ l = "ptable"

\* Locks are held by who is where the code holds them.
LockInv == \A c \in Cpus, l \in Locks : cpu[l] = c <=> Holds(c, l)

\* How many acquire() are open, or under way, at a place of the code.
ProcDepth(c) == IF ppc[c] \in Quiet THEN 0 ELSE IF ppc[c] \in {"sleep", "slept"} THEN 2 ELSE 1
IntDepth == IF ipc \in {"age", "aged", "wake", "wakeup"} THEN 2 ELSE 1
Depth(c) == IF Base(c) THEN ProcDepth(c) ELSE IntDepth

\* pushcli() and popcli(): ncli is the depth, a handler runs only over code without
\* locks, and the interrupts that were on when a process took its first lock are on
\* when it has given up the last, though it may have slept in between.
CliOk(c) ==
  /\ ncli[c] = Depth(c)
  /\ ~Base(c) => ppc[c] \in Quiet
  /\ ints[c] <=> Base(c) /\ Depth(c) = 0
  /\ Base(c) /\ Depth(c) > 0 => intena[c]
  /\ ppc[c] \in {"asleep", "runnable", "run"} => saved[c]
CliInv == \A c \in Cpus : CliOk(c)

\* What a call or a handler is about, at each place of the code.
CallOk(c) ==
  /\ op[c] = "none" <=> ppc[c] = "user"
  /\ ppc[c] \notin {"user", "first", "in"} => op[c] \in {"read", "sleep"}
  /\ op[c] = "read" => n[c] > 0
KindInv ==
  /\ ipc = "none" <=> kind = "none"
  /\ ipc \in {"age", "aged", "end"} => kind = "ticks"
  /\ ipc \in {"dump", "dumped"} => kind = "cons"
CallInv == KindInv /\ \A c \in Cpus : CallOk(c)

\* Until it gives up the lock of its call, a process that is going to sleep has to
\* wait; after that a handler may have changed this, and then is about to wake it.
WaitOk(c) ==
  /\ ppc[c] \in {"sleep", "slept"} => Waits(c)
  /\ ppc[c] \in {"switch", "asleep"} /\ ~Waits(c) =>
       ipc \in {"age", "aged", "wake", "wakeup"} /\ kind = Lock(c)
WaitInv == \A c \in Cpus : WaitOk(c)

\* The unsigned difference is the number of ticks, as long as it matters.
ClockOk(c) ==
  /\ op[c] # "sleep" \/ ppc[c] = "first" => slept[c] = 0
  /\ op[c] = "sleep" /\ ppc[c] # "first" /\ slept[c] < NTICKS => Elapsed(c) = slept[c]
ClockInv == \A c \in Cpus : ClockOk(c)

\* The line being edited has no end of line in it, and does not fill the ring up.
InputInv ==
  /\ RingMatches
  /\ Len(ready) + Len(line) = INPUT_BUF => line = <<>>
  /\ \A k \in 1 .. Len(line) : line[k] \notin {"nl", "D"}

\* The inductive invariant.
IInv == TypeOK /\ LockInv /\ CliInv /\ CallInv /\ WaitInv /\ ClockInv /\ InputInv

-----------------------------------------------------------------------------
(* Remainders: unsigned counters that wrap, and the indexes of rings.      *)

\* A remainder is below the divisor.
LEMMA ModRange ==
  ASSUME NEW U \in Nat \ {0}, NEW x \in Int
  PROVE  x % U \in 0 .. U - 1
OBVIOUS

\* The remainder of a number below the divisor.
LEMMA ModSmall ==
  ASSUME NEW U \in Nat \ {0}, NEW x \in 0 .. U - 1
  PROVE  x % U = x
OBVIOUS

\* The remainder of a number that has passed the divisor once.
LEMMA ModLess ==
  ASSUME NEW U \in Nat \ {0}, NEW x \in U .. U + U - 1
  PROVE  x % U = x - U
OBVIOUS

\* The remainder of a number that has gone below zero once.
LEMMA ModNeg ==
  ASSUME NEW U \in Nat \ {0}, NEW x \in (1 - U) .. -1
  PROVE  x % U = x + U
OBVIOUS

\* Multiples of B are apart.
LEMMA MultStep ==
  ASSUME NEW B \in Nat \ {0}, NEW q \in Int, NEW s \in Int, q > s
  PROVE B * q >= B * s + B
<1>1. q - s \in Nat /\ q - s >= 1
  OBVIOUS
<1> DEFINE t == q - s
<1>2. B * q = B * s + B * t
  OBVIOUS
<1>3. B * t >= B
  <2>1. t \in Nat /\ t >= 1 BY <1>1
  <2> HIDE DEF t
  <2> QED BY <2>1
<1> QED BY <1>2, <1>3

\* The remainder is the only one.
LEMMA ModUnique ==
  ASSUME NEW B \in Nat \ {0}, NEW q \in Int, NEW m \in 0 .. B - 1
  PROVE (B * q + m) % B = m
<1> DEFINE x == B * q + m
<1>1. x \in Int /\ x % B \in 0 .. B - 1 /\ x \div B \in Int /\ x = B * (x \div B) + (x % B)
  OBVIOUS
<1>2. CASE x \div B = q
  BY <1>1, <1>2
<1>3. CASE x \div B > q
  BY <1>1, <1>3, MultStep
<1>4. CASE x \div B < q
  BY <1>1, <1>4, MultStep
<1> QED BY <1>1, <1>2, <1>3, <1>4

\* A multiple of B more or less does not change the remainder: an index of a ring is
\* the same whether its counter has wrapped or not.
LEMMA ModMult ==
  ASSUME NEW U \in Nat \ {0}, NEW B \in Nat \ {0}, U % B = 0, NEW x \in Int
  PROVE (x + U) % B = x % B
<1>1. x % B \in 0 .. B - 1 /\ x \div B \in Int /\ x = B * (x \div B) + (x % B)
  OBVIOUS
<1>2. U \div B \in Int /\ U = B * (U \div B)
  OBVIOUS
<1>3. PICK q \in Int : q = (x \div B) + (U \div B)
  BY <1>1, <1>2
<1>4. x + U = B * q + (x % B)
  BY <1>1, <1>2, <1>3
<1>5. (B * q + (x % B)) % B = x % B
  BY <1>1, ModUnique
<1> QED BY <1>4, <1>5

\* Less than B apart, two counters are at different places of the ring.
LEMMA ModDist ==
  ASSUME NEW B \in Nat \ {0}, NEW x \in Int, NEW d \in 1 .. B - 1
  PROVE (x + d) % B # x % B
<1> DEFINE y == x + d
<1>1. x % B \in 0 .. B - 1 /\ x \div B \in Int /\ x = B * (x \div B) + (x % B)
  OBVIOUS
<1>2. y % B \in 0 .. B - 1 /\ y \div B \in Int /\ y = B * (y \div B) + (y % B)
  OBVIOUS
<1>3. SUFFICES ASSUME y % B = x % B PROVE FALSE
  OBVIOUS
<1>4. B * (y \div B) = B * (x \div B) + d
  BY <1>1, <1>2, <1>3
<1>5. B * (y \div B) \in Int /\ B * (x \div B) \in Int BY <1>1, <1>2
<1>6. CASE y \div B > x \div B
  <2>1. B * (y \div B) >= B * (x \div B) + B BY <1>1, <1>2, <1>6, MultStep
  <2> QED BY <2>1, <1>4, <1>5
<1>7. CASE y \div B < x \div B
  <2>1. B * (x \div B) >= B * (y \div B) + B BY <1>1, <1>2, <1>7, MultStep
  <2> QED BY <2>1, <1>4, <1>5
<1>8. CASE y \div B = x \div B
  BY <1>4, <1>8, <1>5
<1> QED BY <1>1, <1>2, <1>6, <1>7, <1>8

-----------------------------------------------------------------------------
(* Updates of tables, and what a step leaves alone.                        *)

\* What a step leaves alone of CPU d.
Kept(d) ==
  /\ ppc'[d] = ppc[d] /\ op'[d] = op[d] /\ n'[d] = n[d] /\ ticks0'[d] = ticks0[d]
  /\ ncli'[d] = ncli[d] /\ ints'[d] = ints[d] /\ intena'[d] = intena[d] /\ saved'[d] = saved[d]
  /\ slept'[d] = slept[d]

\* The parts of TypeOK about the locks, the CPUs, the calls and the handler; and
\* about the input and the clock.
CpuTypes ==
  /\ cpu \in [Locks -> Cpus \cup {NOCPU}]
  /\ ints \in [Cpus -> BOOLEAN] /\ ncli \in [Cpus -> 0 .. 2]
  /\ intena \in [Cpus -> BOOLEAN] /\ saved \in [Cpus -> BOOLEAN]
CallTypes ==
  /\ ppc \in [Cpus -> Ppc] /\ op \in [Cpus -> {"none", "read", "write", "sleep"}]
  /\ n \in [Cpus -> 0 .. READ] /\ ticks0 \in [Cpus -> 0 .. UINTS - 1]
  /\ killed \in [Cpus -> BOOLEAN]
IntTypes ==
  /\ ipc \in {"none", "first", "in", "age", "aged", "wake", "wakeup", "end", "dump", "dumped"}
  /\ kind \in {"none", "cons", "ticks"}
  /\ doprocdump \in BOOLEAN
InputTypes ==
  /\ buf \in [0 .. INPUT_BUF - 1 -> Chars \cup {"none"}]
  /\ r \in 0 .. UINTS - 1 /\ w \in 0 .. UINTS - 1 /\ e \in 0 .. UINTS - 1
  /\ line \in Seq(Chars) /\ ready \in Seq(Chars)
ClockTypes == ticks \in 0 .. UINTS - 1 /\ slept \in [Cpus -> 0 .. NTICKS]

\* TypeOK in parts.
LEMMA Types ==
  /\ TypeOK <=> CpuTypes /\ CallTypes /\ IntTypes /\ InputTypes /\ ClockTypes
  /\ TypeOK' <=> CpuTypes' /\ CallTypes' /\ IntTypes' /\ InputTypes' /\ ClockTypes'
BY Zenon DEF TypeOK, CpuTypes, CallTypes, IntTypes, InputTypes, ClockTypes

\* A lock is taken.
LEMMA LockTaken ==
  ASSUME CpuTypes, LockInv, NEW c \in Cpus, NEW l \in Locks, cpu[l] = NOCPU, cpu' = Set(cpu, l, c),
         \A d \in Cpus, k \in Locks : Holds(d, k)' <=> Holds(d, k) \/ (d = c /\ k = l)
  PROVE  LockInv'
<1>1. cpu'[l] = c /\ \A k \in Locks : k # l => cpu'[k] = cpu[k]
  <2>1. cpu \in [Locks -> Cpus \cup {NOCPU}]
    BY Zenon DEF CpuTypes
  <2> QED BY <2>1 DEF Set
<1>2. NOCPU \notin Cpus
  BY Zenon, ConsoleAssumption
<1> SUFFICES ASSUME NEW d \in Cpus, NEW k \in Locks
             PROVE  cpu'[k] = d <=> Holds(d, k)'
  BY Zenon DEF LockInv
<1>3. /\ cpu[k] = d <=> Holds(d, k)
      /\ cpu[l] = d <=> Holds(d, l)
      /\ cpu[l] = c <=> Holds(c, l)
  BY Zenon DEF LockInv
<1> QED
  BY Zenon, <1>1, <1>2, <1>3

\* A lock is given up.
LEMMA LockGiven ==
  ASSUME CpuTypes, LockInv, NEW c \in Cpus, NEW l \in Locks, Holds(c, l), cpu' = Set(cpu, l, NOCPU),
         \A d \in Cpus, k \in Locks : Holds(d, k)' <=> Holds(d, k) /\ ~(d = c /\ k = l)
  PROVE  LockInv'
<1>1. cpu'[l] = NOCPU /\ \A k \in Locks : k # l => cpu'[k] = cpu[k]
  <2>1. cpu \in [Locks -> Cpus \cup {NOCPU}]
    BY Zenon DEF CpuTypes
  <2> QED BY <2>1 DEF Set
<1>2. NOCPU \notin Cpus
  BY Zenon, ConsoleAssumption
<1> SUFFICES ASSUME NEW d \in Cpus, NEW k \in Locks
             PROVE  cpu'[k] = d <=> Holds(d, k)'
  BY Zenon DEF LockInv
<1>3. /\ cpu[k] = d <=> Holds(d, k)
      /\ cpu[l] = d <=> Holds(d, l)
      /\ cpu[l] = c <=> Holds(c, l)
  BY Zenon DEF LockInv
<1> QED
  BY Zenon, <1>1, <1>2, <1>3

\* No lock changes hands.
LEMMA LockSame ==
  ASSUME LockInv, cpu' = cpu, \A d \in Cpus, k \in Locks : Holds(d, k)' <=> Holds(d, k)
  PROVE  LockInv'
BY Zenon DEF LockInv

\* The other CPUs in a step of the process of CPU c: what the invariant says of
\* them is still true.
LEMMA ProcFrame ==
  ASSUME CliInv, CallInv, WaitInv, ClockInv, NEW c \in Cpus,
         \A d \in Cpus : d # c => Kept(d),
         UNCHANGED <<ipc, kind, r, w, ticks>>,
         CliOk(c)', CallOk(c)', WaitOk(c)', ClockOk(c)'
  PROVE  CliInv' /\ CallInv' /\ WaitInv' /\ ClockInv'
<1>1. ASSUME NEW d \in Cpus, d # c
      PROVE  CliOk(d)' /\ CallOk(d)' /\ WaitOk(d)' /\ ClockOk(d)'
  <2>1. Kept(d) /\ CliOk(d) /\ CallOk(d) /\ WaitOk(d) /\ ClockOk(d)
    BY Zenon, <1>1 DEF CliInv, CallInv, WaitInv, ClockInv
  <2>2. CliOk(d)' /\ CallOk(d)'
    BY Zenon, <2>1 DEF CliOk, CallOk, Kept, Depth, ProcDepth, IntDepth, Base
  <2>3. WaitOk(d)' /\ ClockOk(d)'
    BY Zenon, <2>1 DEF WaitOk, ClockOk, Kept, Waits, Elapsed, Lock
  <2> QED BY Zenon, <2>2, <2>3
<1>2. KindInv'
  BY Zenon DEF CallInv, KindInv
<1> QED
  BY Zenon, <1>1, <1>2 DEF CliInv, CallInv, WaitInv, ClockInv

\* pushcli().
LEMMA Pushed ==
  ASSUME CpuTypes, NEW c \in Cpus, pushcli(c)
  PROVE  /\ ints'[c] = FALSE /\ intena'[c] = Intena(c) /\ ncli'[c] = ncli[c] + 1
         /\ \A d \in Cpus : d # c => ints'[d] = ints[d] /\ intena'[d] = intena[d] /\ ncli'[d] = ncli[d]
         /\ ints' \in [Cpus -> BOOLEAN] /\ intena' \in [Cpus -> BOOLEAN]
         /\ ncli[c] < 2 => ncli' \in [Cpus -> 0 .. 2]
<1>1. Intena(c) \in BOOLEAN
  BY Zenon DEF Intena, CpuTypes
<1> QED BY <1>1 DEF pushcli, Set, CpuTypes

\* popcli().
LEMMA Popped ==
  ASSUME CpuTypes, NEW c \in Cpus, popcli(c)
  PROVE  /\ ints'[c] = (ncli[c] = 1 /\ intena[c]) /\ ncli'[c] = ncli[c] - 1 /\ intena' = intena
         /\ \A d \in Cpus : d # c => ints'[d] = ints[d] /\ ncli'[d] = ncli[d]
         /\ ints' \in [Cpus -> BOOLEAN]
         /\ ncli[c] > 0 => ncli' \in [Cpus -> 0 .. 2]
<1>1. (ncli[c] = 1 /\ intena[c]) \in BOOLEAN
  BY Zenon
<1> QED BY <1>1 DEF popcli, Set, CpuTypes

\* pushcli() of a process, which gets one level deeper.
LEMMA ProcPush ==
  ASSUME CpuTypes, NEW c \in Cpus, CliOk(c), Base(c), pushcli(c), UNCHANGED <<cpu, saved, ipc>>,
         ProcDepth(c) \in 0 .. 1, ProcDepth(c)' = ProcDepth(c) + 1,
         ppc'[c] \in {"asleep", "runnable", "run"} => saved[c]
  PROVE  CpuTypes' /\ CliOk(c)'
<1>1. Base(c)' /\ Depth(c) = ProcDepth(c) /\ Depth(c)' = ProcDepth(c)'
  BY Zenon DEF Base, Depth
<1>2. ncli[c] = ProcDepth(c) /\ (ints[c] <=> ProcDepth(c) = 0) /\ (ProcDepth(c) > 0 => intena[c])
  BY Zenon, <1>1 DEF CliOk
<1>3. /\ ints'[c] = FALSE /\ intena'[c] = Intena(c) /\ ncli'[c] = ncli[c] + 1
      /\ ints' \in [Cpus -> BOOLEAN] /\ intena' \in [Cpus -> BOOLEAN]
      /\ ncli[c] < 2 => ncli' \in [Cpus -> 0 .. 2]
  BY Zenon, Pushed
<1>4. ProcDepth(c) = 0 \/ ProcDepth(c) > 0
  OBVIOUS
<1>5. Intena(c)
  BY Zenon, <1>2, <1>4 DEF Intena
<1>6. ncli[c] < 2 /\ ncli'[c] = ProcDepth(c)' /\ ProcDepth(c)' # 0
  BY <1>2, <1>3
<1>7. CpuTypes'
  BY Zenon, <1>3, <1>6 DEF CpuTypes
<1> QED
  BY Zenon, <1>1, <1>3, <1>5, <1>6, <1>7 DEF CliOk

\* popcli() of a process, which gets out of a level.
LEMMA ProcPop ==
  ASSUME CpuTypes, NEW c \in Cpus, CliOk(c), Base(c), popcli(c), UNCHANGED <<saved, ipc>>,
         cpu' \in [Locks -> Cpus \cup {NOCPU}],
         ProcDepth(c) \in 1 .. 2, ProcDepth(c)' = ProcDepth(c) - 1,
         ppc'[c] \notin {"asleep", "runnable", "run"}
  PROVE  CpuTypes' /\ CliOk(c)'
<1>1. Base(c)' /\ Depth(c) = ProcDepth(c) /\ Depth(c)' = ProcDepth(c)' /\ ProcDepth(c) > 0
  BY DEF Base, Depth
<1>2. ncli[c] = ProcDepth(c) /\ intena[c]
  BY Zenon, <1>1 DEF CliOk
<1>3. /\ ints'[c] = (ncli[c] = 1 /\ intena[c]) /\ ncli'[c] = ncli[c] - 1 /\ intena' = intena
      /\ ints' \in [Cpus -> BOOLEAN]
      /\ ncli[c] > 0 => ncli' \in [Cpus -> 0 .. 2]
  BY Zenon, Popped
<1>4. ncli[c] > 0 /\ ncli'[c] = ProcDepth(c)' /\ (ncli[c] = 1 <=> ProcDepth(c)' = 0)
  BY <1>2, <1>3
<1>5. CpuTypes'
  BY Zenon, <1>3, <1>4 DEF CpuTypes
<1> QED
  BY Zenon, <1>1, <1>2, <1>3, <1>4, <1>5 DEF CliOk

\* A process stays at its level.
LEMMA ProcStay ==
  ASSUME CpuTypes, NEW c \in Cpus, CliOk(c), Base(c), UNCHANGED <<ints, ncli, intena, saved, ipc>>,
         cpu' \in [Locks -> Cpus \cup {NOCPU}], ProcDepth(c)' = ProcDepth(c),
         ppc'[c] \notin {"asleep", "runnable", "run"}
  PROVE  CpuTypes' /\ CliOk(c)'
<1>1. Base(c)' /\ Depth(c) = ProcDepth(c) /\ Depth(c)' = ProcDepth(c)'
  BY Zenon DEF Base, Depth
<1> QED
  BY Zenon, <1>1 DEF CliOk, CpuTypes

\* What the invariant says of CPU c.
LEMMA InvAt ==
  ASSUME IInv, NEW c \in Cpus
  PROVE  /\ CpuTypes /\ CallTypes /\ IntTypes /\ InputTypes /\ ClockTypes
         /\ LockInv /\ CliInv /\ CallInv /\ KindInv /\ WaitInv /\ ClockInv /\ InputInv
         /\ CliOk(c) /\ CallOk(c) /\ WaitOk(c) /\ ClockOk(c)
BY Zenon, Types DEF IInv, CliInv, CallInv, WaitInv, ClockInv

\* A CPU that runs a handler does so over code that holds no lock, so at Base(c)
\* only the process of CPU c holds locks; and ptable.lock is not the lock of a call.
LEMMA LockAlone ==
  ASSUME IInv, NEW c \in Cpus, Base(c), NEW l
  PROVE  /\ Lock(c) # "ptable"
         /\ Holds(c, l) <=> \/ ppc[c] \in {"in", "sleep", "slept"} /\ l = Lock(c)
                            \/ ppc[c] \in {"slept", "switch", "woken"} /\ l = "ptable"
BY Zenon DEF Base, Lock, Holds

\* A step of the process of CPU c that leaves the input, the clock and the handler
\* alone.
LEMMA ProcStep ==
  ASSUME IInv, NEW c \in Cpus, \A d \in Cpus : d # c => Kept(d),
         UNCHANGED <<ipc, kind, doprocdump, buf, r, w, e, line, ready, ticks>>,
         CpuTypes', CallTypes', ClockTypes', LockInv',
         CliOk(c)', CallOk(c)', WaitOk(c)', ClockOk(c)'
  PROVE  IInv'
<1>1. IntTypes' /\ InputTypes' /\ InputInv'
  BY Zenon, InvAt DEF IntTypes, InputTypes, InputInv, RingMatches
<1>2. CliInv' /\ CallInv' /\ WaitInv' /\ ClockInv'
  BY Zenon, InvAt, ProcFrame
<1> QED
  BY Zenon, <1>1, <1>2, Types DEF IInv

\* sleep(): up to acquire() of ptable.lock.
LEMMA SleepStep ==
  ASSUME IInv, NEW c \in Cpus, sleep(c)
  PROVE  IInv'
<1>1. /\ CpuTypes /\ CallTypes /\ ClockTypes /\ LockInv
      /\ CliOk(c) /\ CallOk(c) /\ WaitOk(c) /\ ClockOk(c)
  BY Zenon, InvAt
<1>2. /\ Base(c) /\ ppc[c] = "in" /\ ppc' = Set(ppc, c, "sleep")
      /\ Waits(c)
      /\ pushcli(c)
      /\ UNCHANGED <<cpu, saved, op, n, ticks0, killed, slept>>
      /\ UNCHANGED <<ipc, kind, doprocdump, buf, r, w, e, line, ready, ticks>>
  BY Zenon DEF sleep, cli, call, intr, input, clock
<1>3. ppc'[c] = "sleep" /\ (\A d \in Cpus : d # c => ppc'[d] = ppc[d]) /\ ppc' \in [Cpus -> Ppc]
  BY <1>1, <1>2 DEF CallTypes, Ppc, Set
<1>4. CpuTypes' /\ CliOk(c)'
  <2>1. ProcDepth(c) = 1 /\ ProcDepth(c)' = 2
    BY Zenon, <1>2, <1>3 DEF ProcDepth, Quiet
  <2>3. ProcDepth(c) \in 0 .. 1 /\ ProcDepth(c)' = ProcDepth(c) + 1
    BY <2>1
  <2> QED BY Zenon, <1>1, <1>2, <1>3, <2>3, ProcPush
<1>5. \A d \in Cpus : d # c => Kept(d)
  BY Zenon, <1>1, <1>2, <1>3, Pushed DEF Kept
<1>6. CallTypes' /\ ClockTypes'
  BY Zenon, <1>1, <1>2, <1>3 DEF CallTypes, ClockTypes
<1>7. LockInv'
  <2>1. \A d \in Cpus, k \in Locks : Holds(d, k)' <=> Holds(d, k)
    BY Zenon, <1>2, <1>3 DEF Holds, Lock
  <2> QED BY Zenon, <1>1, <1>2, <2>1, LockSame
<1>8. CallOk(c)' /\ WaitOk(c)' /\ ClockOk(c)'
  BY Zenon, <1>1, <1>2, <1>3 DEF CallOk, WaitOk, ClockOk, Waits, Elapsed, Lock
<1> QED
  BY Zenon, <1>2, <1>4, <1>5, <1>6, <1>7, <1>8, ProcStep

\* sleep(): with ptable.lock.
LEMMA SleepLockedStep ==
  ASSUME IInv, NEW c \in Cpus, sleep_locked(c)
  PROVE  IInv'
<1>1. /\ CpuTypes /\ CallTypes /\ ClockTypes /\ LockInv
      /\ CliOk(c) /\ CallOk(c) /\ WaitOk(c) /\ ClockOk(c)
  BY Zenon, InvAt
<1>2. /\ Base(c) /\ ppc[c] = "sleep" /\ ppc' = Set(ppc, c, "slept")
      /\ cpu["ptable"] = NOCPU /\ cpu' = Set(cpu, "ptable", c)
      /\ UNCHANGED <<ints, ncli, intena, saved, op, n, ticks0, killed, slept>>
      /\ UNCHANGED <<ipc, kind, doprocdump, buf, r, w, e, line, ready, ticks>>
  BY Zenon DEF sleep_locked, xchg, cli, call, intr, input, clock
<1>3. ppc'[c] = "slept" /\ (\A d \in Cpus : d # c => ppc'[d] = ppc[d]) /\ ppc' \in [Cpus -> Ppc]
  BY <1>1, <1>2 DEF CallTypes, Ppc, Set
<1>4. CpuTypes' /\ CliOk(c)'
  <2>1. ProcDepth(c) = 2 /\ ProcDepth(c)' = 2
    BY Zenon, <1>2, <1>3 DEF ProcDepth, Quiet
  <2>2. cpu' \in [Locks -> Cpus \cup {NOCPU}]
    BY Zenon, <1>1, <1>2 DEF CpuTypes, Set
  <2> QED BY Zenon, <1>1, <1>2, <1>3, <2>2, <2>1, ProcStay
<1>5. \A d \in Cpus : d # c => Kept(d)
  BY Zenon, <1>1, <1>2, <1>3 DEF Kept
<1>6. CallTypes' /\ ClockTypes'
  BY Zenon, <1>1, <1>2, <1>3 DEF CallTypes, ClockTypes
<1>7. LockInv'
  <2>1. \A d \in Cpus, k \in Locks : Holds(d, k)' <=> Holds(d, k) \/ (d = c /\ k = "ptable")
    BY Zenon, <1>2, <1>3 DEF Holds, Lock
  <2>2. "ptable" \in Locks
    BY Zenon DEF Locks, Lock
  <2> QED BY Zenon, <1>1, <1>2, <2>1, <2>2, LockTaken
<1>8. CallOk(c)' /\ WaitOk(c)' /\ ClockOk(c)'
  BY Zenon, <1>1, <1>2, <1>3 DEF CallOk, WaitOk, ClockOk, Waits, Elapsed, Lock
<1> QED
  BY Zenon, <1>2, <1>4, <1>5, <1>6, <1>7, <1>8, ProcStep

\* sleep(): without the lock of the call.
LEMMA SleepReleaseStep ==
  ASSUME IInv, NEW c \in Cpus, sleep_release(c)
  PROVE  IInv'
<1>1. /\ CpuTypes /\ CallTypes /\ ClockTypes /\ LockInv
      /\ CliOk(c) /\ CallOk(c) /\ WaitOk(c) /\ ClockOk(c)
  BY Zenon, InvAt
<1>2. /\ Base(c) /\ ppc[c] = "slept" /\ ppc' = Set(ppc, c, "switch")
      /\ cpu' = Set(cpu, Lock(c), NOCPU)
      /\ popcli(c)
      /\ UNCHANGED <<saved, op, n, ticks0, killed, slept>>
      /\ UNCHANGED <<ipc, kind, doprocdump, buf, r, w, e, line, ready, ticks>>
  BY Zenon DEF sleep_release, release, cli, call, intr, input, clock
<1>3. ppc'[c] = "switch" /\ (\A d \in Cpus : d # c => ppc'[d] = ppc[d]) /\ ppc' \in [Cpus -> Ppc]
  BY <1>1, <1>2 DEF CallTypes, Ppc, Set
<1>4. CpuTypes' /\ CliOk(c)'
  <2>1. ProcDepth(c) = 2 /\ ProcDepth(c)' = 1
    BY Zenon, <1>2, <1>3 DEF ProcDepth, Quiet
  <2>2. cpu' \in [Locks -> Cpus \cup {NOCPU}]
    BY Zenon, <1>1, <1>2 DEF CpuTypes, Set
  <2>3. ProcDepth(c) \in 1 .. 2 /\ ProcDepth(c)' = ProcDepth(c) - 1
    BY <2>1
  <2> QED BY Zenon, <1>1, <1>2, <1>3, <2>2, <2>3, ProcPop
<1>5. \A d \in Cpus : d # c => Kept(d)
  BY Zenon, <1>1, <1>2, <1>3, Popped DEF Kept
<1>6. CallTypes' /\ ClockTypes'
  BY Zenon, <1>1, <1>2, <1>3 DEF CallTypes, ClockTypes
<1>7. LockInv'
  <2>1. Holds(c, Lock(c)) /\ Lock(c) \in Locks
    BY Zenon, <1>2 DEF Holds, Locks, Lock
  <2>2. \A d \in Cpus, k \in Locks : Holds(d, k)' <=> Holds(d, k) /\ ~(d = c /\ k = Lock(c))
    <3> SUFFICES ASSUME NEW d \in Cpus, NEW k \in Locks
                 PROVE  Holds(d, k)' <=> Holds(d, k) /\ ~(d = c /\ k = Lock(c))
      OBVIOUS
    <3>1. CASE d # c
      BY Zenon, <1>2, <1>3, <3>1 DEF Holds, Lock
    <3>2. CASE d = c
      BY Zenon, <1>2, <1>3, <3>2, LockAlone DEF Holds, Lock, Base
    <3> QED BY Zenon, <3>1, <3>2
  <2> QED BY Zenon, <1>1, <1>2, <2>1, <2>2, LockGiven
<1>8. CallOk(c)' /\ WaitOk(c)' /\ ClockOk(c)'
  BY Zenon, <1>1, <1>2, <1>3 DEF CallOk, WaitOk, ClockOk, Waits, Elapsed, Lock
<1> QED
  BY Zenon, <1>2, <1>4, <1>5, <1>6, <1>7, <1>8, ProcStep

\* The scheduler: up to acquire() of ptable.lock.
LEMMA SchedulerStep ==
  ASSUME IInv, NEW c \in Cpus, scheduler(c)
  PROVE  IInv'
<1>1. /\ CpuTypes /\ CallTypes /\ ClockTypes /\ LockInv
      /\ CliOk(c) /\ CallOk(c) /\ WaitOk(c) /\ ClockOk(c)
  BY Zenon, InvAt
<1>2. /\ Base(c) /\ ppc[c] = "runnable" /\ ppc' = Set(ppc, c, "run")
      /\ pushcli(c)
      /\ UNCHANGED <<cpu, saved, op, n, ticks0, killed, slept>>
      /\ UNCHANGED <<ipc, kind, doprocdump, buf, r, w, e, line, ready, ticks>>
  BY Zenon DEF scheduler, cli, call, intr, input, clock
<1>3. ppc'[c] = "run" /\ (\A d \in Cpus : d # c => ppc'[d] = ppc[d]) /\ ppc' \in [Cpus -> Ppc]
  BY <1>1, <1>2 DEF CallTypes, Ppc, Set
<1>4. CpuTypes' /\ CliOk(c)'
  <2>1. ProcDepth(c) = 0 /\ ProcDepth(c)' = 1
    BY Zenon, <1>2, <1>3 DEF ProcDepth, Quiet
  <2>3. ProcDepth(c) \in 0 .. 1 /\ ProcDepth(c)' = ProcDepth(c) + 1
    BY <2>1
  <2>4. saved[c]
    BY Zenon, <1>1, <1>2 DEF CliOk
  <2> QED BY Zenon, <1>1, <1>2, <1>3, <2>3, <2>4, ProcPush
<1>5. \A d \in Cpus : d # c => Kept(d)
  BY Zenon, <1>1, <1>2, <1>3, Pushed DEF Kept
<1>6. CallTypes' /\ ClockTypes'
  BY Zenon, <1>1, <1>2, <1>3 DEF CallTypes, ClockTypes
<1>7. LockInv'
  <2>1. \A d \in Cpus, k \in Locks : Holds(d, k)' <=> Holds(d, k)
    BY Zenon, <1>2, <1>3 DEF Holds, Lock
  <2> QED BY Zenon, <1>1, <1>2, <2>1, LockSame
<1>8. CallOk(c)' /\ WaitOk(c)' /\ ClockOk(c)'
  BY Zenon, <1>1, <1>2, <1>3 DEF CallOk, WaitOk, ClockOk, Waits, Elapsed, Lock
<1> QED
  BY Zenon, <1>2, <1>4, <1>5, <1>6, <1>7, <1>8, ProcStep

\* sleep(): without ptable.lock.
LEMMA SleepWokenStep ==
  ASSUME IInv, NEW c \in Cpus, sleep_woken(c)
  PROVE  IInv'
<1>1. /\ CpuTypes /\ CallTypes /\ ClockTypes /\ LockInv
      /\ CliOk(c) /\ CallOk(c) /\ WaitOk(c) /\ ClockOk(c)
  BY Zenon, InvAt
<1>2. /\ Base(c) /\ ppc[c] = "woken" /\ ppc' = Set(ppc, c, "relock")
      /\ cpu' = Set(cpu, "ptable", NOCPU)
      /\ popcli(c)
      /\ UNCHANGED <<saved, op, n, ticks0, killed, slept>>
      /\ UNCHANGED <<ipc, kind, doprocdump, buf, r, w, e, line, ready, ticks>>
  BY Zenon DEF sleep_woken, release, cli, call, intr, input, clock
<1>3. ppc'[c] = "relock" /\ (\A d \in Cpus : d # c => ppc'[d] = ppc[d]) /\ ppc' \in [Cpus -> Ppc]
  BY <1>1, <1>2 DEF CallTypes, Ppc, Set
<1>4. CpuTypes' /\ CliOk(c)'
  <2>1. ProcDepth(c) = 1 /\ ProcDepth(c)' = 0
    BY Zenon, <1>2, <1>3 DEF ProcDepth, Quiet
  <2>2. cpu' \in [Locks -> Cpus \cup {NOCPU}]
    BY Zenon, <1>1, <1>2 DEF CpuTypes, Set
  <2>3. ProcDepth(c) \in 1 .. 2 /\ ProcDepth(c)' = ProcDepth(c) - 1
    BY <2>1
  <2> QED BY Zenon, <1>1, <1>2, <1>3, <2>2, <2>3, ProcPop
<1>5. \A d \in Cpus : d # c => Kept(d)
  BY Zenon, <1>1, <1>2, <1>3, Popped DEF Kept
<1>6. CallTypes' /\ ClockTypes'
  BY Zenon, <1>1, <1>2, <1>3 DEF CallTypes, ClockTypes
<1>7. LockInv'
  <2>1. Holds(c, "ptable") /\ "ptable" \in Locks
    BY Zenon, <1>2 DEF Holds, Locks, Lock
  <2>2. \A d \in Cpus, k \in Locks : Holds(d, k)' <=> Holds(d, k) /\ ~(d = c /\ k = "ptable")
    <3> SUFFICES ASSUME NEW d \in Cpus, NEW k \in Locks
                 PROVE  Holds(d, k)' <=> Holds(d, k) /\ ~(d = c /\ k = "ptable")
      OBVIOUS
    <3>1. CASE d # c
      BY Zenon, <1>2, <1>3, <3>1 DEF Holds, Lock
    <3>2. CASE d = c
      BY Zenon, <1>2, <1>3, <3>2, LockAlone DEF Holds, Lock, Base
    <3> QED BY Zenon, <3>1, <3>2
  <2> QED BY Zenon, <1>1, <1>2, <2>1, <2>2, LockGiven
<1>8. CallOk(c)' /\ WaitOk(c)' /\ ClockOk(c)'
  BY Zenon, <1>1, <1>2, <1>3 DEF CallOk, WaitOk, ClockOk, Waits, Elapsed, Lock
<1> QED
  BY Zenon, <1>2, <1>4, <1>5, <1>6, <1>7, <1>8, ProcStep

\* sleep(): up to acquire() of the lock of the call.
LEMMA SleepRelockStep ==
  ASSUME IInv, NEW c \in Cpus, sleep_relock(c)
  PROVE  IInv'
<1>1. /\ CpuTypes /\ CallTypes /\ ClockTypes /\ LockInv
      /\ CliOk(c) /\ CallOk(c) /\ WaitOk(c) /\ ClockOk(c)
  BY Zenon, InvAt
<1>2. /\ Base(c) /\ ppc[c] = "relock" /\ ppc' = Set(ppc, c, "again")
      /\ pushcli(c)
      /\ UNCHANGED <<cpu, saved, op, n, ticks0, killed, slept>>
      /\ UNCHANGED <<ipc, kind, doprocdump, buf, r, w, e, line, ready, ticks>>
  BY Zenon DEF sleep_relock, cli, call, intr, input, clock
<1>3. ppc'[c] = "again" /\ (\A d \in Cpus : d # c => ppc'[d] = ppc[d]) /\ ppc' \in [Cpus -> Ppc]
  BY <1>1, <1>2 DEF CallTypes, Ppc, Set
<1>4. CpuTypes' /\ CliOk(c)'
  <2>1. ProcDepth(c) = 0 /\ ProcDepth(c)' = 1
    BY Zenon, <1>2, <1>3 DEF ProcDepth, Quiet
  <2>3. ProcDepth(c) \in 0 .. 1 /\ ProcDepth(c)' = ProcDepth(c) + 1
    BY <2>1
  <2> QED BY Zenon, <1>1, <1>2, <1>3, <2>3, ProcPush
<1>5. \A d \in Cpus : d # c => Kept(d)
  BY Zenon, <1>1, <1>2, <1>3, Pushed DEF Kept
<1>6. CallTypes' /\ ClockTypes'
  BY Zenon, <1>1, <1>2, <1>3 DEF CallTypes, ClockTypes
<1>7. LockInv'
  <2>1. \A d \in Cpus, k \in Locks : Holds(d, k)' <=> Holds(d, k)
    BY Zenon, <1>2, <1>3 DEF Holds, Lock
  <2> QED BY Zenon, <1>1, <1>2, <2>1, LockSame
<1>8. CallOk(c)' /\ WaitOk(c)' /\ ClockOk(c)'
  BY Zenon, <1>1, <1>2, <1>3 DEF CallOk, WaitOk, ClockOk, Waits, Elapsed, Lock
<1> QED
  BY Zenon, <1>2, <1>4, <1>5, <1>6, <1>7, <1>8, ProcStep

\* SLEEPING, sched() and the scheduler: without ptable.lock, interrupts on.
LEMMA SchedStep ==
  ASSUME IInv, NEW c \in Cpus, sched(c)
  PROVE  IInv'
<1>1. /\ CpuTypes /\ CallTypes /\ ClockTypes /\ LockInv
      /\ CliOk(c) /\ CallOk(c) /\ WaitOk(c) /\ ClockOk(c)
  BY Zenon, InvAt
<1>2. /\ Base(c) /\ ppc[c] = "switch" /\ ppc' = Set(ppc, c, "asleep")
      /\ saved' = Set(saved, c, intena[c]) /\ ints' = Set(ints, c, TRUE) /\ ncli' = [ncli EXCEPT ![c] = @ - 1]
      /\ cpu' = Set(cpu, "ptable", NOCPU)
      /\ UNCHANGED <<intena, op, n, ticks0, killed, slept>>
      /\ UNCHANGED <<ipc, kind, doprocdump, buf, r, w, e, line, ready, ticks>>
  BY Zenon DEF sched, cli, call, intr, input, clock
<1>3. ppc'[c] = "asleep" /\ (\A d \in Cpus : d # c => ppc'[d] = ppc[d]) /\ ppc' \in [Cpus -> Ppc]
  BY <1>1, <1>2 DEF CallTypes, Ppc, Set
<1>4. CpuTypes' /\ CliOk(c)'
  <2>1. ProcDepth(c) = 1 /\ ProcDepth(c)' = 0
    BY Zenon, <1>2, <1>3 DEF ProcDepth, Quiet
  <2>2. cpu' \in [Locks -> Cpus \cup {NOCPU}]
    BY Zenon, <1>1, <1>2 DEF CpuTypes, Set
  <2>3. ncli[c] = 1 /\ intena[c] = TRUE
    BY <1>1, <1>2, <2>1 DEF CliOk, Depth, CpuTypes
  <2>4. /\ ncli'[c] = 0 /\ ints'[c] = TRUE /\ saved'[c] = TRUE /\ ncli' \in [Cpus -> 0 .. 2]
        /\ ints' \in [Cpus -> BOOLEAN] /\ saved' \in [Cpus -> BOOLEAN]
    BY <1>1, <1>2, <2>3 DEF CpuTypes, Set
  <2>5. Base(c)' /\ Depth(c)' = 0
    BY Zenon, <1>2, <2>1 DEF Depth, Base
  <2>6. ~(Depth(c)' > 0)
    BY <2>5
  <2> QED BY Zenon, <1>1, <1>2, <1>3, <2>2, <2>4, <2>5, <2>6 DEF CliOk, CpuTypes
<1>5. \A d \in Cpus : d # c => Kept(d)
  BY <1>1, <1>2, <1>3 DEF Kept, Set, CpuTypes
<1>6. CallTypes' /\ ClockTypes'
  BY Zenon, <1>1, <1>2, <1>3 DEF CallTypes, ClockTypes
<1>7. LockInv'
  <2>1. Holds(c, "ptable") /\ "ptable" \in Locks
    BY Zenon, <1>2 DEF Holds, Locks, Lock
  <2>2. \A d \in Cpus, k \in Locks : Holds(d, k)' <=> Holds(d, k) /\ ~(d = c /\ k = "ptable")
    <3> SUFFICES ASSUME NEW d \in Cpus, NEW k \in Locks
                 PROVE  Holds(d, k)' <=> Holds(d, k) /\ ~(d = c /\ k = "ptable")
      OBVIOUS
    <3>1. CASE d # c
      BY Zenon, <1>2, <1>3, <3>1 DEF Holds, Lock
    <3>2. CASE d = c
      BY Zenon, <1>2, <1>3, <3>2, LockAlone DEF Holds, Lock, Base
    <3> QED BY Zenon, <3>1, <3>2
  <2> QED BY Zenon, <1>1, <1>2, <2>1, <2>2, LockGiven
<1>8. CallOk(c)' /\ WaitOk(c)' /\ ClockOk(c)'
  BY Zenon, <1>1, <1>2, <1>3 DEF CallOk, WaitOk, ClockOk, Waits, Elapsed, Lock
<1> QED
  BY Zenon, <1>2, <1>4, <1>5, <1>6, <1>7, <1>8, ProcStep

\* The scheduler switches to the process, with ptable.lock, and its intena.
LEMMA SwtchStep ==
  ASSUME IInv, NEW c \in Cpus, swtch(c)
  PROVE  IInv'
<1>1. /\ CpuTypes /\ CallTypes /\ ClockTypes /\ LockInv
      /\ CliOk(c) /\ CallOk(c) /\ WaitOk(c) /\ ClockOk(c)
  BY Zenon, InvAt
<1>2. /\ Base(c) /\ ppc[c] = "run" /\ ppc' = Set(ppc, c, "woken")
      /\ intena' = Set(intena, c, saved[c]) /\ saved' = Set(saved, c, FALSE)
      /\ cpu["ptable"] = NOCPU /\ cpu' = Set(cpu, "ptable", c)
      /\ UNCHANGED <<ints, ncli, op, n, ticks0, killed, slept>>
      /\ UNCHANGED <<ipc, kind, doprocdump, buf, r, w, e, line, ready, ticks>>
  BY Zenon DEF swtch, xchg, cli, call, intr, input, clock
<1>3. ppc'[c] = "woken" /\ (\A d \in Cpus : d # c => ppc'[d] = ppc[d]) /\ ppc' \in [Cpus -> Ppc]
  BY <1>1, <1>2 DEF CallTypes, Ppc, Set
<1>4. CpuTypes' /\ CliOk(c)'
  <2>1. ProcDepth(c) = 1 /\ ProcDepth(c)' = 1
    BY Zenon, <1>2, <1>3 DEF ProcDepth, Quiet
  <2>2. cpu' \in [Locks -> Cpus \cup {NOCPU}]
    BY Zenon, <1>1, <1>2 DEF CpuTypes, Set
  <2>3. saved[c] = TRUE
    BY <1>1, <1>2 DEF CliOk, CpuTypes
  <2>4. /\ intena'[c] = TRUE
        /\ intena' \in [Cpus -> BOOLEAN] /\ saved' \in [Cpus -> BOOLEAN]
    BY <1>1, <1>2, <2>3 DEF CpuTypes, Set
  <2>5. Base(c)' /\ Depth(c)' = Depth(c)
    BY Zenon, <1>2, <2>1 DEF Depth, Base
  <2> QED BY Zenon, <1>1, <1>2, <1>3, <2>2, <2>4, <2>5 DEF CliOk, CpuTypes
<1>5. \A d \in Cpus : d # c => Kept(d)
  BY <1>1, <1>2, <1>3 DEF Kept, Set, CpuTypes
<1>6. CallTypes' /\ ClockTypes'
  BY Zenon, <1>1, <1>2, <1>3 DEF CallTypes, ClockTypes
<1>7. LockInv'
  <2>1. \A d \in Cpus, k \in Locks : Holds(d, k)' <=> Holds(d, k) \/ (d = c /\ k = "ptable")
    BY Zenon, <1>2, <1>3 DEF Holds, Lock
  <2>2. "ptable" \in Locks
    BY Zenon DEF Locks, Lock
  <2> QED BY Zenon, <1>1, <1>2, <2>1, <2>2, LockTaken
<1>8. CallOk(c)' /\ WaitOk(c)' /\ ClockOk(c)'
  BY Zenon, <1>1, <1>2, <1>3 DEF CallOk, WaitOk, ClockOk, Waits, Elapsed, Lock
<1> QED
  BY Zenon, <1>2, <1>4, <1>5, <1>6, <1>7, <1>8, ProcStep


\* acquire() of the lock of a call, where sys_sleep() notes the time.
LEMMA LockedStep ==
  ASSUME IInv, NEW c \in Cpus, locked(c)
  PROVE  IInv'
<1>1. /\ CpuTypes /\ CallTypes /\ ClockTypes /\ LockInv
      /\ CliOk(c) /\ CallOk(c) /\ WaitOk(c) /\ ClockOk(c)
  BY Zenon, InvAt
<1>2. /\ Base(c) /\ ppc[c] \in {"first", "again"} /\ ppc' = Set(ppc, c, "in")
      /\ cpu[Lock(c)] = NOCPU /\ cpu' = Set(cpu, Lock(c), c)
      /\ ticks0' = Set(ticks0, c, IF ppc[c] = "first" /\ op[c] = "sleep" THEN ticks ELSE ticks0[c])
      /\ UNCHANGED <<ints, ncli, intena, saved, op, n, killed, slept>>
      /\ UNCHANGED <<ipc, kind, doprocdump, buf, r, w, e, line, ready, ticks>>
  BY Zenon DEF locked, xchg, cli, call, intr, input, clock
<1>3. ppc'[c] = "in" /\ (\A d \in Cpus : d # c => ppc'[d] = ppc[d]) /\ ppc' \in [Cpus -> Ppc]
  BY <1>1, <1>2 DEF CallTypes, Ppc, Set
<1>4. CpuTypes' /\ CliOk(c)'
  <2>1. ProcDepth(c) = 1 /\ ProcDepth(c)' = 1
    BY Zenon, <1>2, <1>3 DEF ProcDepth, Quiet
  <2>2. cpu' \in [Locks -> Cpus \cup {NOCPU}]
    BY Zenon, <1>1, <1>2 DEF CpuTypes, Set
  <2> QED BY Zenon, <1>1, <1>2, <1>3, <2>1, <2>2, ProcStay
<1>5. /\ ticks0'[c] = IF ppc[c] = "first" /\ op[c] = "sleep" THEN ticks ELSE ticks0[c]
      /\ \A d \in Cpus : d # c => ticks0'[d] = ticks0[d]
      /\ ticks0' \in [Cpus -> 0 .. UINTS - 1]
  BY <1>1, <1>2 DEF CallTypes, ClockTypes, Set
<1>6. \A d \in Cpus : d # c => Kept(d)
  BY Zenon, <1>1, <1>2, <1>3, <1>5 DEF Kept
<1>7. CallTypes' /\ ClockTypes'
  BY Zenon, <1>1, <1>2, <1>3, <1>5 DEF CallTypes, ClockTypes
<1>8. LockInv'
  <2>1. \A d \in Cpus, k \in Locks : Holds(d, k)' <=> Holds(d, k) \/ (d = c /\ k = Lock(c))
    BY Zenon, <1>2, <1>3 DEF Holds, Lock
  <2>2. Lock(c) \in Locks
    BY Zenon DEF Locks, Lock
  <2> QED BY Zenon, <1>1, <1>2, <2>1, <2>2, LockTaken
<1>9. CallOk(c)' /\ WaitOk(c)'
  BY Zenon, <1>1, <1>2, <1>3 DEF CallOk, WaitOk
<1>10. ClockOk(c)'
  <2>1. CASE ppc[c] = "first"
    <3>1. op[c] = "sleep" => slept[c] = 0 /\ Elapsed(c)' = 0
      <4>1. (ticks - ticks) % UINTS = 0
        BY <1>1, ConsoleAssumption, ModSmall DEF ClockTypes
      <4> QED BY Zenon, <1>1, <1>2, <1>5, <2>1, <4>1 DEF Elapsed, ClockOk
    <3> QED BY Zenon, <1>1, <1>2, <1>3, <2>1, <3>1 DEF ClockOk
  <2>2. CASE ppc[c] = "again"
    BY Zenon, <1>1, <1>2, <1>3, <1>5, <2>2 DEF ClockOk, Elapsed
  <2> QED BY Zenon, <1>2, <2>1, <2>2
<1> QED
  BY Zenon, <1>2, <1>4, <1>6, <1>7, <1>8, <1>9, <1>10, ProcStep

\* A system call, up to the acquire() of its lock.
LEMMA SyscallStep ==
  ASSUME IInv, NEW c \in Cpus, syscall(c)
  PROVE  IInv'
<1>1. /\ CpuTypes /\ CallTypes /\ ClockTypes /\ LockInv
      /\ CliOk(c) /\ CallOk(c) /\ WaitOk(c) /\ ClockOk(c)
  BY Zenon, InvAt
<1>2. PICK o \in Ops[c] : op' = Set(op, c, o) /\ n' = Set(n, c, IF o = "read" THEN READ ELSE 0)
  BY Zenon DEF syscall
<1>3. /\ Base(c) /\ ppc[c] = "user" /\ ppc' = Set(ppc, c, "first")
      /\ pushcli(c)
      /\ UNCHANGED <<cpu, saved, ticks0, killed, slept>>
      /\ UNCHANGED <<ipc, kind, doprocdump, buf, r, w, e, line, ready, ticks>>
  BY Zenon DEF syscall, cli, call, intr, input, clock
<1>4. ppc'[c] = "first" /\ (\A d \in Cpus : d # c => ppc'[d] = ppc[d]) /\ ppc' \in [Cpus -> Ppc]
  BY <1>1, <1>3 DEF CallTypes, Ppc, Set
<1>5. o \in {"read", "write", "sleep"}
  BY Zenon, ConsoleAssumption
<1>6. /\ op'[c] = o /\ (\A d \in Cpus : d # c => op'[d] = op[d])
      /\ op' \in [Cpus -> {"none", "read", "write", "sleep"}]
  BY <1>1, <1>2, <1>5 DEF CallTypes, Set
<1>7. /\ n'[c] = IF o = "read" THEN READ ELSE 0
      /\ (\A d \in Cpus : d # c => n'[d] = n[d])
      /\ n' \in [Cpus -> 0 .. READ]
  BY <1>1, <1>2, <1>5, ConsoleAssumption DEF CallTypes, Set
<1>8. CpuTypes' /\ CliOk(c)'
  <2>1. ProcDepth(c) = 0 /\ ProcDepth(c)' = 1
    BY Zenon, <1>3, <1>4 DEF ProcDepth, Quiet
  <2>2. ProcDepth(c) \in 0 .. 1 /\ ProcDepth(c)' = ProcDepth(c) + 1
    BY <2>1
  <2> QED BY Zenon, <1>1, <1>3, <1>4, <2>2, ProcPush
<1>9. \A d \in Cpus : d # c => Kept(d)
  BY Zenon, <1>1, <1>3, <1>4, <1>6, <1>7, Pushed DEF Kept
<1>10. CallTypes' /\ ClockTypes'
  BY Zenon, <1>1, <1>3, <1>4, <1>6, <1>7 DEF CallTypes, ClockTypes
<1>11. LockInv'
  <2>1. \A d \in Cpus, k \in Locks : Holds(d, k)' <=> Holds(d, k)
    BY Zenon, <1>3, <1>4, <1>6 DEF Holds, Lock
  <2> QED BY Zenon, <1>1, <1>3, <2>1, LockSame
<1>12. CallOk(c)' /\ WaitOk(c)' /\ ClockOk(c)'
  <2>1. READ > 0
    BY ConsoleAssumption
  <2>2. CallOk(c)'
    BY Zenon, <1>4, <1>5, <1>6, <1>7, <2>1 DEF CallOk
  <2> QED BY Zenon, <1>1, <1>3, <1>4, <2>2 DEF CallOk, WaitOk, ClockOk
<1> QED
  BY Zenon, <1>3, <1>8, <1>9, <1>10, <1>11, <1>12, ProcStep

\* kill(), which makes a process that sleeps runnable.
LEMMA KillStep ==
  ASSUME IInv, NEW c \in Cpus, kill(c)
  PROVE  IInv'
<1>1. /\ CpuTypes /\ CallTypes /\ ClockTypes /\ LockInv
      /\ CliOk(c) /\ CallOk(c) /\ WaitOk(c) /\ ClockOk(c)
  BY Zenon, InvAt
<1>2. /\ op[c] \in {"read", "sleep"} /\ killed' = Set(killed, c, TRUE)
      /\ ppc' = Set(ppc, c, IF ppc[c] = "asleep" THEN "runnable" ELSE ppc[c])
      /\ UNCHANGED <<cpu, ints, ncli, intena, saved, op, n, ticks0, slept>>
      /\ UNCHANGED <<ipc, kind, doprocdump, buf, r, w, e, line, ready, ticks>>
  BY Zenon DEF kill, cli, intr, input, clock
<1>3. /\ ppc'[c] = IF ppc[c] = "asleep" THEN "runnable" ELSE ppc[c]
      /\ (\A d \in Cpus : d # c => ppc'[d] = ppc[d]) /\ ppc' \in [Cpus -> Ppc]
  BY <1>1, <1>2 DEF CallTypes, Ppc, Set
<1>4. killed' \in [Cpus -> BOOLEAN]
  BY Zenon, <1>1, <1>2 DEF CallTypes, Set
<1>5. CpuTypes' /\ CallTypes' /\ ClockTypes'
  BY Zenon, <1>1, <1>2, <1>3, <1>4 DEF CpuTypes, CallTypes, ClockTypes
<1>6. CliOk(c)'
  <2>1. ProcDepth(c)' = ProcDepth(c) /\ (ppc'[c] \in Quiet <=> ppc[c] \in Quiet)
    BY Zenon, <1>3 DEF ProcDepth, Quiet
  <2> QED BY Zenon, <1>1, <1>2, <1>3, <2>1 DEF CliOk, Depth, Base, IntDepth
<1>7. \A d \in Cpus : d # c => Kept(d)
  BY Zenon, <1>1, <1>2, <1>3 DEF Kept
<1>8. LockInv'
  <2>1. \A d \in Cpus, k \in Locks : Holds(d, k)' <=> Holds(d, k)
    BY Zenon, <1>2, <1>3 DEF Holds, Lock
  <2> QED BY Zenon, <1>1, <1>2, <2>1, LockSame
<1>9. CallOk(c)' /\ WaitOk(c)' /\ ClockOk(c)'
  BY Zenon, <1>1, <1>2, <1>3 DEF CallOk, WaitOk, ClockOk, Waits, Elapsed, Lock
<1> QED
  BY Zenon, <1>2, <1>5, <1>6, <1>7, <1>8, <1>9, ProcStep

\* release() and the return from a call.
LEMMA Returned ==
  ASSUME IInv, NEW c \in Cpus, Base(c), ppc[c] = "in", return(c), UNCHANGED <<ipc, kind>>
  PROVE  /\ \A d \in Cpus : d # c => Kept(d)
         /\ CpuTypes' /\ CallTypes' /\ slept' \in [Cpus -> 0 .. NTICKS]
         /\ LockInv' /\ CliOk(c)' /\ CallOk(c)' /\ WaitOk(c)' /\ ClockOk(c)'
<1>1. /\ CpuTypes /\ CallTypes /\ ClockTypes /\ LockInv /\ CliOk(c)
  BY Zenon, InvAt
<1>2. /\ cpu' = Set(cpu, Lock(c), NOCPU) /\ popcli(c) /\ ppc' = Set(ppc, c, "user")
      /\ op' = Set(op, c, "none") /\ n' = Set(n, c, 0) /\ ticks0' = Set(ticks0, c, 0)
      /\ killed' = Set(killed, c, FALSE) /\ slept' = Set(slept, c, 0) /\ saved' = saved
  BY Zenon DEF return, release
<1>3. ppc'[c] = "user" /\ (\A d \in Cpus : d # c => ppc'[d] = ppc[d]) /\ ppc' \in [Cpus -> Ppc]
  BY <1>1, <1>2 DEF CallTypes, Ppc, Set
<1>4. /\ op'[c] = "none" /\ (\A d \in Cpus : d # c => op'[d] = op[d])
      /\ op' \in [Cpus -> {"none", "read", "write", "sleep"}]
  BY <1>1, <1>2 DEF CallTypes, Set
<1>5. /\ \A d \in Cpus : d # c => n'[d] = n[d] /\ ticks0'[d] = ticks0[d]
      /\ n' \in [Cpus -> 0 .. READ] /\ ticks0' \in [Cpus -> 0 .. UINTS - 1]
  BY <1>1, <1>2, ConsoleAssumption DEF CallTypes, Set
<1>6. /\ slept'[c] = 0 /\ (\A d \in Cpus : d # c => slept'[d] = slept[d])
      /\ slept' \in [Cpus -> 0 .. NTICKS]
  BY <1>1, <1>2, ConsoleAssumption DEF ClockTypes, Set
<1>7. killed' \in [Cpus -> BOOLEAN]
  BY Zenon, <1>1, <1>2 DEF CallTypes, Set
<1>8. CpuTypes' /\ CliOk(c)'
  <2>1. ProcDepth(c) = 1 /\ ProcDepth(c)' = 0
    BY Zenon, <1>3 DEF ProcDepth, Quiet
  <2>2. cpu' \in [Locks -> Cpus \cup {NOCPU}]
    BY Zenon, <1>1, <1>2 DEF CpuTypes, Set
  <2>3. ProcDepth(c) \in 1 .. 2 /\ ProcDepth(c)' = ProcDepth(c) - 1
    BY <2>1
  <2> QED BY Zenon, <1>1, <1>2, <1>3, <2>2, <2>3, ProcPop
<1>9. \A d \in Cpus : d # c => Kept(d)
  BY Zenon, <1>1, <1>2, <1>3, <1>4, <1>5, <1>6, Popped DEF Kept
<1>10. CallTypes'
  BY Zenon, <1>3, <1>4, <1>5, <1>7 DEF CallTypes
<1>11. LockInv'
  <2>1. Holds(c, Lock(c)) /\ Lock(c) \in Locks
    BY Zenon DEF Holds, Locks, Lock
  <2>2. \A d \in Cpus, k \in Locks : Holds(d, k)' <=> Holds(d, k) /\ ~(d = c /\ k = Lock(c))
    <3> SUFFICES ASSUME NEW d \in Cpus, NEW k \in Locks
                 PROVE  Holds(d, k)' <=> Holds(d, k) /\ ~(d = c /\ k = Lock(c))
      OBVIOUS
    <3>1. CASE d # c
      BY Zenon, <1>3, <1>4, <3>1 DEF Holds, Lock
    <3>2. CASE d = c
      BY Zenon, <1>3, <3>2, LockAlone DEF Holds, Lock, Base
    <3> QED BY Zenon, <3>1, <3>2
  <2> QED BY Zenon, <1>1, <1>2, <2>1, <2>2, LockGiven
<1>12. CallOk(c)' /\ WaitOk(c)' /\ ClockOk(c)'
  BY Zenon, <1>3, <1>4, <1>6 DEF CallOk, WaitOk, ClockOk
<1> QED
  BY Zenon, <1>6, <1>8, <1>9, <1>10, <1>11, <1>12

\* The returns that leave the input alone: consolewrite(), sys_sleep(), and a call
\* of a process that was killed.
LEMMA ReturnStep ==
  ASSUME IInv, NEW c \in Cpus, consolewrite(c) \/ sys_sleep(c) \/ giveup(c)
  PROVE  IInv'
<1>1. /\ Base(c) /\ ppc[c] = "in" /\ return(c)
      /\ UNCHANGED <<ipc, kind, doprocdump, buf, r, w, e, line, ready, ticks>>
  BY Zenon DEF consolewrite, sys_sleep, giveup, intr, input
<1>2. ClockTypes'
  BY Zenon, <1>1, InvAt, Returned DEF ClockTypes
<1> QED
  BY Zenon, <1>1, <1>2, Returned, ProcStep

-----------------------------------------------------------------------------
(* The input: a ring of INPUT_BUF characters, with unsigned indexes.       *)

\* The invariant of the ring with its indexes counted from r, before they wrap.
RingFrom(a, b) ==
  /\ a = Len(ready) /\ b = Len(line) /\ a + b <= INPUT_BUF
  /\ w = (r + a) % UINTS /\ e = (r + (a + b)) % UINTS
  /\ \A k \in 1 .. a : ready[k] = buf[(r + (k - 1)) % INPUT_BUF]
  /\ \A k \in 1 .. b : line[k] = buf[(r + (a + k - 1)) % INPUT_BUF]

\* Unsigned sums and differences of unsigned values.
Plus(x, k) == IF x + k < UINTS THEN x + k ELSE (x + k) - UINTS
Minus(x, k) == IF x >= k THEN x - k ELSE x - k + UINTS

\* The code computes these.
LEMMA Unsigned ==
  ASSUME NEW x \in 0 .. UINTS - 1, NEW k \in 0 .. UINTS - 1
  PROVE  (x + k) % UINTS = Plus(x, k) /\ (x - k) % UINTS = Minus(x, k)
<1>1. UINTS \in Nat \ {0}
  BY ConsoleAssumption
<1>2. ASSUME x + k < UINTS PROVE (x + k) % UINTS = x + k
  <2>1. x + k \in 0 .. UINTS - 1
    BY <1>1, <1>2
  <2> QED BY Zenon, <1>1, <2>1, ModSmall
<1>3. ASSUME ~(x + k < UINTS) PROVE (x + k) % UINTS = (x + k) - UINTS
  <2>1. x + k \in UINTS .. UINTS + UINTS - 1
    BY <1>1, <1>3
  <2> QED BY Zenon, <1>1, <2>1, ModLess
<1>4. ASSUME x >= k PROVE (x - k) % UINTS = x - k
  <2>1. x - k \in 0 .. UINTS - 1
    BY <1>1, <1>4
  <2> QED BY Zenon, <1>1, <2>1, ModSmall
<1>5. ASSUME ~(x >= k) PROVE (x - k) % UINTS = x - k + UINTS
  <2>1. x - k \in (1 - UINTS) .. -1
    BY <1>1, <1>5
  <2> QED BY Zenon, <1>1, <2>1, ModNeg
<1> QED
  BY Zenon, <1>2, <1>3, <1>4, <1>5 DEF Plus, Minus

\* The differences are those of the sums.
LEMMA UnsignedBack ==
  ASSUME NEW x \in 0 .. UINTS - 1, NEW y \in 0 .. UINTS - 1, NEW k \in 0 .. UINTS - 1
  PROVE  Minus(y, x) = k <=> y = Plus(x, k)
BY ConsoleAssumption DEF Plus, Minus

\* And the sums add up.
LEMMA UnsignedTwice ==
  ASSUME NEW x \in 0 .. UINTS - 1, NEW k \in 0 .. UINTS - 1, NEW j \in 0 .. UINTS - 1, k + j < UINTS
  PROVE  Plus(x, k) \in 0 .. UINTS - 1 /\ Plus(Plus(x, k), j) = Plus(x, k + j)
BY ConsoleAssumption DEF Plus

\* Index y is k after index x, as the sum or as the difference.
LEMMA After ==
  ASSUME NEW x \in 0 .. UINTS - 1, NEW y \in 0 .. UINTS - 1, NEW k \in 0 .. UINTS - 1
  PROVE  (y - x) % UINTS = k <=> y = (x + k) % UINTS
<1>1. (y - x) % UINTS = Minus(y, x)
  BY Zenon, Unsigned
<1>2. (x + k) % UINTS = Plus(x, k)
  BY Zenon, Unsigned
<1>3. Minus(y, x) = k <=> y = Plus(x, k)
  BY Zenon, UnsignedBack
<1> QED
  BY Zenon, <1>1, <1>2, <1>3

\* One after the other.
LEMMA AfterTwice ==
  ASSUME NEW x \in 0 .. UINTS - 1, NEW y \in 0 .. UINTS - 1, NEW z \in 0 .. UINTS - 1,
         NEW k \in 0 .. UINTS - 1, NEW j \in 0 .. UINTS - 1, k + j < UINTS, y = (x + k) % UINTS
  PROVE  z = (y + j) % UINTS <=> z = (x + (k + j)) % UINTS
<1>1. UINTS \in Nat
  BY Zenon, ConsoleAssumption
<1>2. k + j \in 0 .. UINTS - 1
  BY <1>1
<1>3. y = Plus(x, k) /\ (x + (k + j)) % UINTS = Plus(x, k + j)
  BY Zenon, <1>2, Unsigned
<1>4. (y + j) % UINTS = Plus(y, j)
  BY Zenon, Unsigned
<1>5. Plus(Plus(x, k), j) = Plus(x, k + j)
  BY UnsignedTwice
<1> QED
  BY Zenon, <1>3, <1>4, <1>5

\* The place of an unsigned index is that of the index before it wraps: the number
\* of unsigned values is a multiple of INPUT_BUF.
LEMMA Place ==
  ASSUME NEW x \in 0 .. UINTS - 1, NEW k \in 0 .. UINTS - 1
  PROVE  /\ ((x + k) % UINTS) % INPUT_BUF = (x + k) % INPUT_BUF
         /\ ((x - k) % UINTS) % INPUT_BUF = (x - k) % INPUT_BUF
<1>1. UINTS \in Nat \ {0} /\ INPUT_BUF \in Nat \ {0} /\ UINTS % INPUT_BUF = 0
  BY ConsoleAssumption
<1>2. PICK y \in Int : y = (x + k) - UINTS
  BY <1>1
<1>3. (y + UINTS) % INPUT_BUF = y % INPUT_BUF
  BY Zenon, <1>1, ModMult
<1>4. PICK z \in Int : z = x - k
  OBVIOUS
<1>5. (z + UINTS) % INPUT_BUF = z % INPUT_BUF
  BY Zenon, <1>1, ModMult
<1>6. y + UINTS = x + k /\ z + UINTS = x - k + UINTS
  BY <1>1, <1>2, <1>4
<1> QED
  BY Zenon, <1>2, <1>3, <1>4, <1>5, <1>6, Unsigned DEF Plus, Minus

\* Less than INPUT_BUF apart, two indexes have different places.
LEMMA Apart ==
  ASSUME NEW x \in Int, NEW y \in Int, x # y, x - y < INPUT_BUF, y - x < INPUT_BUF
  PROVE  x % INPUT_BUF # y % INPUT_BUF
<1>1. INPUT_BUF \in Nat \ {0}
  BY ConsoleAssumption
<1>2. CASE x < y
  <2>1. PICK d \in 1 .. INPUT_BUF - 1 : y = x + d
    BY <1>1, <1>2
  <2> QED BY Zenon, <1>1, <2>1, ModDist
<1>3. CASE y < x
  <2>1. PICK d \in 1 .. INPUT_BUF - 1 : x = y + d
    BY <1>1, <1>3
  <2> QED BY Zenon, <1>1, <2>1, ModDist
<1> QED
  BY <1>2, <1>3

\* From the invariant: indexes counted from r.
LEMMA RingIn ==
  ASSUME InputTypes, InputInv
  PROVE  RingFrom(Len(ready), Len(line))
<1> DEFINE a == Len(ready)
           b == Len(line)
<1>1. INPUT_BUF \in Nat \ {0} /\ UINTS \in Nat /\ UINTS > INPUT_BUF
  BY ConsoleAssumption
<1>2. /\ r \in 0 .. UINTS - 1 /\ w \in 0 .. UINTS - 1 /\ e \in 0 .. UINTS - 1
      /\ ready \in Seq(Chars) /\ line \in Seq(Chars)
  BY DEF InputTypes
<1>3. a \in Nat /\ b \in Nat
  BY <1>2
<1>4. (w - r) % UINTS = a /\ (e - w) % UINTS = b /\ a + b <= INPUT_BUF
  BY DEF InputInv, RingMatches
<1>5. a \in 0 .. UINTS - 1 /\ b \in 0 .. UINTS - 1 /\ a + b < UINTS
  BY <1>1, <1>3, <1>4
<1>6. w = (r + a) % UINTS /\ e = (r + (a + b)) % UINTS
  <2> HIDE DEF a, b
  <2>1. w = (r + a) % UINTS
    BY <1>2, <1>4, <1>5, After
  <2>2. e = (w + b) % UINTS
    BY <1>2, <1>4, <1>5, After
  <2> QED BY <1>2, <1>5, <2>1, <2>2, AfterTwice
<1>7. ASSUME NEW k \in 1 .. a + b
      PROVE  (ready \o line)[k] = buf[(r + (k - 1)) % INPUT_BUF]
  <2>1. k \in 1 .. Len(ready \o line)
    BY <1>2
  <2>2. (ready \o line)[k] = buf[((r + (k - 1)) % UINTS) % INPUT_BUF]
    BY <2>1 DEF InputInv, RingMatches
  <2>3. k - 1 \in 0 .. UINTS - 1
    BY <1>1, <1>3, <1>4
  <2> QED BY Zenon, <1>2, <2>2, <2>3, Place
<1>8. \A k \in 1 .. a : ready[k] = buf[(r + (k - 1)) % INPUT_BUF]
  <2> SUFFICES ASSUME NEW k \in 1 .. a PROVE ready[k] = buf[(r + (k - 1)) % INPUT_BUF]
    OBVIOUS
  <2>1. k \in 1 .. a + b
    BY <1>3
  <2>2. (ready \o line)[k] = ready[k]
    BY <1>2
  <2> QED BY Zenon, <1>7, <2>1, <2>2
<1>9. \A k \in 1 .. b : line[k] = buf[(r + (a + k - 1)) % INPUT_BUF]
  <2> SUFFICES ASSUME NEW k \in 1 .. b PROVE line[k] = buf[(r + (a + k - 1)) % INPUT_BUF]
    OBVIOUS
  <2>1. PICK j \in 1 .. a + b : j = a + k
    BY <1>3
  <2>2. (ready \o line)[j] = line[k]
    BY <1>2, <1>3, <2>1
  <2>3. (ready \o line)[j] = buf[(r + (j - 1)) % INPUT_BUF]
    BY Zenon, <1>7
  <2>4. (r + (j - 1)) % INPUT_BUF = (r + (a + k - 1)) % INPUT_BUF
    BY <2>1
  <2> QED BY Zenon, <2>2, <2>3, <2>4
<1> QED
  BY Zenon, <1>4, <1>6, <1>8, <1>9 DEF RingFrom

\* And back, after a step.
LEMMA RingOut ==
  ASSUME InputTypes', RingFrom(Len(ready), Len(line))'
  PROVE  RingMatches'
<1> DEFINE a == Len(ready')
           b == Len(line')
<1>1. INPUT_BUF \in Nat \ {0} /\ UINTS \in Nat /\ UINTS > INPUT_BUF
  BY ConsoleAssumption
<1>2. /\ r' \in 0 .. UINTS - 1 /\ w' \in 0 .. UINTS - 1 /\ e' \in 0 .. UINTS - 1
      /\ ready' \in Seq(Chars) /\ line' \in Seq(Chars)
  BY Zenon DEF InputTypes
<1>3. a \in Nat /\ b \in Nat
  BY <1>2
<1>4. /\ a + b <= INPUT_BUF /\ w' = (r' + a) % UINTS /\ e' = (r' + (a + b)) % UINTS
      /\ \A k \in 1 .. a : ready'[k] = buf'[(r' + (k - 1)) % INPUT_BUF]
      /\ \A k \in 1 .. b : line'[k] = buf'[(r' + (a + k - 1)) % INPUT_BUF]
  BY Zenon DEF RingFrom
<1>5. a \in 0 .. UINTS - 1 /\ b \in 0 .. UINTS - 1 /\ a + b < UINTS
  BY <1>1, <1>3, <1>4
<1>6. (w' - r') % UINTS = a /\ (e' - w') % UINTS = b
  <2>1. e' = (w' + b) % UINTS
    <3> HIDE DEF a, b
    <3> QED BY <1>2, <1>4, <1>5, AfterTwice
  <2>2. (w' - r') % UINTS = a
    BY Zenon, <1>2, <1>4, <1>5, After
  <2>3. (e' - w') % UINTS = b
    BY Zenon, <1>2, <1>5, <2>1, After
  <2> QED BY Zenon, <2>2, <2>3
<1>7. ASSUME NEW k \in 1 .. Len(ready' \o line')
       PROVE  (ready' \o line')[k] = buf'[((r' + (k - 1)) % UINTS) % INPUT_BUF]
  <2>1. k \in 1 .. a + b
    BY <1>2
  <2>2. k - 1 \in 0 .. UINTS - 1
    BY <1>1, <1>3, <1>5, <2>1
  <2>3. ((r' + (k - 1)) % UINTS) % INPUT_BUF = (r' + (k - 1)) % INPUT_BUF
    BY <1>2, <2>2, Place
  <2>4. CASE k <= a
    <3>1. k \in 1 .. a /\ (ready' \o line')[k] = ready'[k]
      BY <1>2, <1>3, <2>1, <2>4
    <3> QED BY Zenon, <1>4, <2>3, <3>1
  <2>5. CASE k > a
    <3>1. PICK j \in 1 .. b : k = a + j
      BY <1>3, <2>1, <2>5
    <3>2. (ready' \o line')[k] = line'[j]
      BY <1>2, <1>3, <3>1
    <3>3. (r' + (a + j - 1)) % INPUT_BUF = (r' + (k - 1)) % INPUT_BUF
      BY <3>1
    <3> QED BY Zenon, <1>4, <2>3, <3>2, <3>3
  <2> QED BY <1>3, <2>1, <2>4, <2>5
<1> QED
  BY Zenon, <1>4, <1>6, <1>7 DEF RingMatches

\* consoleread() takes the first character that can be read.
LEMMA InputTaken ==
  ASSUME InputTypes, InputInv, r # w, r' = Inc(r), buf' = Taken, ready' = Tail(ready),
         UNCHANGED <<w, e, line>>
  PROVE  InputTypes' /\ InputInv'
<1> DEFINE a == Len(ready)
           b == Len(line)
<1>1. INPUT_BUF \in Nat \ {0} /\ UINTS \in Nat /\ UINTS > INPUT_BUF
  BY ConsoleAssumption
<1>2. /\ buf \in [0 .. INPUT_BUF - 1 -> Chars \cup {"none"}]
      /\ r \in 0 .. UINTS - 1 /\ w \in 0 .. UINTS - 1 /\ e \in 0 .. UINTS - 1
      /\ ready \in Seq(Chars) /\ line \in Seq(Chars)
  BY Zenon DEF InputTypes
<1>3. a \in Nat /\ b \in Nat
  BY <1>2
<1>4. RingFrom(a, b)
  BY Zenon, RingIn
<1>5. /\ a + b <= INPUT_BUF /\ w = (r + a) % UINTS /\ e = (r + (a + b)) % UINTS
      /\ \A k \in 1 .. a : ready[k] = buf[(r + (k - 1)) % INPUT_BUF]
      /\ \A k \in 1 .. b : line[k] = buf[(r + (a + k - 1)) % INPUT_BUF]
  BY Zenon, <1>4 DEF RingFrom
<1>6. a > 0
  <2>1. SUFFICES ASSUME a = 0 PROVE FALSE
    BY <1>3
  <2>2. r + a = r
    BY <1>2, <2>1
  <2>3. UINTS \in Nat \ {0}
    BY <1>1
  <2>4. r % UINTS = r
    BY Zenon, <1>2, <2>3, ModSmall
  <2> QED BY Zenon, <1>5, <2>2, <2>4
<1>7. /\ ready' \in Seq(Chars) /\ Len(ready') = a - 1
      /\ \A k \in 1 .. a - 1 : ready'[k] = ready[k + 1]
  BY <1>2, <1>6
<1>8. r' = Plus(r, 1) /\ r' \in 0 .. UINTS - 1
  <2>1. 1 \in 0 .. UINTS - 1
    BY <1>1
  <2>2. r' = Plus(r, 1)
    BY Zenon, <1>2, <2>1, Unsigned DEF Inc
  <2> QED BY <1>1, <1>2, <2>2 DEF Plus
<1>9. \A k \in 0 .. INPUT_BUF - 1 :
         (r' + k) % UINTS = (r + (k + 1)) % UINTS /\ (r' + k) % INPUT_BUF = (r + (k + 1)) % INPUT_BUF
  <2> SUFFICES ASSUME NEW k \in 0 .. INPUT_BUF - 1
               PROVE  /\ (r' + k) % UINTS = (r + (k + 1)) % UINTS
                      /\ (r' + k) % INPUT_BUF = (r + (k + 1)) % INPUT_BUF
    BY Zenon
  <2>1. k \in 0 .. UINTS - 1 /\ 1 \in 0 .. UINTS - 1 /\ 1 + k < UINTS /\ 1 + k = k + 1 /\ k + 1 \in 0 .. UINTS - 1
    BY <1>1
  <2>2. (r' + k) % UINTS = (r + (k + 1)) % UINTS
    <3>1. Plus(Plus(r, 1), k) = Plus(r, 1 + k)
      BY <1>2, <2>1, UnsignedTwice
    <3>2. (r' + k) % UINTS = Plus(r', k)
      BY Zenon, <1>8, <2>1, Unsigned
    <3>3. (r + (k + 1)) % UINTS = Plus(r, k + 1)
      BY Zenon, <1>2, <2>1, Unsigned
    <3> QED BY Zenon, <1>8, <2>1, <3>1, <3>2, <3>3
  <2>3. ((r' + k) % UINTS) % INPUT_BUF = (r' + k) % INPUT_BUF
    BY Zenon, <1>8, <2>1, Place
  <2>4. ((r + (k + 1)) % UINTS) % INPUT_BUF = (r + (k + 1)) % INPUT_BUF
    BY Zenon, <1>2, <2>1, Place
  <2> QED BY Zenon, <2>2, <2>3, <2>4
<1>10. /\ buf' \in [0 .. INPUT_BUF - 1 -> Chars \cup {"none"}]
       /\ \A k \in 1 .. INPUT_BUF - 1 : buf'[(r + k) % INPUT_BUF] = buf[(r + k) % INPUT_BUF]
  <2>1. r % INPUT_BUF \in 0 .. INPUT_BUF - 1
    BY <1>1, <1>2
  <2>2. buf' \in [0 .. INPUT_BUF - 1 -> Chars \cup {"none"}]
    BY Zenon, <1>2, <2>1 DEF Taken
  <2>3. ASSUME NEW k \in 1 .. INPUT_BUF - 1
        PROVE  buf'[(r + k) % INPUT_BUF] = buf[(r + k) % INPUT_BUF]
    <3>1. (r + k) % INPUT_BUF \in 0 .. INPUT_BUF - 1
      BY <1>1, <1>2
    <3>2. r \in Int
      BY <1>2
    <3>3. (r + k) % INPUT_BUF # r % INPUT_BUF
      BY Zenon, <1>1, <3>2, ModDist
    <3> QED BY Zenon, <1>2, <2>1, <3>1, <3>3 DEF Taken
  <2> QED BY Zenon, <2>2, <2>3
<1>11. RingFrom(Len(ready), Len(line))'
  <2> DEFINE a1 == a - 1
  <2>1. a1 = Len(ready') /\ b = Len(line') /\ a1 + b <= INPUT_BUF
    <3>1. a1 = Len(ready') /\ b = Len(line') /\ a + b <= INPUT_BUF
      BY Zenon, <1>5, <1>7
    <3>2. a1 + b <= a + b
      BY <1>3
    <3> QED BY <1>1, <1>3, <3>1, <3>2
  <2>2. /\ a1 \in 0 .. INPUT_BUF - 1 /\ a1 + 1 = a
        /\ a1 + b \in 0 .. INPUT_BUF - 1 /\ (a1 + b) + 1 = a + b
    BY <1>1, <1>3, <1>5, <1>6
  <2>3. w' = (r' + a1) % UINTS /\ e' = (r' + (a1 + b)) % UINTS
    BY Zenon, <1>5, <1>9, <2>2
  <2>4. ASSUME NEW k \in 1 .. a1 PROVE ready'[k] = buf'[(r' + (k - 1)) % INPUT_BUF]
    <3>1. /\ k - 1 \in 0 .. INPUT_BUF - 1 /\ (k - 1) + 1 = k /\ k \in 1 .. INPUT_BUF - 1
          /\ k + 1 \in 1 .. a /\ (k + 1) - 1 = k /\ k \in 1 .. a - 1
      BY <1>1, <1>3, <2>2
    <3>2. ready'[k] = ready[k + 1] /\ ready[k + 1] = buf[(r + k) % INPUT_BUF]
      BY Zenon, <1>5, <1>7, <3>1
    <3>3. (r' + (k - 1)) % INPUT_BUF = (r + k) % INPUT_BUF
      BY Zenon, <1>9, <3>1
    <3> QED BY Zenon, <1>10, <3>1, <3>2, <3>3
  <2>5. ASSUME NEW k \in 1 .. b PROVE line'[k] = buf'[(r' + (a1 + k - 1)) % INPUT_BUF]
    <3>1. /\ a1 + k - 1 \in 0 .. INPUT_BUF - 1 /\ (a1 + k - 1) + 1 = a + k - 1
          /\ a + k - 1 \in 1 .. INPUT_BUF - 1
      <4>1. a \in Nat /\ a > 0 /\ b \in Nat /\ k \in 1 .. b /\ a + b <= INPUT_BUF /\ INPUT_BUF \in Nat
        BY Zenon, <1>1, <1>3, <1>5, <1>6
      <4> HIDE DEF a, b
      <4> QED BY <4>1
    <3>2. (r' + (a1 + k - 1)) % INPUT_BUF = (r + (a + k - 1)) % INPUT_BUF
      BY Zenon, <1>9, <3>1
    <3>3. buf'[(r + (a + k - 1)) % INPUT_BUF] = buf[(r + (a + k - 1)) % INPUT_BUF]
      BY Zenon, <1>10, <3>1
    <3> QED BY Zenon, <1>5, <3>2, <3>3
  <2> HIDE DEF a1, a, b
  <2> QED BY Zenon, <2>1, <2>3, <2>4, <2>5 DEF RingFrom
<1>12. InputTypes'
  BY Zenon, <1>2, <1>7, <1>8, <1>10 DEF InputTypes
<1>13. Len(ready') + Len(line') # INPUT_BUF
  BY <1>3, <1>5, <1>6, <1>7
<1> QED
  BY Zenon, <1>11, <1>12, <1>13, RingOut DEF InputInv

\* What is in the ring, in numbers.
LEMMA RingFacts ==
  ASSUME InputTypes, InputInv
  PROVE  /\ INPUT_BUF \in Nat \ {0} /\ UINTS \in Nat /\ UINTS > INPUT_BUF
         /\ Len(ready) \in Nat /\ Len(line) \in Nat /\ Len(ready) + Len(line) <= INPUT_BUF
         /\ Len(ready) \in 0 .. UINTS - 1 /\ Len(ready) + Len(line) \in 0 .. UINTS - 1
         /\ r \in Int /\ r \in 0 .. UINTS - 1 /\ w \in 0 .. UINTS - 1 /\ e \in 0 .. UINTS - 1
         /\ w = (r + Len(ready)) % UINTS /\ e = (r + (Len(ready) + Len(line))) % UINTS
         /\ e = Plus(r, Len(ready) + Len(line))
<1> DEFINE a == Len(ready)
           b == Len(line)
<1>1. INPUT_BUF \in Nat \ {0} /\ UINTS \in Nat /\ UINTS > INPUT_BUF
  BY ConsoleAssumption
<1>2. /\ r \in 0 .. UINTS - 1 /\ w \in 0 .. UINTS - 1 /\ e \in 0 .. UINTS - 1
      /\ ready \in Seq(Chars) /\ line \in Seq(Chars)
  BY Zenon DEF InputTypes
<1>3. a \in Nat /\ b \in Nat /\ r \in Int
  BY <1>2
<1>4. a + b <= INPUT_BUF /\ w = (r + a) % UINTS /\ e = (r + (a + b)) % UINTS
  BY Zenon, RingIn DEF RingFrom
<1>5. a \in 0 .. UINTS - 1 /\ a + b \in 0 .. UINTS - 1
  <2> HIDE DEF a, b
  <2> QED BY <1>1, <1>3, <1>4
<1>6. e = Plus(r, a + b)
  BY Zenon, <1>2, <1>4, <1>5, Unsigned
<1> QED
  BY Zenon, <1>1, <1>2, <1>3, <1>4, <1>5, <1>6

\* What is in the ring.
LEMMA RingHolds ==
  ASSUME InputTypes, InputInv
  PROVE  /\ \A k \in 1 .. Len(ready) : ready[k] = buf[(r + (k - 1)) % INPUT_BUF]
         /\ \A k \in 1 .. Len(line) : line[k] = buf[(r + (Len(ready) + k - 1)) % INPUT_BUF]
BY Zenon, RingIn DEF RingFrom

\* Back from the end of the ring.
LEMMA Back ==
  ASSUME NEW x \in 0 .. UINTS - 1, NEW m \in 0 .. UINTS - 1, NEW k \in 0 .. m
  PROVE  /\ m - k \in 0 .. UINTS - 1 /\ Plus(x, m) \in 0 .. UINTS - 1
         /\ k \in 0 .. UINTS - 1
         /\ Minus(Plus(x, m), k) = Plus(x, m - k)
BY ConsoleAssumption DEF Plus, Minus

\* Sizes of a line and of what is left of it.
LEMMA Shorter ==
  ASSUME NEW B \in Nat, NEW a \in Nat, NEW b \in Nat, a + b <= B, NEW k \in 0 .. b, NEW c, c = b - k
  PROVE  /\ k \in Nat /\ c \in Nat /\ (a + b) - k = a + c /\ k \in 0 .. (a + b)
         /\ a + c <= B /\ (a + c = B => c = b)
OBVIOUS

\* The last k characters of the line are erased.
LEMMA InputErased ==
  ASSUME InputTypes, InputInv, NEW k \in 0 .. Len(line), Erase(k), ready' = ready,
         line' \in Seq(Chars), Len(line') = Len(line) - k,
         \A i \in 1 .. Len(line') : line'[i] = line[i]
  PROVE  InputTypes' /\ InputInv'
<1> DEFINE a == Len(ready)
           b == Len(line)
           c == Len(line')
<1>1. /\ INPUT_BUF \in Nat \ {0} /\ UINTS \in Nat /\ UINTS > INPUT_BUF
      /\ a \in Nat /\ b \in Nat /\ a + b <= INPUT_BUF /\ a + b \in 0 .. UINTS - 1
      /\ r \in Int /\ r \in 0 .. UINTS - 1 /\ w = (r + a) % UINTS /\ e = Plus(r, a + b)
  BY Zenon, RingFacts
<1>2. /\ \A i \in 1 .. a : ready[i] = buf[(r + (i - 1)) % INPUT_BUF]
      /\ \A i \in 1 .. b : line[i] = buf[(r + (a + i - 1)) % INPUT_BUF]
  BY Zenon, RingHolds
<1>3. /\ e' = (e - k) % UINTS /\ UNCHANGED <<r, w>>
      /\ buf' = [i \in DOMAIN buf |->
                   IF \E j \in 1 .. k : i = ((e - j) % UINTS) % INPUT_BUF THEN "none" ELSE buf[i]]
  BY Zenon DEF Erase
<1>4. buf \in [0 .. INPUT_BUF - 1 -> Chars \cup {"none"}] /\ w \in 0 .. UINTS - 1 /\ ready \in Seq(Chars)
  BY Zenon DEF InputTypes
<1>5. /\ k \in Nat /\ c \in Nat /\ c = b - k /\ (a + b) - k = a + c /\ k \in 0 .. (a + b)
      /\ a + c <= INPUT_BUF /\ (a + c = INPUT_BUF => c = b)
  <2>1. c = b - k
    OBVIOUS
  <2> HIDE DEF a, b, c
  <2>2. k \in 0 .. b
    BY Zenon DEF b
  <2>3. INPUT_BUF \in Nat
    BY <1>1
  <2> QED BY <1>1, <2>1, <2>2, <2>3, Shorter
<1>6. ASSUME NEW j \in 0 .. k
      PROVE  (e - j) % UINTS = (r + ((a + b) - j)) % UINTS /\ (a + b) - j \in 0 .. UINTS - 1
  <2> HIDE DEF a, b
  <2>1. j \in 0 .. (a + b)
    BY <1>1, <1>5
  <2>2. /\ (a + b) - j \in 0 .. UINTS - 1 /\ e \in 0 .. UINTS - 1 /\ j \in 0 .. UINTS - 1
        /\ Minus(e, j) = Plus(r, (a + b) - j)
    BY Zenon, <1>1, <2>1, Back
  <2>3. (e - j) % UINTS = Minus(e, j)
    BY Zenon, <2>2, Unsigned
  <2>4. (r + ((a + b) - j)) % UINTS = Plus(r, (a + b) - j)
    BY Zenon, <1>1, <2>2, Unsigned
  <2> QED BY Zenon, <2>2, <2>3, <2>4
<1>7. e' = (r + (a + c)) % UINTS /\ e' \in 0 .. UINTS - 1
  <2>1. k \in 0 .. k
    BY <1>5
  <2>2. e' = (r + (a + c)) % UINTS
    BY Zenon, <1>3, <1>5, <1>6, <2>1
  <2>3. UINTS \in Nat \ {0} /\ r + (a + c) \in Int
    BY <1>1, <1>5
  <2> QED BY Zenon, <2>2, <2>3, ModRange
<1>8. buf' \in [0 .. INPUT_BUF - 1 -> Chars \cup {"none"}]
  BY Zenon, <1>3, <1>4
<1>9. ASSUME NEW m \in 0 .. INPUT_BUF, m < a + c
      PROVE  buf'[(r + m) % INPUT_BUF] = buf[(r + m) % INPUT_BUF]
  <2> DEFINE p == (r + m) % INPUT_BUF
  <2>1. p \in 0 .. INPUT_BUF - 1
    <3>1. r + m \in Int
      BY <1>1
    <3> QED BY Zenon, <1>1, <3>1, ModRange
  <2>2. ASSUME NEW j \in 1 .. k, p = ((e - j) % UINTS) % INPUT_BUF
        PROVE  FALSE
    <3> HIDE DEF a, b, c
    <3> DEFINE x == r + m
               y == r + ((a + b) - j)
    <3>1. j \in 0 .. k
      BY <1>5
    <3>2. (e - j) % UINTS = (r + ((a + b) - j)) % UINTS /\ (a + b) - j \in 0 .. UINTS - 1
      BY Zenon, <1>6, <3>1
    <3>3. p = y % INPUT_BUF
      BY Zenon, <1>1, <2>2, <3>2, Place
    <3>4. x \in Int /\ y \in Int /\ x # y /\ x - y < INPUT_BUF /\ y - x < INPUT_BUF
      BY <1>1, <1>5, <1>9
    <3>5. x % INPUT_BUF # y % INPUT_BUF
      <4> HIDE DEF x, y
      <4> QED BY Zenon, <3>4, Apart
    <3> QED BY Zenon, <3>3, <3>5
  <2>3. p \in DOMAIN buf
    BY Zenon, <1>4, <2>1
  <2> HIDE DEF p
  <2>4. buf'[p] = buf[p]
    BY Zenon, <1>3, <2>2, <2>3
  <2> QED BY Zenon, <2>4 DEF p
<1>10. \A i \in 1 .. a : ready'[i] = buf'[(r' + (i - 1)) % INPUT_BUF]
  <2> SUFFICES ASSUME NEW i \in 1 .. a PROVE ready[i] = buf'[(r + (i - 1)) % INPUT_BUF]
    BY Zenon, <1>3
  <2> HIDE DEF a, b, c
  <2>1. i - 1 \in 0 .. INPUT_BUF /\ i - 1 < a + c
    <3>1. INPUT_BUF \in Nat /\ a \in Nat /\ c \in Nat /\ a + c <= INPUT_BUF
      BY Zenon, <1>1, <1>5
    <3> QED BY <3>1
  <2> QED BY Zenon, <1>2, <1>9, <2>1
<1>11. \A i \in 1 .. c : line'[i] = buf'[(r' + (a + i - 1)) % INPUT_BUF]
  <2> SUFFICES ASSUME NEW i \in 1 .. c PROVE line[i] = buf'[(r + (a + i - 1)) % INPUT_BUF]
    BY Zenon, <1>3
  <2>1. a + i - 1 \in 0 .. INPUT_BUF /\ a + i - 1 < a + c /\ i \in 1 .. b
    BY <1>1, <1>5
  <2> QED BY Zenon, <1>2, <1>9, <2>1
<1>12. RingFrom(Len(ready), Len(line))'
  BY Zenon, <1>1, <1>3, <1>5, <1>7, <1>10, <1>11 DEF RingFrom
<1>13. InputTypes'
  BY Zenon, <1>1, <1>3, <1>4, <1>7, <1>8 DEF InputTypes
<1>14. \A i \in 1 .. c : line'[i] \notin {"nl", "D"}
  <2> SUFFICES ASSUME NEW i \in 1 .. c PROVE line[i] \notin {"nl", "D"}
    BY Zenon
  <2>1. i \in 1 .. b
    BY <1>1, <1>5
  <2> QED BY Zenon, <2>1 DEF InputInv
<1>15. Len(ready') + Len(line') = INPUT_BUF => line' = <<>>
  <2> SUFFICES ASSUME a + c = INPUT_BUF PROVE c = 0
    BY <1>4
  <2>1. c = b /\ (a + b = INPUT_BUF => line = <<>>)
    BY Zenon, <1>5 DEF InputInv
  <2> QED BY <2>1
<1> QED
  BY Zenon, <1>12, <1>13, <1>14, <1>15, RingOut DEF InputInv

\* consoleintr() puts a character at the end of the ring, if there is room.
LEMMA InputTyped ==
  ASSUME InputTypes, InputInv, NEW x \in Chars, ~Full, buf' = Set(buf, e % INPUT_BUF, x), e' = Inc(e),
         r' = r
  PROVE  /\ Len(ready) + Len(line) < INPUT_BUF
         /\ e' \in 0 .. UINTS - 1 /\ e' = (r + (Len(ready) + Len(line) + 1)) % UINTS
         /\ buf' \in [0 .. INPUT_BUF - 1 -> Chars \cup {"none"}]
         /\ buf'[(r + (Len(ready) + Len(line))) % INPUT_BUF] = x
         /\ \A m \in 0 .. INPUT_BUF : m < Len(ready) + Len(line) =>
              buf'[(r + m) % INPUT_BUF] = buf[(r + m) % INPUT_BUF]
<1> DEFINE a == Len(ready)
           b == Len(line)
           p == (r + (a + b)) % INPUT_BUF
<1>1. /\ INPUT_BUF \in Nat \ {0} /\ UINTS \in Nat /\ UINTS > INPUT_BUF
      /\ a \in Nat /\ b \in Nat /\ a + b <= INPUT_BUF /\ a + b \in 0 .. UINTS - 1
      /\ r \in Int /\ r \in 0 .. UINTS - 1 /\ e \in 0 .. UINTS - 1 /\ e = (r + (a + b)) % UINTS
  BY Zenon, RingFacts
<1>2. buf \in [0 .. INPUT_BUF - 1 -> Chars \cup {"none"}]
  BY Zenon DEF InputTypes
<1>3. a + b < INPUT_BUF
  <2> HIDE DEF a, b
  <2>1. (e - r) % UINTS = a + b
    <3> DEFINE m == a + b
    <3>1. /\ m \in 0 .. UINTS - 1 /\ e = (r + m) % UINTS
          /\ e \in 0 .. UINTS - 1 /\ r \in 0 .. UINTS - 1
      BY Zenon, <1>1
    <3>2. (e - r) % UINTS = m
      <4> HIDE DEF m
      <4> QED BY <3>1, After
    <3> QED BY Zenon, <3>2
  <2>2. ~(a + b >= INPUT_BUF)
    BY Zenon, <2>1 DEF Full
  <2> QED BY <1>1, <2>2
<1>4. e' \in 0 .. UINTS - 1 /\ e' = (r + (a + b + 1)) % UINTS
  <2> HIDE DEF a, b
  <2>1. /\ UINTS \in Nat \ {0} /\ e + 1 \in Int /\ 1 \in 0 .. UINTS - 1 /\ (a + b) + 1 < UINTS
        /\ (a + b) + 1 = a + b + 1
    BY <1>1, <1>3
  <2>2. e' \in 0 .. UINTS - 1 /\ e' = (e + 1) % UINTS
    BY Zenon, <2>1, ModRange DEF Inc
  <2>3. e' = (r + ((a + b) + 1)) % UINTS
    BY <1>1, <2>1, <2>2, AfterTwice
  <2> QED BY Zenon, <2>1, <2>2, <2>3
<1>5. p = e % INPUT_BUF
  BY Zenon, <1>1, Place
<1>6. \A m \in Int : (r + m) % INPUT_BUF \in 0 .. INPUT_BUF - 1
  <2> SUFFICES ASSUME NEW m \in Int PROVE (r + m) % INPUT_BUF \in 0 .. INPUT_BUF - 1
    OBVIOUS
  <2>1. r + m \in Int
    BY <1>1
  <2> QED BY Zenon, <1>1, <2>1, ModRange
<1>7. p \in 0 .. INPUT_BUF - 1
  <2>1. a + b \in Int
    BY <1>1
  <2> QED BY Zenon, <1>6, <2>1
<1>8. /\ buf' = [buf EXCEPT ![p] = x] /\ buf'[p] = x
      /\ buf' \in [0 .. INPUT_BUF - 1 -> Chars \cup {"none"}]
  <2>1. buf' = [buf EXCEPT ![p] = x]
    BY Zenon, <1>5 DEF Set
  <2> HIDE DEF p
  <2> QED BY Zenon, <1>2, <1>7, <2>1
<1>9. ASSUME NEW m \in 0 .. INPUT_BUF, m < a + b
      PROVE  buf'[(r + m) % INPUT_BUF] = buf[(r + m) % INPUT_BUF]
  <2> HIDE DEF a, b
  <2> DEFINE y == r + m
             z == r + (a + b)
  <2>1. y \in Int /\ z \in Int /\ y # z /\ y - z < INPUT_BUF /\ z - y < INPUT_BUF /\ m \in Int
    BY <1>1, <1>3, <1>9
  <2>2. y % INPUT_BUF # z % INPUT_BUF
    <3> HIDE DEF y, z
    <3> QED BY Zenon, <2>1, Apart
  <2>3. (r + m) % INPUT_BUF # p /\ (r + m) % INPUT_BUF \in 0 .. INPUT_BUF - 1
    BY Zenon, <1>6, <2>1, <2>2
  <2> HIDE DEF p
  <2> QED BY Zenon, <1>2, <1>8, <2>3
<1> QED
  BY Zenon, <1>3, <1>4, <1>8, <1>9

\* The character ends the line, which can now be read.
LEMMA InputCommitted ==
  ASSUME InputTypes, InputInv, NEW x \in Chars, ~Full, buf' = Set(buf, e % INPUT_BUF, x), e' = Inc(e),
         r' = r, w' = e', ready' = ready \o Append(line, x), line' = <<>>
  PROVE  InputTypes' /\ InputInv'
<1> DEFINE a == Len(ready)
           b == Len(line)
<1>1. /\ INPUT_BUF \in Nat \ {0} /\ a \in Nat /\ b \in Nat /\ r \in 0 .. UINTS - 1 /\ r \in Int
  BY Zenon, RingFacts
<1>2. /\ \A i \in 1 .. a : ready[i] = buf[(r + (i - 1)) % INPUT_BUF]
      /\ \A i \in 1 .. b : line[i] = buf[(r + (a + i - 1)) % INPUT_BUF]
  BY Zenon, RingHolds
<1>3. /\ a + b < INPUT_BUF
      /\ e' \in 0 .. UINTS - 1 /\ e' = (r + (a + b + 1)) % UINTS
      /\ buf' \in [0 .. INPUT_BUF - 1 -> Chars \cup {"none"}]
      /\ buf'[(r + (a + b)) % INPUT_BUF] = x
      /\ \A m \in 0 .. INPUT_BUF : m < a + b => buf'[(r + m) % INPUT_BUF] = buf[(r + m) % INPUT_BUF]
  BY Zenon, InputTyped
<1>4. ready \in Seq(Chars) /\ line \in Seq(Chars)
  BY Zenon DEF InputTypes
<1>5. /\ ready' \in Seq(Chars) /\ Len(ready') = a + b + 1 /\ line' \in Seq(Chars) /\ Len(line') = 0
      /\ \A i \in 1 .. a : ready'[i] = ready[i]
      /\ \A i \in 1 .. b : ready'[a + i] = line[i]
      /\ ready'[a + b + 1] = x
  BY <1>4
<1>6. InputTypes'
  BY Zenon, <1>1, <1>3, <1>5 DEF InputTypes
<1>7. ASSUME NEW i \in 1 .. a + b + 1
      PROVE  ready'[i] = buf'[(r + (i - 1)) % INPUT_BUF]
  <2>1. CASE i <= a
    <3>1. i \in 1 .. a /\ i - 1 \in 0 .. INPUT_BUF /\ i - 1 < a + b
      BY <1>1, <1>3, <2>1
    <3>2. buf'[(r + (i - 1)) % INPUT_BUF] = buf[(r + (i - 1)) % INPUT_BUF]
      BY Zenon, <1>3, <3>1
    <3>3. ready'[i] = ready[i] /\ ready[i] = buf[(r + (i - 1)) % INPUT_BUF]
      BY Zenon, <1>2, <1>5, <3>1
    <3> QED BY Zenon, <3>2, <3>3
  <2>2. CASE i > a /\ i <= a + b
    <3>1. PICK j \in 1 .. b : i = a + j
      BY <1>1, <2>2
    <3>2. a + j - 1 \in 0 .. INPUT_BUF /\ a + j - 1 < a + b /\ i - 1 = a + j - 1
      BY <1>1, <1>3, <3>1
    <3>3. buf'[(r + (a + j - 1)) % INPUT_BUF] = buf[(r + (a + j - 1)) % INPUT_BUF]
      BY Zenon, <1>3, <3>2
    <3>4. ready'[a + j] = line[j] /\ line[j] = buf[(r + (a + j - 1)) % INPUT_BUF]
      BY Zenon, <1>2, <1>5
    <3> QED BY Zenon, <3>1, <3>2, <3>3, <3>4
  <2>3. CASE i = a + b + 1
    <3>1. i - 1 = a + b
      BY <1>1, <2>3
    <3> QED BY Zenon, <1>3, <1>5, <2>3, <3>1
  <2>4. i <= a \/ (i > a /\ i <= a + b) \/ i = a + b + 1
    <3> HIDE DEF a, b
    <3> QED BY <1>1
  <2> QED BY Zenon, <2>1, <2>2, <2>3, <2>4
<1>8. RingFrom(Len(ready), Len(line))'
  <2>1. a + b + 1 + 0 = a + b + 1 /\ a + b + 1 <= INPUT_BUF /\ \A i : i \notin 1 .. 0
    BY <1>1, <1>3
  <2> QED BY Zenon, <1>3, <1>5, <1>7, <2>1 DEF RingFrom
<1>9. \A i \in 1 .. Len(line') : line'[i] \notin {"nl", "D"}
  BY <1>5
<1> QED
  BY Zenon, <1>6, <1>8, <1>9, RingOut DEF InputInv

\* The character goes on with the line.
LEMMA InputAppended ==
  ASSUME InputTypes, InputInv, NEW x \in Chars, ~Full, buf' = Set(buf, e % INPUT_BUF, x), e' = Inc(e),
         ~Commits(x), line' = Append(line, x), UNCHANGED <<r, w, ready>>
  PROVE  InputTypes' /\ InputInv'
<1> DEFINE a == Len(ready)
           b == Len(line)
<1>1. /\ INPUT_BUF \in Nat \ {0} /\ a \in Nat /\ b \in Nat /\ r \in 0 .. UINTS - 1 /\ r \in Int
      /\ w \in 0 .. UINTS - 1 /\ w = (r + a) % UINTS
  BY Zenon, RingFacts
<1>2. /\ \A i \in 1 .. a : ready[i] = buf[(r + (i - 1)) % INPUT_BUF]
      /\ \A i \in 1 .. b : line[i] = buf[(r + (a + i - 1)) % INPUT_BUF]
  BY Zenon, RingHolds
<1>3. /\ a + b < INPUT_BUF
      /\ e' \in 0 .. UINTS - 1 /\ e' = (r + (a + b + 1)) % UINTS
      /\ buf' \in [0 .. INPUT_BUF - 1 -> Chars \cup {"none"}]
      /\ buf'[(r + (a + b)) % INPUT_BUF] = x
      /\ \A m \in 0 .. INPUT_BUF : m < a + b => buf'[(r + m) % INPUT_BUF] = buf[(r + m) % INPUT_BUF]
  BY Zenon, InputTyped
<1>4. ready \in Seq(Chars) /\ line \in Seq(Chars)
  BY Zenon DEF InputTypes
<1>5. /\ line' \in Seq(Chars) /\ Len(line') = b + 1 /\ line'[b + 1] = x
      /\ \A i \in 1 .. b : line'[i] = line[i]
  BY <1>4
<1>6. InputTypes'
  BY Zenon, <1>1, <1>3, <1>4, <1>5 DEF InputTypes
<1>7. ASSUME NEW i \in 1 .. a
      PROVE  ready[i] = buf'[(r + (i - 1)) % INPUT_BUF]
  <2>1. i - 1 \in 0 .. INPUT_BUF /\ i - 1 < a + b
    BY <1>1, <1>3
  <2>2. buf'[(r + (i - 1)) % INPUT_BUF] = buf[(r + (i - 1)) % INPUT_BUF]
    BY Zenon, <1>3, <2>1
  <2> QED BY Zenon, <1>2, <2>2
<1>8. ASSUME NEW i \in 1 .. b + 1
      PROVE  line'[i] = buf'[(r + (a + i - 1)) % INPUT_BUF] /\ line'[i] \notin {"nl", "D"}
  <2>1. CASE i <= b
    <3>1. i \in 1 .. b /\ a + i - 1 \in 0 .. INPUT_BUF /\ a + i - 1 < a + b
      BY <1>1, <1>3, <2>1
    <3>2. buf'[(r + (a + i - 1)) % INPUT_BUF] = buf[(r + (a + i - 1)) % INPUT_BUF]
      BY Zenon, <1>3, <3>1
    <3>3. line'[i] = line[i] /\ line[i] \notin {"nl", "D"}
      BY Zenon, <1>5, <3>1 DEF InputInv
    <3> QED BY Zenon, <1>2, <3>1, <3>2, <3>3
  <2>2. CASE i = b + 1
    <3>1. a + i - 1 = a + b
      BY <1>1, <2>2
    <3>2. x \notin {"nl", "D"}
      BY Zenon DEF Commits
    <3> QED BY Zenon, <1>3, <1>5, <2>2, <3>1, <3>2
  <2>3. i <= b \/ i = b + 1
    BY <1>1
  <2> QED BY Zenon, <2>1, <2>2, <2>3
<1>9. a + (b + 1) <= INPUT_BUF /\ a + b + 1 = a + (b + 1)
  BY <1>1, <1>3
<1>10. RingFrom(Len(ready), Len(line))'
  BY Zenon, <1>1, <1>3, <1>5, <1>7, <1>8, <1>9 DEF RingFrom
<1>11. a + (b + 1) # INPUT_BUF
  <2>1. e' # (r + INPUT_BUF) % UINTS
    BY Zenon DEF Commits
  <2> QED BY Zenon, <1>3, <1>9, <2>1
<1> QED
  BY Zenon, <1>5, <1>6, <1>8, <1>10, <1>11, RingOut DEF InputInv

\* ^U: the line has no newline in it, so it is erased as a whole and nothing else is.
LEMMA ErasesTheLine ==
  ASSUME InputTypes, InputInv
  PROVE  Erased = Len(line)
<1> DEFINE a == Len(ready)
           b == Len(line)
           P(k) == /\ \A j \in 1 .. k : buf[((e - j) % UINTS) % INPUT_BUF] # "nl"
                   /\ k < (e - w) % UINTS => buf[((e - (k + 1)) % UINTS) % INPUT_BUF] = "nl"
<1>1. /\ INPUT_BUF \in Nat \ {0} /\ UINTS \in Nat /\ UINTS > INPUT_BUF
      /\ a \in Nat /\ b \in Nat /\ a + b <= INPUT_BUF /\ a + b \in 0 .. UINTS - 1
      /\ r \in Int /\ r \in 0 .. UINTS - 1 /\ e = Plus(r, a + b)
  BY Zenon, RingFacts
<1>2. (e - w) % UINTS = b
  BY Zenon DEF InputInv, RingMatches
<1>3. ASSUME NEW j \in 1 .. b
      PROVE  buf[((e - j) % UINTS) % INPUT_BUF] # "nl"
  <2>1. j \in 0 .. (a + b) /\ b + 1 - j \in 1 .. b /\ (a + b) - j = a + (b + 1 - j) - 1
    BY <1>1
  <2>2. /\ (a + b) - j \in 0 .. UINTS - 1 /\ e \in 0 .. UINTS - 1 /\ j \in 0 .. UINTS - 1
        /\ Minus(e, j) = Plus(r, (a + b) - j)
    <3> HIDE DEF a, b
    <3> QED BY <1>1, <2>1, Back
  <2>3. (e - j) % UINTS = Minus(e, j)
    BY Zenon, <2>2, Unsigned
  <2>4. (r + ((a + b) - j)) % UINTS = Plus(r, (a + b) - j)
    BY Zenon, <1>1, <2>2, Unsigned
  <2>5. ((e - j) % UINTS) % INPUT_BUF = (r + ((a + b) - j)) % INPUT_BUF
    <3>1. ((r + ((a + b) - j)) % UINTS) % INPUT_BUF = (r + ((a + b) - j)) % INPUT_BUF
      BY Zenon, <1>1, <2>2, Place
    <3> QED BY Zenon, <2>2, <2>3, <2>4, <3>1
  <2>6. line[b + 1 - j] = buf[(r + (a + (b + 1 - j) - 1)) % INPUT_BUF]
    BY Zenon, <2>1, RingHolds
  <2>7. line[b + 1 - j] # "nl"
    BY Zenon, <2>1 DEF InputInv
  <2> QED BY Zenon, <2>1, <2>5, <2>6, <2>7
<1>4. b \in 0 .. b /\ P(b)
  BY <1>1, <1>2, <1>3
<1>5. ASSUME NEW k \in 0 .. b, P(k)
      PROVE  k = b
  <2>1. SUFFICES ASSUME k # b PROVE FALSE
    OBVIOUS
  <2>2. k < b /\ k + 1 \in 1 .. b
    BY <1>1, <2>1
  <2> QED BY Zenon, <1>2, <1>3, <1>5, <2>2
<1>6. Erased = CHOOSE k \in 0 .. b : P(k)
  BY Zenon, <1>2 DEF Erased
<1> HIDE DEF P, a
<1> QED
  BY Zenon, <1>4, <1>5, <1>6

\* Only one CPU holds a lock.
LEMMA OneHolder ==
  ASSUME LockInv, NEW c \in Cpus, NEW d \in Cpus, NEW l \in Locks, Holds(c, l), Holds(d, l)
  PROVE  c = d
<1>1. cpu[l] = c
  BY Zenon DEF LockInv
<1>2. cpu[l] = d
  BY Zenon DEF LockInv
<1> QED
  BY Zenon, <1>1, <1>2

\* consoleread() takes a character, and may be done then.
LEMMA ConsolereadStep ==
  ASSUME IInv, NEW c \in Cpus, consoleread(c)
  PROVE  IInv'
<1>1. /\ CpuTypes /\ CallTypes /\ IntTypes /\ InputTypes /\ ClockTypes /\ LockInv /\ InputInv
      /\ CliInv /\ CallInv /\ KindInv /\ WaitInv /\ ClockInv
      /\ CliOk(c) /\ CallOk(c) /\ WaitOk(c) /\ ClockOk(c)
  BY Zenon, InvAt
<1>2. /\ Base(c) /\ ppc[c] = "in" /\ op[c] = "read" /\ r # w
      /\ UNCHANGED <<w, e, line, ipc, kind, doprocdump, ticks>>
  BY Zenon DEF consoleread, intr
<1>3. InputTypes' /\ InputInv'
  <2>1. CASE UNCHANGED <<r, buf, ready>>
    BY Zenon, <1>1, <1>2, <2>1 DEF InputTypes, InputInv, RingMatches
  <2>2. CASE r' = Inc(r) /\ buf' = Taken /\ ready' = Tail(ready)
    BY Zenon, <1>1, <1>2, <2>2, InputTaken
  <2> QED BY Zenon, <2>1, <2>2 DEF consoleread
<1>4. /\ \A d \in Cpus : d # c => Kept(d)
      /\ CpuTypes' /\ CallTypes' /\ slept' \in [Cpus -> 0 .. NTICKS]
      /\ LockInv' /\ CliOk(c)' /\ CallOk(c)' /\ WaitOk(c)' /\ ClockOk(c)'
  <2>1. CASE return(c)
    BY Zenon, <1>2, <2>1, Returned
  <2>2. CASE /\ n[c] # 1 /\ n' = [n EXCEPT ![c] = @ - 1]
             /\ UNCHANGED <<cpu, cli, ppc, op, ticks0, killed, slept>>
    <3>1. UNCHANGED <<cpu, ints, ncli, intena, saved, ppc, op, ticks0, killed, slept>>
      BY Zenon, <2>2 DEF cli
    <3>2. n \in [Cpus -> 0 .. READ] /\ n[c] > 0
      BY Zenon, <1>1, <1>2 DEF CallTypes, CallOk
    <3>3. n'[c] > 0 /\ (\A d \in Cpus : d # c => n'[d] = n[d]) /\ n' \in [Cpus -> 0 .. READ]
      <4>1. n[c] \in 0 .. READ
        BY Zenon, <3>2
      <4>2. n[c] - 1 \in 0 .. READ /\ n[c] - 1 > 0
        BY <2>2, <3>2, <4>1, ConsoleAssumption
      <4> QED BY Zenon, <2>2, <3>2, <4>2
    <3>4. \A d \in Cpus : d # c => Kept(d)
      BY Zenon, <3>1, <3>3 DEF Kept
    <3>5. CpuTypes' /\ CallTypes' /\ slept' \in [Cpus -> 0 .. NTICKS]
      BY Zenon, <1>1, <3>1, <3>3 DEF CpuTypes, CallTypes, ClockTypes
    <3>6. LockInv'
      <4>1. \A d \in Cpus, k \in Locks : Holds(d, k)' <=> Holds(d, k)
        BY Zenon, <1>2, <3>1 DEF Holds, Lock
      <4> QED BY Zenon, <1>1, <3>1, <4>1, LockSame
    <3>7. CliOk(c)'
      BY Zenon, <1>1, <1>2, <3>1 DEF CliOk, Depth, ProcDepth, IntDepth, Base
    <3>8. CallOk(c)' /\ WaitOk(c)' /\ ClockOk(c)'
      BY Zenon, <1>1, <1>2, <3>1, <3>3 DEF CallOk, WaitOk, ClockOk, Elapsed
    <3> QED BY Zenon, <3>4, <3>5, <3>6, <3>7, <3>8
  <2> QED BY Zenon, <2>1, <2>2 DEF consoleread
<1>5. ASSUME NEW d \in Cpus, d # c
      PROVE  CliOk(d)' /\ CallOk(d)' /\ WaitOk(d)' /\ ClockOk(d)'
  <2>1. Kept(d) /\ CliOk(d) /\ CallOk(d) /\ WaitOk(d) /\ ClockOk(d)
    BY Zenon, <1>1, <1>4, <1>5 DEF CliInv, CallInv, WaitInv, ClockInv
  <2>2. CliOk(d)' /\ CallOk(d)'
    BY Zenon, <1>2, <2>1 DEF CliOk, CallOk, Kept, Depth, ProcDepth, IntDepth, Base
  <2>3. ClockOk(d)'
    BY Zenon, <1>2, <2>1 DEF ClockOk, Kept, Elapsed
  <2>4. ppc[d] \in {"sleep", "slept"} => op[d] # "read"
    <3>1. Holds(c, "cons") /\ "cons" \in Locks
      BY Zenon, <1>2 DEF Holds, Lock, Locks
    <3>2. ppc[d] \in {"sleep", "slept"} /\ op[d] = "read" => Holds(d, "cons")
      BY Zenon DEF Holds, Lock
    <3> QED BY Zenon, <1>1, <1>5, <3>1, <3>2, OneHolder
  <2>5. WaitOk(d)'
    BY Zenon, <1>2, <2>1, <2>4 DEF WaitOk, Kept, Waits, Elapsed, Lock
  <2> QED BY Zenon, <2>2, <2>3, <2>5
<1>6. IntTypes' /\ KindInv' /\ ClockTypes'
  BY Zenon, <1>1, <1>2, <1>4 DEF IntTypes, KindInv, ClockTypes
<1>7. CliInv' /\ CallInv' /\ WaitInv' /\ ClockInv'
  BY Zenon, <1>4, <1>5, <1>6 DEF CliInv, CallInv, WaitInv, ClockInv
<1> QED
  BY Zenon, <1>3, <1>4, <1>6, <1>7, Types DEF IInv

-----------------------------------------------------------------------------
(* The interrupt handlers.                                                 *)

\* Where a handler is about to wake the sleepers.
Waking == {"age", "aged", "wake", "wakeup"}

\* A handler does nothing to the other CPUs.
OthersCli ==
  \A d \in Cpus : d # CPU0 => ncli'[d] = ncli[d] /\ ints'[d] = ints[d] /\ intena'[d] = intena[d]

\* What the invariant says where a handler runs: over a process that holds no lock.
LEMMA InHandler ==
  ASSUME IInv, ipc # "none"
  PROVE  /\ CPU0 \in Cpus /\ ~Base(CPU0) /\ ppc[CPU0] \in Quiet /\ kind # "none"
         /\ ncli[CPU0] = IntDepth /\ ints[CPU0] = FALSE
<1>1. CPU0 \in Cpus /\ ~Base(CPU0)
  BY Zenon, ConsoleAssumption DEF Base
<1>2. CliOk(CPU0) /\ KindInv /\ CpuTypes
  BY Zenon, <1>1, InvAt
<1>3. ints[CPU0] \in BOOLEAN
  BY Zenon, <1>1, <1>2 DEF CpuTypes
<1> QED
  BY Zenon, <1>1, <1>2, <1>3 DEF CliOk, KindInv, Depth

\* CliOk of the CPU of the handler, which stays in it.
LEMMA IntCli ==
  ASSUME IInv, ipc # "none", ipc' # "none", UNCHANGED <<ppc, saved>>,
         ncli'[CPU0] = IntDepth', ints'[CPU0] = FALSE
  PROVE  CliOk(CPU0)'
<1>1. ~Base(CPU0)' /\ CPU0 \in Cpus
  BY Zenon, ConsoleAssumption DEF Base
<1>2. ppc[CPU0] \in Quiet /\ CliOk(CPU0)
  BY Zenon, <1>1, InHandler, InvAt
<1> QED
  BY Zenon, <1>1, <1>2 DEF CliOk, Depth

\* The locks that the handler holds: its own and ptable.lock.
IntHolds(l) ==
  \/ ipc \in {"in", "age", "aged", "wake", "wakeup", "end", "dumped"} /\ l = kind
  \/ ipc \in {"aged", "wakeup"} /\ l = "ptable"

\* The process of the CPU of a handler holds none.
LEMMA HoldsInt ==
  ASSUME IInv, ipc # "none", NEW d, NEW l
  PROVE  /\ d # CPU0 => (Holds(d, l) <=> \/ ppc[d] \in {"in", "sleep", "slept"} /\ l = Lock(d)
                                         \/ ppc[d] \in {"slept", "switch", "woken"} /\ l = "ptable")
         /\ Holds(CPU0, l) <=> IntHolds(l)
<1>1. ppc[CPU0] \in Quiet
  BY Zenon, InHandler
<1> QED
  BY Zenon, <1>1 DEF Holds, IntHolds, Quiet

\* A step of a handler that leaves the processes, the clock and what can be read
\* alone, and has nobody to wake or is still about to.
LEMMA IntStep ==
  ASSUME IInv, UNCHANGED <<ppc, op, n, ticks0, killed, saved, r, w, ticks, slept>>, OthersCli,
         ipc \in Waking => ipc' \in Waking /\ kind' = kind,
         CpuTypes', IntTypes', InputTypes', LockInv', CliOk(CPU0)', KindInv', InputInv'
  PROVE  IInv'
<1>1. /\ CpuTypes /\ CallTypes /\ IntTypes /\ InputTypes /\ ClockTypes /\ LockInv /\ InputInv
      /\ CliInv /\ CallInv /\ KindInv /\ WaitInv /\ ClockInv
  BY Zenon, ConsoleAssumption, InvAt
<1>2. ASSUME NEW d \in Cpus
      PROVE  CliOk(d)' /\ CallOk(d)' /\ WaitOk(d)' /\ ClockOk(d)'
  <2>1. CliOk(d) /\ CallOk(d) /\ WaitOk(d) /\ ClockOk(d)
    BY Zenon, InvAt
  <2>2. CliOk(d)'
    BY Zenon, <2>1 DEF OthersCli, CliOk, Depth, ProcDepth, Base
  <2>3. CallOk(d)' /\ ClockOk(d)'
    BY Zenon, <2>1 DEF CallOk, ClockOk, Elapsed
  <2>4. WaitOk(d)'
    BY Zenon, <2>1 DEF WaitOk, Waits, Elapsed, Lock, Waking
  <2> QED BY Zenon, <2>2, <2>3, <2>4
<1>3. CallTypes' /\ ClockTypes'
  BY Zenon, <1>1 DEF CallTypes, ClockTypes
<1>4. CliInv' /\ CallInv' /\ WaitInv' /\ ClockInv'
  BY Zenon, <1>2 DEF CliInv, CallInv, WaitInv, ClockInv
<1> QED
  BY Zenon, <1>3, <1>4, Types DEF IInv

\* A step of a handler that takes or gives up a lock, between acquire() and
\* release() of another one or with the interrupts that the gate turned off.
LEMMA IntLockStep ==
  ASSUME IInv, NEW l \in Locks, ipc # "none", ipc' # "none", IntTypes', KindInv',
         UNCHANGED <<kind, ppc, op, n, ticks0, killed, saved, ncli, ints, intena>>,
         UNCHANGED <<buf, r, w, e, line, ready, ticks, slept>>,
         IntDepth' = IntDepth, ipc \in Waking => ipc' \in Waking,
         \/ /\ cpu[l] = NOCPU /\ cpu' = Set(cpu, l, CPU0)
            /\ \A k \in Locks : IntHolds(k)' <=> IntHolds(k) \/ k = l
         \/ /\ IntHolds(l) /\ cpu' = Set(cpu, l, NOCPU)
            /\ \A k \in Locks : IntHolds(k)' <=> IntHolds(k) /\ k # l
  PROVE  IInv'
<1>1. /\ CPU0 \in Cpus /\ ~Base(CPU0) /\ ppc[CPU0] \in Quiet
      /\ ncli[CPU0] = IntDepth /\ ints[CPU0] = FALSE
  BY Zenon, InHandler
<1>2. CpuTypes /\ InputTypes /\ LockInv /\ InputInv
  BY Zenon, <1>1, InvAt
<1>3. CliOk(CPU0)'
  BY Zenon, <1>1, IntCli
<1>4. CpuTypes' /\ InputTypes' /\ InputInv' /\ OthersCli
  BY Zenon, <1>1, <1>2 DEF CpuTypes, InputTypes, InputInv, RingMatches, OthersCli, Set
<1>5. \A d \in Cpus, k \in Locks : d # CPU0 => (Holds(d, k)' <=> Holds(d, k))
  BY Zenon DEF Holds, Lock
<1>6. \A k \in Locks : Holds(CPU0, k)' <=> IntHolds(k)'
  BY Zenon, <1>1 DEF Holds, IntHolds, Quiet
<1>7. \A k \in Locks : Holds(CPU0, k) <=> IntHolds(k)
  BY Zenon, HoldsInt
<1>8. LockInv'
  <2>1. CASE /\ cpu[l] = NOCPU /\ cpu' = Set(cpu, l, CPU0)
             /\ \A k \in Locks : IntHolds(k)' <=> IntHolds(k) \/ k = l
    <3>1. \A d \in Cpus, k \in Locks : Holds(d, k)' <=> Holds(d, k) \/ (d = CPU0 /\ k = l)
      BY Zenon, <1>5, <1>6, <1>7, <2>1
    <3> QED BY Zenon, <1>1, <1>2, <2>1, <3>1, LockTaken
  <2>2. CASE /\ IntHolds(l) /\ cpu' = Set(cpu, l, NOCPU)
             /\ \A k \in Locks : IntHolds(k)' <=> IntHolds(k) /\ k # l
    <3>1. \A d \in Cpus, k \in Locks : Holds(d, k)' <=> Holds(d, k) /\ ~(d = CPU0 /\ k = l)
      BY Zenon, <1>5, <1>6, <1>7, <2>2
    <3> QED BY Zenon, <1>1, <1>2, <1>7, <2>2, <3>1, LockGiven
  <2> QED BY Zenon, <2>1, <2>2
<1> QED
  BY Zenon, <1>3, <1>4, <1>8, IntStep

\* acquire() of the lock of a handler, of ptable.lock in aging() and wakeup(), and
\* of cons.lock in procdump(); release() in aging() and before procdump().
LEMMA TrapLockedStep ==
  ASSUME IInv, trap_locked
  PROVE  IInv'
<1>1. IntTypes /\ KindInv
  BY Zenon, ConsoleAssumption, InvAt
<1>2. /\ ipc = "first" /\ ipc' = "in" /\ cpu[kind] = NOCPU /\ cpu' = Set(cpu, kind, CPU0)
      /\ UNCHANGED <<kind, ppc, op, n, ticks0, killed, saved, ncli, ints, intena>>
      /\ UNCHANGED <<doprocdump, buf, r, w, e, line, ready, ticks, slept>>
  BY Zenon DEF trap_locked, xchg, cli, call, input, clock
<1>3. kind \in Locks /\ ipc # "none" /\ ipc' # "none"
  BY Zenon, <1>1, <1>2 DEF IntTypes, KindInv, Locks
<1>4. IntTypes' /\ KindInv' /\ IntDepth' = IntDepth /\ ipc \notin Waking
  BY Zenon, <1>1, <1>2 DEF IntTypes, KindInv, IntDepth, Waking
<1>5. \A k \in Locks : IntHolds(k)' <=> IntHolds(k) \/ k = kind
  BY Zenon, <1>2 DEF IntHolds
<1> QED
  BY Zenon, <1>2, <1>3, <1>4, <1>5, IntLockStep

\* aging() at the end of a tick takes ptable.lock and releases it.
LEMMA AgingStep ==
  ASSUME IInv, aging
  PROVE  IInv'
<1>1. IntTypes /\ KindInv /\ "ptable" \in Locks
  BY Zenon, ConsoleAssumption, InvAt DEF Locks
<1>2. /\ \/ ipc = "age" /\ cpu["ptable"] = NOCPU /\ cpu' = Set(cpu, "ptable", CPU0) /\ ipc' = "aged"
         \/ ipc = "aged" /\ cpu' = Set(cpu, "ptable", NOCPU) /\ ipc' = "wake"
      /\ UNCHANGED <<kind, ppc, op, n, ticks0, killed, saved, ncli, ints, intena>>
      /\ UNCHANGED <<doprocdump, buf, r, w, e, line, ready, ticks, slept>>
  BY Zenon DEF aging, xchg, cli, call, input, clock
<1>3. ipc # "none" /\ ipc' # "none"
  BY Zenon, <1>2
<1>4. IntTypes' /\ KindInv' /\ IntDepth' = IntDepth /\ ipc' \in Waking
  BY Zenon, <1>1, <1>2 DEF IntTypes, KindInv, IntDepth, Waking
<1>5. CASE ipc = "age"
  <2>1. \A k \in Locks : IntHolds(k)' <=> IntHolds(k) \/ k = "ptable"
    BY Zenon, <1>2, <1>5 DEF IntHolds
  <2>2. cpu["ptable"] = NOCPU /\ cpu' = Set(cpu, "ptable", CPU0)
    BY Zenon, <1>2, <1>5
  <2> QED BY Zenon, <1>1, <1>2, <1>3, <1>4, <2>1, <2>2, IntLockStep
<1>6. CASE ipc = "aged"
  <2>1. \A k \in Locks : IntHolds(k)' <=> IntHolds(k) /\ k # "ptable"
    BY Zenon, <1>1, <1>2, <1>6 DEF IntHolds, KindInv
  <2>2. IntHolds("ptable") /\ cpu' = Set(cpu, "ptable", NOCPU)
    BY Zenon, <1>2, <1>6 DEF IntHolds
  <2> QED BY Zenon, <1>1, <1>2, <1>3, <1>4, <2>1, <2>2, IntLockStep
<1> QED
  BY Zenon, <1>2, <1>5, <1>6

\* wakeup() takes ptable.lock to look at the sleepers, and releases it after.
LEMMA WakeupStep ==
  ASSUME IInv, wakeup
  PROVE  IInv'
<1>1. IntTypes /\ KindInv /\ "ptable" \in Locks
  BY Zenon, ConsoleAssumption, InvAt DEF Locks
<1>2. /\ ipc = "wake" /\ ipc' = "wakeup" /\ cpu["ptable"] = NOCPU /\ cpu' = Set(cpu, "ptable", CPU0)
      /\ UNCHANGED <<kind, ppc, op, n, ticks0, killed, saved, ncli, ints, intena>>
      /\ UNCHANGED <<doprocdump, buf, r, w, e, line, ready, ticks, slept>>
  BY Zenon DEF wakeup, xchg, cli, call, input, clock
<1>3. ipc # "none" /\ ipc' # "none"
  BY Zenon, <1>2
<1>4. IntTypes' /\ KindInv' /\ IntDepth' = IntDepth /\ ipc' \in Waking
  BY Zenon, <1>1, <1>2 DEF IntTypes, KindInv, IntDepth, Waking
<1>5. \A k \in Locks : IntHolds(k)' <=> IntHolds(k) \/ k = "ptable"
  BY Zenon, <1>2 DEF IntHolds
<1> QED
  BY Zenon, <1>1, <1>2, <1>3, <1>4, <1>5, IntLockStep

\* The end of a handler: the CPU goes back to a process that holds no lock.
LEMMA IretStep ==
  ASSUME IInv, ipc \in {"in", "end", "dumped"}, iret, UNCHANGED doprocdump
  PROVE  IInv'
<1>1. /\ CPU0 \in Cpus /\ ~Base(CPU0) /\ ppc[CPU0] \in Quiet /\ kind # "none"
      /\ ncli[CPU0] = IntDepth /\ ints[CPU0] = FALSE
  BY Zenon, InHandler
<1>2. CpuTypes /\ IntTypes /\ InputTypes /\ LockInv /\ InputInv /\ CliOk(CPU0)
  BY Zenon, <1>1, InvAt
<1>3. /\ cpu' = Set(cpu, kind, NOCPU) /\ ncli' = [ncli EXCEPT ![CPU0] = @ - 1]
      /\ ints' = Set(ints, CPU0, TRUE) /\ ipc' = "none" /\ kind' = "none"
      /\ UNCHANGED <<intena, saved, ppc, op, n, ticks0, killed>>
      /\ UNCHANGED <<buf, r, w, e, line, ready, ticks, slept>>
  BY Zenon DEF iret, call, input, clock
<1>4. kind \in Locks
  BY Zenon, <1>1, <1>2 DEF IntTypes, Locks
<1>5. ncli[CPU0] = 1
  BY Zenon, <1>1 DEF IntDepth
<1>6. /\ ncli'[CPU0] = 0 /\ ints'[CPU0] = TRUE
      /\ ncli' \in [Cpus -> 0 .. 2] /\ ints' \in [Cpus -> BOOLEAN]
      /\ \A d \in Cpus : d # CPU0 => ncli'[d] = ncli[d] /\ ints'[d] = ints[d]
  BY <1>1, <1>2, <1>3, <1>5 DEF CpuTypes, Set
<1>7. cpu' \in [Locks -> Cpus \cup {NOCPU}]
  BY Zenon, <1>2, <1>3 DEF CpuTypes, Set
<1>8. CpuTypes' /\ OthersCli
  BY Zenon, <1>2, <1>3, <1>6, <1>7 DEF CpuTypes, OthersCli
<1>9. InputTypes' /\ InputInv'
  BY Zenon, <1>2, <1>3 DEF InputTypes, InputInv, RingMatches
<1>10. IntTypes' /\ KindInv'
  BY Zenon, <1>2, <1>3 DEF IntTypes, KindInv
<1>11. CliOk(CPU0)'
  <2>1. Base(CPU0)' /\ ProcDepth(CPU0)' = 0 /\ ~(0 > 0)
    BY <1>1, <1>3 DEF Base, ProcDepth
  <2> QED BY Zenon, <1>2, <1>3, <1>6, <2>1 DEF CliOk, Depth
<1>12. LockInv'
  <2>1. \A d \in Cpus, k \in Locks : d # CPU0 => (Holds(d, k)' <=> Holds(d, k))
    BY Zenon, <1>3 DEF Holds, Lock
  <2>2. \A k \in Locks : ~Holds(CPU0, k)'
    BY Zenon, <1>1, <1>3 DEF Holds, Quiet
  <2>3. \A k \in Locks : Holds(CPU0, k) <=> k = kind
    <3>1. ipc # "none"
      BY Zenon
    <3>2. \A k \in Locks : Holds(CPU0, k) <=> IntHolds(k)
      BY Zenon, <3>1, HoldsInt
    <3> QED BY Zenon, <3>2 DEF IntHolds
  <2>4. \A d \in Cpus, k \in Locks : Holds(d, k)' <=> Holds(d, k) /\ ~(d = CPU0 /\ k = kind)
    BY Zenon, <2>1, <2>2, <2>3
  <2>5. Holds(CPU0, kind)
    BY Zenon, <1>4, <2>3
  <2> QED BY Zenon, <1>1, <1>2, <1>3, <1>4, <2>4, <2>5, LockGiven
<1>13. ipc \notin Waking
  BY Zenon DEF Waking
<1> QED
  BY Zenon, <1>3, <1>8, <1>9, <1>10, <1>11, <1>12, <1>13, IntStep

\* The end of consoleintr().
LEMMA ConsoleintrEndStep ==
  ASSUME IInv, consoleintr_end
  PROVE  IInv'
<1>1. IntTypes /\ KindInv /\ "cons" \in Locks
  BY Zenon, ConsoleAssumption, InvAt DEF Locks
<1>2. ipc = "in" /\ kind = "cons"
  BY Zenon DEF consoleintr_end
<1>3. CASE doprocdump
  <2>1. /\ ipc' = "dump" /\ doprocdump' = FALSE /\ cpu' = Set(cpu, "cons", NOCPU)
        /\ UNCHANGED <<kind, ppc, op, n, ticks0, killed, saved, ncli, ints, intena>>
        /\ UNCHANGED <<buf, r, w, e, line, ready, ticks, slept>>
    BY Zenon, <1>3 DEF consoleintr_end, cli, call, input, clock
  <2>2. IntTypes' /\ KindInv' /\ IntDepth' = IntDepth /\ ipc \notin Waking
    BY Zenon, <1>1, <1>2, <2>1 DEF IntTypes, KindInv, IntDepth, Waking
  <2>3. IntHolds("cons") /\ \A k \in Locks : IntHolds(k)' <=> IntHolds(k) /\ k # "cons"
    BY Zenon, <1>2, <2>1 DEF IntHolds
  <2>4. ipc # "none" /\ ipc' # "none"
    BY Zenon, <1>2, <2>1
  <2> QED BY Zenon, <1>1, <2>1, <2>2, <2>3, <2>4, IntLockStep
<1>4. CASE ~doprocdump
  BY Zenon, <1>2, <1>4, IretStep DEF consoleintr_end
<1> QED
  BY Zenon, <1>3, <1>4

\* procdump(), with cons.lock for each of its lines.
LEMMA ProcdumpStep ==
  ASSUME IInv, procdump
  PROVE  IInv'
<1>1. IntTypes /\ KindInv /\ "cons" \in Locks
  BY Zenon, ConsoleAssumption, InvAt DEF Locks
<1>2. CASE ipc = "dump"
  <2>1. /\ ipc' = "dumped" /\ cpu["cons"] = NOCPU /\ cpu' = Set(cpu, "cons", CPU0)
        /\ UNCHANGED <<kind, ppc, op, n, ticks0, killed, saved, ncli, ints, intena>>
        /\ UNCHANGED <<doprocdump, buf, r, w, e, line, ready, ticks, slept>>
    BY Zenon, <1>2 DEF procdump, xchg, cli, call, input, clock
  <2>2. IntTypes' /\ KindInv' /\ IntDepth' = IntDepth /\ ipc \notin Waking
    BY Zenon, <1>1, <1>2, <2>1 DEF IntTypes, KindInv, IntDepth, Waking
  <2>3. \A k \in Locks : IntHolds(k)' <=> IntHolds(k) \/ k = "cons"
    BY Zenon, <1>1, <1>2, <2>1 DEF IntHolds, KindInv
  <2>4. ipc # "none" /\ ipc' # "none"
    BY Zenon, <1>2, <2>1
  <2> QED BY Zenon, <1>1, <2>1, <2>2, <2>3, <2>4, IntLockStep
<1>3. CASE ipc # "dump"
  BY Zenon, <1>3, IretStep DEF procdump
<1> QED
  BY Zenon, <1>2, <1>3

\* An interrupt, of a CPU that takes one: its process holds no lock.
LEMMA TrapStep ==
  ASSUME IInv, trap
  PROVE  IInv'
<1>1. CPU0 \in Cpus
  BY Zenon, ConsoleAssumption
<1>2. CpuTypes /\ IntTypes /\ InputTypes /\ LockInv /\ InputInv /\ CliOk(CPU0) /\ KindInv
  BY Zenon, <1>1, InvAt
<1>3. /\ ints[CPU0] /\ Base(CPU0) /\ kind' \in {"cons", "ticks"} /\ ipc' = "first"
      /\ ints' = Set(ints, CPU0, FALSE) /\ intena' = Set(intena, CPU0, FALSE)
      /\ ncli' = [ncli EXCEPT ![CPU0] = @ + 1]
      /\ UNCHANGED <<cpu, saved, ppc, op, n, ticks0, killed, doprocdump>>
      /\ UNCHANGED <<buf, r, w, e, line, ready, ticks, slept>>
  BY Zenon DEF trap, call, input, clock
<1>4. ipc = "none" /\ ncli[CPU0] = 0 /\ ppc[CPU0] \in Quiet
  <2>1. ipc = "none" /\ ncli[CPU0] = 0 /\ ProcDepth(CPU0) = 0
    BY Zenon, <1>2, <1>3 DEF Base, CliOk, Depth
  <2> QED BY <2>1 DEF ProcDepth
<1>5. /\ ncli'[CPU0] = 1 /\ ints'[CPU0] = FALSE
      /\ ncli' \in [Cpus -> 0 .. 2] /\ ints' \in [Cpus -> BOOLEAN] /\ intena' \in [Cpus -> BOOLEAN]
      /\ \A d \in Cpus : d # CPU0 => ncli'[d] = ncli[d] /\ ints'[d] = ints[d] /\ intena'[d] = intena[d]
  BY <1>1, <1>2, <1>3, <1>4 DEF CpuTypes, Set
<1>6. CpuTypes' /\ OthersCli
  BY Zenon, <1>2, <1>3, <1>5 DEF CpuTypes, OthersCli
<1>7. InputTypes' /\ InputInv'
  BY Zenon, <1>2, <1>3 DEF InputTypes, InputInv, RingMatches
<1>8. IntTypes' /\ KindInv'
  BY Zenon, <1>2, <1>3 DEF IntTypes, KindInv
<1>9. CliOk(CPU0)'
  <2>1. ~Base(CPU0)' /\ IntDepth' = 1
    BY Zenon, <1>3 DEF Base, IntDepth
  <2> QED BY Zenon, <1>2, <1>3, <1>4, <1>5, <2>1 DEF CliOk, Depth
<1>10. LockInv'
  <2>1. \A d \in Cpus, k \in Locks : Holds(d, k)' <=> Holds(d, k)
    BY Zenon, <1>3, <1>4 DEF Holds, Lock
  <2> QED BY Zenon, <1>2, <1>3, <2>1, LockSame
<1>11. ipc \notin Waking
  BY Zenon, <1>4 DEF Waking
<1> QED
  BY Zenon, <1>3, <1>6, <1>7, <1>8, <1>9, <1>10, <1>11, IntStep

\* A line without its last character.
LEMMA Chopped ==
  ASSUME NEW S, NEW s \in Seq(S), Len(s) > 0
  PROVE  /\ SubSeq(s, 1, Len(s) - 1) \in Seq(S) /\ Len(SubSeq(s, 1, Len(s) - 1)) = Len(s) - 1
         /\ \A i \in 1 .. Len(SubSeq(s, 1, Len(s) - 1)) : SubSeq(s, 1, Len(s) - 1)[i] = s[i]
<1> DEFINE b == Len(s)
           t == SubSeq(s, 1, b - 1)
<1>1. b \in Nat /\ b - 1 \in Nat /\ 1 \in Int /\ 1 \in 1 .. b + 1 /\ b - 1 \in 1 - 1 .. b
  OBVIOUS
<1>2. t = [i \in 1 .. b - 1 |-> s[i]]
  BY <1>1
<1>3. \A i \in 1 .. b - 1 : s[i] \in S
  BY <1>1
<1> HIDE DEF t
<1>4. t \in Seq(S) /\ \A i \in 1 .. b - 1 : t[i] = s[i]
  BY <1>1, <1>2, <1>3
<1>5. Len(t) = b - 1
  <2>1. DOMAIN t = 1 .. Len(t) /\ DOMAIN t = 1 .. b - 1 /\ Len(t) \in Nat
    BY <1>1, <1>2, <1>4
  <2> QED BY <1>1, <2>1
<1> QED
  BY Zenon, <1>4, <1>5 DEF t

\* A step of consoleintr() that changes the line only.
LEMMA LineStep ==
  ASSUME IInv, ipc = "in", doprocdump' \in BOOLEAN, InputTypes', InputInv',
         UNCHANGED <<cpu, ints, ncli, intena, saved, ppc, op, n, ticks0, killed, ipc, kind>>,
         UNCHANGED <<r, w, ready, ticks, slept>>
  PROVE  IInv'
<1>1. /\ CpuTypes /\ IntTypes /\ KindInv /\ LockInv /\ CliOk(CPU0)
  BY Zenon, ConsoleAssumption, InvAt
<1>2. CpuTypes' /\ IntTypes' /\ KindInv' /\ OthersCli
  BY Zenon, <1>1 DEF CpuTypes, IntTypes, KindInv, OthersCli
<1>3. CliOk(CPU0)'
  BY Zenon, <1>1 DEF CliOk, Depth, ProcDepth, IntDepth, Base
<1>4. LockInv'
  <2>1. \A d \in Cpus, k \in Locks : Holds(d, k)' <=> Holds(d, k)
    BY Zenon DEF Holds, Lock
  <2> QED BY Zenon, <1>1, <2>1, LockSame
<1>5. ipc \notin Waking
  BY Zenon DEF Waking
<1> QED
  BY Zenon, <1>2, <1>3, <1>4, <1>5, IntStep

\* consoleintr(): ^P, ^U and backspace.
LEMMA ConsoleintrEditStep ==
  ASSUME IInv, consoleintr_edit
  PROVE  IInv'
<1>1. InputTypes /\ InputInv /\ IntTypes
  BY Zenon, ConsoleAssumption, InvAt
<1>2. /\ ipc = "in"
      /\ UNCHANGED <<cpu, ints, ncli, intena, saved, ppc, op, n, ticks0, killed, ipc, kind>>
      /\ UNCHANGED <<ready, ticks, slept>>
  BY Zenon DEF consoleintr_edit, cli, call, clock
<1>3. doprocdump \in BOOLEAN /\ line \in Seq(Chars)
  BY Zenon, <1>1 DEF IntTypes, InputTypes
<1>4. CASE doprocdump' = TRUE /\ UNCHANGED <<buf, r, w, e, line>>
  <2>1. InputTypes' /\ InputInv'
    BY Zenon, <1>1, <1>2, <1>4 DEF InputTypes, InputInv, RingMatches
  <2> QED BY Zenon, <1>2, <1>4, <2>1, LineStep
<1>5. CASE Erase(Erased) /\ line' = <<>> /\ UNCHANGED doprocdump
  <2>1. Erased = Len(line)
    BY Zenon, <1>1, ErasesTheLine
  <2>2. /\ Len(line) \in 0 .. Len(line) /\ line' \in Seq(Chars) /\ Len(line') = Len(line) - Len(line)
        /\ \A i \in 1 .. Len(line') : line'[i] = line[i]
    BY <1>3, <1>5
  <2>3. Erase(Len(line))
    BY Zenon, <1>5, <2>1
  <2>4. InputTypes' /\ InputInv'
    BY Zenon, <1>1, <1>2, <2>2, <2>3, InputErased
  <2>5. UNCHANGED <<r, w>>
    BY Zenon, <2>3 DEF Erase
  <2> QED BY Zenon, <1>2, <1>3, <1>5, <2>4, <2>5, LineStep
<1>6. CASE HasLine /\ Erase(1) /\ line' = SubSeq(line, 1, Len(line) - 1) /\ UNCHANGED doprocdump
  <2>1. Len(line) > 0
    <3>1. /\ Len(line) \in Nat /\ w \in 0 .. UINTS - 1 /\ e \in 0 .. UINTS - 1
          /\ UINTS \in Nat /\ UINTS > INPUT_BUF /\ INPUT_BUF \in Nat \ {0}
      BY Zenon, <1>1, RingFacts
    <3>2. (e - w) % UINTS = Len(line) /\ e # w
      BY Zenon, <1>1, <1>6 DEF InputInv, RingMatches, HasLine
    <3>3. (e - w) % UINTS = Minus(e, w)
      BY Zenon, <3>1, Unsigned
    <3> QED BY <3>1, <3>2, <3>3 DEF Minus
  <2>2. /\ 1 \in 0 .. Len(line) /\ line' \in Seq(Chars) /\ Len(line') = Len(line) - 1
        /\ \A i \in 1 .. Len(line') : line'[i] = line[i]
    <3>1. 1 \in 0 .. Len(line)
      BY <1>3, <2>1
    <3> QED BY Zenon, <1>3, <1>6, <2>1, <3>1, Chopped
  <2>3. InputTypes' /\ InputInv'
    BY Zenon, <1>1, <1>2, <1>6, <2>2, InputErased
  <2>4. UNCHANGED <<r, w>>
    BY Zenon, <1>6 DEF Erase
  <2> QED BY Zenon, <1>2, <1>3, <1>6, <2>3, <2>4, LineStep
<1> QED
  BY Zenon, <1>4, <1>5, <1>6 DEF consoleintr_edit

\* pushcli() in a handler, before the acquire() of ptable.lock.
LEMMA IntPush ==
  ASSUME IInv, ipc = "in", ipc' \in {"age", "wake"}, pushcli(CPU0), UNCHANGED <<cpu, ppc, saved, op, kind>>
  PROVE  CpuTypes' /\ OthersCli /\ CliOk(CPU0)' /\ LockInv'
<1>1. /\ CPU0 \in Cpus /\ ppc[CPU0] \in Quiet /\ ncli[CPU0] = IntDepth
  BY Zenon, InHandler
<1>2. CpuTypes /\ LockInv
  BY Zenon, <1>1, InvAt
<1>3. ncli[CPU0] = 1
  BY Zenon, <1>1 DEF IntDepth
<1>4. 1 < 2 /\ 1 + 1 = 2
  OBVIOUS
<1>5. /\ ints'[CPU0] = FALSE /\ ncli'[CPU0] = 2
      /\ \A d \in Cpus : d # CPU0 => ints'[d] = ints[d] /\ intena'[d] = intena[d] /\ ncli'[d] = ncli[d]
      /\ ints' \in [Cpus -> BOOLEAN] /\ intena' \in [Cpus -> BOOLEAN] /\ ncli' \in [Cpus -> 0 .. 2]
  BY Zenon, <1>1, <1>2, <1>3, <1>4, Pushed
<1>6. IntDepth' = 2 /\ ipc # "none" /\ ipc' # "none"
  BY Zenon DEF IntDepth
<1>7. CpuTypes' /\ OthersCli
  BY Zenon, <1>2, <1>5 DEF CpuTypes, OthersCli
<1>8. CliOk(CPU0)'
  BY Zenon, <1>5, <1>6, IntCli
<1>9. \A d \in Cpus, k \in Locks : Holds(d, k)' <=> Holds(d, k)
  BY Zenon DEF Holds, Lock
<1> QED
  BY Zenon, <1>2, <1>7, <1>8, <1>9, LockSame

\* A handler that holds its lock, and what that says of those on their way to sleep
\* on it.
LEMMA NobodyThere ==
  ASSUME IInv, ipc = "in", NEW d \in Cpus, ppc[d] \in {"sleep", "slept"}
  PROVE  Lock(d) # kind
<1>1. ipc # "none"
  BY Zenon
<1>2. CPU0 \in Cpus /\ ppc[CPU0] \in Quiet
  BY Zenon, <1>1, InHandler
<1>3. LockInv
  BY Zenon, InvAt
<1>4. Holds(d, Lock(d)) /\ Lock(d) \in Locks
  BY Zenon DEF Holds, Locks, Lock
<1>5. Holds(CPU0, kind)
  BY Zenon DEF Holds
<1>6. d # CPU0
  BY Zenon, <1>2 DEF Quiet
<1> QED
  BY Zenon, <1>2, <1>3, <1>4, <1>5, <1>6, OneHolder

\* consoleintr(): a character.
LEMMA ConsoleintrStep ==
  ASSUME IInv, consoleintr
  PROVE  IInv'
<1>1. /\ CpuTypes /\ CallTypes /\ IntTypes /\ InputTypes /\ ClockTypes /\ LockInv /\ InputInv
      /\ CliInv /\ CallInv /\ KindInv /\ WaitInv /\ ClockInv
  BY Zenon, ConsoleAssumption, InvAt
<1>2. /\ ipc = "in" /\ kind = "cons" /\ ~Full
      /\ UNCHANGED <<cpu, saved, ppc, op, n, ticks0, killed, kind, doprocdump, r, ticks, slept>>
  BY Zenon DEF consoleintr, call, clock
<1>3. PICK x \in Chars \ {"P", "U", "H"} :
         /\ buf' = Set(buf, e % INPUT_BUF, x) /\ e' = Inc(e)
         /\ \/ /\ Commits(x) /\ w' = e' /\ ready' = ready \o Append(line, x) /\ line' = <<>>
               /\ pushcli(CPU0) /\ ipc' = "wake"
            \/ /\ ~Commits(x) /\ line' = Append(line, x)
               /\ UNCHANGED <<w, ready, ints, ncli, intena, ipc>>
  BY Zenon DEF consoleintr
<1>4. x \in Chars /\ doprocdump \in BOOLEAN
  BY Zenon, <1>1 DEF IntTypes
<1>5. CASE ~Commits(x) /\ line' = Append(line, x) /\ UNCHANGED <<w, ready, ints, ncli, intena, ipc>>
  <2>1. InputTypes' /\ InputInv'
    BY Zenon, <1>1, <1>2, <1>3, <1>4, <1>5, InputAppended
  <2> QED BY Zenon, <1>2, <1>4, <1>5, <2>1, LineStep
<1>6. CASE /\ w' = e' /\ ready' = ready \o Append(line, x) /\ line' = <<>>
           /\ pushcli(CPU0) /\ ipc' = "wake"
  <2>1. InputTypes' /\ InputInv'
    BY Zenon, <1>1, <1>2, <1>3, <1>4, <1>6, InputCommitted
  <2>2. CpuTypes' /\ OthersCli /\ CliOk(CPU0)' /\ LockInv'
    BY Zenon, <1>2, <1>6, IntPush
  <2>3. CallTypes' /\ ClockTypes' /\ IntTypes' /\ KindInv'
    BY Zenon, <1>1, <1>2, <1>6 DEF CallTypes, ClockTypes, IntTypes, KindInv
  <2>4. ASSUME NEW d \in Cpus
        PROVE  CliOk(d)' /\ CallOk(d)' /\ WaitOk(d)' /\ ClockOk(d)'
    <3>1. CliOk(d) /\ CallOk(d) /\ WaitOk(d) /\ ClockOk(d)
      BY Zenon, InvAt
    <3>2. CliOk(d)'
      BY Zenon, <1>2, <2>2, <3>1 DEF OthersCli, CliOk, Depth, ProcDepth, Base
    <3>3. CallOk(d)' /\ ClockOk(d)'
      BY Zenon, <1>2, <3>1 DEF CallOk, ClockOk, Elapsed
    <3>4. ppc[d] \in {"sleep", "slept"} => op[d] = "sleep"
      BY Zenon, <1>2, <3>1, NobodyThere DEF CallOk, Lock
    <3>5. WaitOk(d)'
      BY Zenon, <1>2, <1>6, <3>1, <3>4 DEF WaitOk, CallOk, Waits, Elapsed, Lock
    <3> QED BY Zenon, <3>2, <3>3, <3>5
  <2>5. CliInv' /\ CallInv' /\ WaitInv' /\ ClockInv'
    BY Zenon, <2>3, <2>4 DEF CliInv, CallInv, WaitInv, ClockInv
  <2> QED BY Zenon, <2>1, <2>2, <2>3, <2>5, Types DEF IInv
<1> QED
  BY Zenon, <1>3, <1>5, <1>6

\* One more tick, one more of the unsigned difference.
LEMMA OneMoreTick ==
  ASSUME NEW t \in 0 .. UINTS - 1, NEW t0 \in 0 .. UINTS - 1, NEW k \in Nat, k + 1 < UINTS,
         (t - t0) % UINTS = k
  PROVE  (Inc(t) - t0) % UINTS = k + 1
<1>1. UINTS \in Nat \ {0} /\ 1 \in 0 .. UINTS - 1 /\ k \in 0 .. UINTS - 1 /\ k + 1 \in 0 .. UINTS - 1
  BY ConsoleAssumption
<1>2. t = (t0 + k) % UINTS
  BY <1>1, After
<1>3. t + 1 \in Int
  OBVIOUS
<1>4. Inc(t) = (t + 1) % UINTS /\ Inc(t) \in 0 .. UINTS - 1
  BY Zenon, <1>1, <1>3, ModRange DEF Inc
<1>5. Inc(t) = (t0 + (k + 1)) % UINTS
  BY <1>1, <1>2, <1>4, AfterTwice
<1> DEFINE m == k + 1
<1>6. m \in 0 .. UINTS - 1 /\ Inc(t) = (t0 + m) % UINTS
  BY Zenon, <1>1, <1>5
<1>7. (Inc(t) - t0) % UINTS = m
  <2> HIDE DEF m
  <2> QED BY <1>4, <1>6, After
<1> QED
  BY Zenon, <1>7

\* The timer interrupt: a tick.
LEMMA TickStep ==
  ASSUME IInv, tick
  PROVE  IInv'
<1>1. /\ CpuTypes /\ CallTypes /\ IntTypes /\ InputTypes /\ ClockTypes /\ LockInv /\ InputInv
      /\ CliInv /\ CallInv /\ KindInv /\ WaitInv /\ ClockInv
  BY Zenon, ConsoleAssumption, InvAt
<1>2. /\ ipc = "in" /\ kind = "ticks" /\ ipc' \in {"age", "wake"} /\ pushcli(CPU0)
      /\ ticks' = Inc(ticks) /\ slept' = Slept
      /\ UNCHANGED <<cpu, saved, ppc, op, n, ticks0, killed, kind, doprocdump>>
      /\ UNCHANGED <<buf, r, w, e, line, ready>>
  BY Zenon DEF tick, call, input
<1>3. CpuTypes' /\ OthersCli /\ CliOk(CPU0)' /\ LockInv'
  BY Zenon, <1>2, IntPush
<1>4. InputTypes' /\ InputInv' /\ CallTypes' /\ IntTypes' /\ KindInv'
  BY Zenon, <1>1, <1>2 DEF InputTypes, InputInv, RingMatches, CallTypes, IntTypes, KindInv
<1>5. ClockTypes'
  <2>1. UINTS \in Nat \ {0} /\ ticks + 1 \in Int /\ NTICKS \in Nat
    BY <1>1, ConsoleAssumption DEF ClockTypes
  <2>2. ticks' \in 0 .. UINTS - 1
    BY Zenon, <1>2, <2>1, ModRange DEF Inc
  <2>3. slept' \in [Cpus -> 0 .. NTICKS]
    <3>1. ASSUME NEW d \in Cpus
          PROVE  (IF op[d] = "sleep" /\ ppc[d] # "first" /\ slept[d] < NTICKS
                    THEN slept[d] + 1 ELSE slept[d]) \in 0 .. NTICKS
      <4>1. slept[d] \in 0 .. NTICKS
        BY Zenon, <1>1 DEF ClockTypes
      <4> QED BY <2>1, <4>1
    <3> QED BY Zenon, <1>2, <3>1 DEF Slept
  <2> QED BY Zenon, <2>2, <2>3 DEF ClockTypes
<1>6. ASSUME NEW d \in Cpus
      PROVE  CliOk(d)' /\ CallOk(d)' /\ WaitOk(d)' /\ ClockOk(d)'
  <2>1. CliOk(d) /\ CallOk(d) /\ WaitOk(d) /\ ClockOk(d)
    BY Zenon, InvAt
  <2>2. CliOk(d)'
    BY Zenon, <1>2, <1>3, <2>1 DEF OthersCli, CliOk, Depth, ProcDepth, Base
  <2>3. CallOk(d)'
    BY Zenon, <1>2, <2>1 DEF CallOk
  <2>4. ppc[d] \in {"sleep", "slept"} => op[d] = "read"
    BY Zenon, <1>2, <2>1, NobodyThere DEF CallOk, Lock
  <2>5. WaitOk(d)'
    BY Zenon, <1>2, <2>1, <2>4 DEF WaitOk, CallOk, Waits, Lock
  <2>6. slept'[d] = IF op[d] = "sleep" /\ ppc[d] # "first" /\ slept[d] < NTICKS
                      THEN slept[d] + 1 ELSE slept[d]
    BY Zenon, <1>2 DEF Slept
  <2>7. ClockOk(d)'
    <3>1. CASE op[d] = "sleep" /\ ppc[d] # "first" /\ slept[d] < NTICKS
      <4>1. Elapsed(d) = slept[d]
        BY Zenon, <2>1, <3>1 DEF ClockOk
      <4>2. /\ ticks \in 0 .. UINTS - 1 /\ ticks0[d] \in 0 .. UINTS - 1 /\ slept[d] \in 0 .. NTICKS
        BY Zenon, <1>1 DEF ClockTypes, CallTypes
      <4>4. ASSUME slept[d] + 1 < NTICKS PROVE Elapsed(d)' = slept[d] + 1
        <5>1. slept[d] \in Nat /\ slept[d] + 1 < UINTS
          BY <4>2, <4>4, ConsoleAssumption
        <5>2. (Inc(ticks) - ticks0[d]) % UINTS = slept[d] + 1
          BY Zenon, <4>1, <4>2, <5>1, OneMoreTick DEF Elapsed
        <5> QED BY Zenon, <1>2, <5>2 DEF Elapsed
      <4> QED BY Zenon, <1>2, <2>6, <3>1, <4>4 DEF ClockOk
    <3>2. CASE ~(op[d] = "sleep" /\ ppc[d] # "first" /\ slept[d] < NTICKS)
      BY Zenon, <1>2, <2>1, <2>6, <3>2 DEF ClockOk
    <3> QED BY Zenon, <3>1, <3>2
  <2> QED BY Zenon, <2>2, <2>3, <2>5, <2>7
<1>7. CliInv' /\ CallInv' /\ WaitInv' /\ ClockInv'
  BY Zenon, <1>4, <1>6 DEF CliInv, CallInv, WaitInv, ClockInv
<1> QED
  BY Zenon, <1>3, <1>4, <1>5, <1>7, Types DEF IInv

\* wakeup1(): the sleepers on what the handler is about run again, and nobody is
\* between the release() of that lock and SLEEPING, which has ptable.lock.
LEMMA Wakeup1Step ==
  ASSUME IInv, wakeup1
  PROVE  IInv'
<1>1. /\ CpuTypes /\ CallTypes /\ IntTypes /\ InputTypes /\ ClockTypes /\ LockInv /\ InputInv
      /\ CliInv /\ CallInv /\ KindInv /\ WaitInv /\ ClockInv
  BY Zenon, ConsoleAssumption, InvAt
<1>2. /\ ipc = "wakeup" /\ ipc' = (IF kind = "cons" THEN "in" ELSE "end")
      /\ ppc' = [d \in Cpus |-> IF ppc[d] = "asleep" /\ Lock(d) = kind THEN "runnable" ELSE ppc[d]]
      /\ cpu' = Set(cpu, "ptable", NOCPU) /\ popcli(CPU0)
      /\ UNCHANGED <<saved, op, n, ticks0, killed, kind, doprocdump, ticks, slept>>
      /\ UNCHANGED <<buf, r, w, e, line, ready>>
  BY Zenon DEF wakeup1, release, call, input, clock
<1>3. /\ CPU0 \in Cpus /\ ppc[CPU0] \in Quiet /\ kind \in {"cons", "ticks"} /\ ncli[CPU0] = 2
      /\ ipc # "none" /\ ipc' # "none"
  <2>1. ipc # "none" /\ ipc' # "none"
    BY Zenon, <1>2
  <2> QED BY Zenon, <1>1, <1>2, <2>1, InHandler DEF IntDepth, IntTypes
<1>4. \A d \in Cpus : ppc'[d] = IF ppc[d] = "asleep" /\ Lock(d) = kind THEN "runnable" ELSE ppc[d]
  BY Zenon, <1>2
<1>5. CallTypes' /\ ClockTypes' /\ InputTypes' /\ InputInv' /\ IntTypes' /\ KindInv'
  <2>1. ppc' \in [Cpus -> Ppc]
    <3>1. ASSUME NEW d \in Cpus
          PROVE  (IF ppc[d] = "asleep" /\ Lock(d) = kind THEN "runnable" ELSE ppc[d]) \in Ppc
      BY Zenon, <1>1 DEF CallTypes, Ppc
    <3> QED BY Zenon, <1>2, <3>1
  <2>2. CallTypes' /\ ClockTypes'
    BY Zenon, <1>1, <1>2, <2>1 DEF CallTypes, ClockTypes
  <2>3. InputTypes' /\ InputInv'
    BY Zenon, <1>1, <1>2 DEF InputTypes, InputInv, RingMatches
  <2>4. IntTypes' /\ KindInv'
    BY Zenon, <1>1, <1>2, <1>3 DEF IntTypes, KindInv
  <2> QED BY Zenon, <2>2, <2>3, <2>4
<1>6. /\ ints'[CPU0] = FALSE /\ ncli'[CPU0] = 1 /\ intena' = intena
      /\ ints' \in [Cpus -> BOOLEAN] /\ ncli' \in [Cpus -> 0 .. 2]
      /\ \A d \in Cpus : d # CPU0 => ints'[d] = ints[d] /\ ncli'[d] = ncli[d]
  <2>1. 2 - 1 = 1 /\ 2 > 0 /\ 2 # 1
    OBVIOUS
  <2> QED BY Zenon, <1>1, <1>2, <1>3, <2>1, Popped
<1>7. CpuTypes'
  <2>1. cpu' \in [Locks -> Cpus \cup {NOCPU}]
    BY Zenon, <1>1, <1>2 DEF CpuTypes, Set
  <2> QED BY Zenon, <1>1, <1>2, <1>6, <2>1 DEF CpuTypes
<1>8. LockInv'
  <2>1. "ptable" \in Locks /\ Holds(CPU0, "ptable")
    BY Zenon, <1>2 DEF Locks, Holds
  <2>2. \A d \in Cpus, k \in Locks : Holds(d, k)' <=> Holds(d, k) /\ ~(d = CPU0 /\ k = "ptable")
    <3> SUFFICES ASSUME NEW d \in Cpus, NEW k \in Locks
                 PROVE  Holds(d, k)' <=> Holds(d, k) /\ ~(d = CPU0 /\ k = "ptable")
      BY Zenon
    <3>1. /\ ppc'[d] \in {"in", "sleep", "slept"} <=> ppc[d] \in {"in", "sleep", "slept"}
          /\ ppc'[d] \in {"slept", "switch", "woken"} <=> ppc[d] \in {"slept", "switch", "woken"}
      BY Zenon, <1>4
    <3>2. CASE d # CPU0
      BY Zenon, <1>2, <3>1, <3>2 DEF Holds, Lock
    <3>3. CASE d = CPU0
      BY Zenon, <1>2, <1>3, <3>1, <3>3 DEF Holds, Lock, Quiet
    <3> QED BY Zenon, <3>2, <3>3
  <2> QED BY Zenon, <1>1, <1>2, <1>3, <2>1, <2>2, LockGiven
<1>9. ASSUME NEW d \in Cpus
      PROVE  CliOk(d)' /\ CallOk(d)' /\ WaitOk(d)' /\ ClockOk(d)'
  <2>1. CliOk(d) /\ CallOk(d) /\ WaitOk(d) /\ ClockOk(d)
    BY Zenon, InvAt
  <2>2. /\ ppc'[d] = ppc[d] \/ (ppc[d] = "asleep" /\ ppc'[d] = "runnable")
        /\ ppc'[d] \in Quiet <=> ppc[d] \in Quiet
        /\ ppc'[d] \in {"asleep", "runnable", "run"} <=> ppc[d] \in {"asleep", "runnable", "run"}
    BY Zenon, <1>4 DEF Quiet
  <2>3. CliOk(d)'
    <3>1. CASE d = CPU0
      <4>1. ~Base(d)' /\ IntDepth' = 1
        BY Zenon, <1>2, <1>3, <3>1 DEF Base, IntDepth
      <4> QED BY Zenon, <1>2, <1>3, <1>6, <2>1, <2>2, <3>1, <4>1 DEF CliOk, Depth
    <3>2. CASE d # CPU0
      <4>1. Base(d) /\ Base(d)' /\ ProcDepth(d)' = ProcDepth(d)
        BY Zenon, <2>2, <3>2 DEF Base, ProcDepth, Quiet
      <4> QED BY Zenon, <1>2, <1>6, <2>1, <2>2, <3>2, <4>1 DEF CliOk, Depth
    <3> QED BY Zenon, <3>1, <3>2
  <2>4. CallOk(d)' /\ ClockOk(d)'
    BY Zenon, <1>2, <2>1, <2>2 DEF CallOk, ClockOk, Elapsed
  <2>5. ppc[d] # "switch"
    <3>1. "ptable" \in Locks /\ Holds(CPU0, "ptable")
      BY Zenon, <1>2 DEF Locks, Holds
    <3>2. ppc[d] = "switch" => Holds(d, "ptable") /\ d # CPU0
      BY Zenon, <1>3 DEF Holds, Quiet
    <3> QED BY Zenon, <1>1, <1>3, <3>1, <3>2, OneHolder
  <2>6. WaitOk(d)'
    BY Zenon, <1>2, <1>4, <2>1, <2>5 DEF WaitOk, Waits, Elapsed, Lock
  <2> QED BY Zenon, <2>3, <2>4, <2>6
<1>10. CliInv' /\ CallInv' /\ WaitInv' /\ ClockInv'
  BY Zenon, <1>5, <1>9 DEF CliInv, CallInv, WaitInv, ClockInv
<1> QED
  BY Zenon, <1>5, <1>7, <1>8, <1>10, Types DEF IInv

-----------------------------------------------------------------------------
(* The invariant.                                                          *)

\* The kernel starts with no lock held, interrupts on and nothing typed.
LEMMA InitIInv ==
  Init => IInv
<1> SUFFICES ASSUME Init PROVE IInv
  OBVIOUS
<1>1. /\ NOCPU \notin Cpus /\ CPU0 \in Cpus /\ INPUT_BUF \in Nat \ {0} /\ UINTS \in Nat
      /\ UINTS > INPUT_BUF /\ READ \in Nat /\ NTICKS \in Nat /\ UINTS \in Nat \ {0}
  BY ConsoleAssumption
<1>2. 0 \in 0 .. 2 /\ 0 \in 0 .. READ /\ 0 \in 0 .. UINTS - 1 /\ 0 \in 0 .. NTICKS /\ ~(0 > 0)
  BY <1>1
<1>3. <<>> \in Seq(Chars) /\ Len(<<>>) = 0 /\ <<>> \o <<>> = <<>> /\ 1 .. 0 = {} /\ 0 + 0 = 0 /\ 0 - 0 = 0
  OBVIOUS
<1>4. TypeOK
  <2>1. CpuTypes
    BY Zenon, <1>2 DEF Init, CpuTypes
  <2>2. CallTypes
    BY Zenon, <1>2 DEF Init, CallTypes, Ppc
  <2>3. IntTypes
    BY Zenon DEF Init, IntTypes
  <2>4. InputTypes
    BY Zenon, <1>2, <1>3 DEF Init, InputTypes
  <2>5. ClockTypes
    BY Zenon, <1>2 DEF Init, ClockTypes
  <2> QED BY Zenon, <2>1, <2>2, <2>3, <2>4, <2>5, Types
<1>5. LockInv
  <2> SUFFICES ASSUME NEW c \in Cpus, NEW l \in Locks PROVE cpu[l] # c /\ ~Holds(c, l)
    BY Zenon DEF LockInv
  <2>1. cpu[l] = NOCPU /\ ppc[c] = "user" /\ ipc = "none"
    BY Zenon DEF Init
  <2> QED BY Zenon, <1>1, <2>1 DEF Holds
<1>6. ASSUME NEW c \in Cpus
      PROVE  CliOk(c) /\ CallOk(c) /\ WaitOk(c) /\ ClockOk(c)
  <2>1. /\ ppc[c] = "user" /\ ipc = "none" /\ ints[c] = TRUE /\ ncli[c] = 0 /\ op[c] = "none"
        /\ slept[c] = 0
    BY Zenon DEF Init
  <2>2. Base(c) /\ Depth(c) = 0
    BY Zenon, <2>1 DEF Base, Depth, ProcDepth, Quiet
  <2> QED BY Zenon, <1>2, <2>1, <2>2 DEF CliOk, CallOk, WaitOk, ClockOk
<1>7. KindInv
  BY Zenon DEF Init, KindInv
<1>8. InputInv
  <2>1. 0 % UINTS = 0
    BY Zenon, <1>1, <1>2, ModSmall
  <2>2. 0 <= INPUT_BUF
    BY <1>1
  <2> QED BY Zenon, <1>3, <2>1, <2>2 DEF Init, InputInv, RingMatches
<1> QED
  BY Zenon, <1>4, <1>5, <1>6, <1>7, <1>8 DEF IInv, CliInv, CallInv, WaitInv, ClockInv

\* Every step of the processes and of the handlers keeps the invariant.
LEMMA NextIInv ==
  IInv /\ [Next]_vars => IInv'
<1> SUFFICES ASSUME IInv, [Next]_vars PROVE IInv'
  OBVIOUS
<1>1. CASE trap
  BY Zenon, <1>1, TrapStep
<1>2. CASE trap_locked
  BY Zenon, <1>2, TrapLockedStep
<1>3. CASE tick
  BY Zenon, <1>3, TickStep
<1>4. CASE aging
  BY Zenon, <1>4, AgingStep
<1>5. CASE tick_return
  BY Zenon, <1>5, IretStep DEF tick_return
<1>6. CASE consoleintr_edit
  BY Zenon, <1>6, ConsoleintrEditStep
<1>7. CASE consoleintr
  BY Zenon, <1>7, ConsoleintrStep
<1>8. CASE wakeup
  BY Zenon, <1>8, WakeupStep
<1>9. CASE wakeup1
  BY Zenon, <1>9, Wakeup1Step
<1>10. CASE consoleintr_end
  BY Zenon, <1>10, ConsoleintrEndStep
<1>11. CASE procdump
  BY Zenon, <1>11, ProcdumpStep
<1>12. ASSUME NEW c \in Cpus,
              \/ syscall(c) \/ locked(c) \/ consoleread(c) \/ consolewrite(c)
              \/ sys_sleep(c) \/ giveup(c) \/ sleep(c) \/ sleep_locked(c)
              \/ sleep_release(c) \/ sched(c) \/ scheduler(c) \/ swtch(c)
              \/ sleep_woken(c) \/ sleep_relock(c) \/ kill(c)
       PROVE  IInv'
  <2>1. syscall(c) \/ locked(c) \/ consoleread(c) => IInv'
    BY Zenon, SyscallStep, LockedStep, ConsolereadStep
  <2>2. consolewrite(c) \/ sys_sleep(c) \/ giveup(c) => IInv'
    BY Zenon, ReturnStep
  <2>3. sleep(c) \/ sleep_locked(c) \/ sleep_release(c) => IInv'
    BY Zenon, SleepStep, SleepLockedStep, SleepReleaseStep
  <2>4. sched(c) \/ scheduler(c) \/ swtch(c) => IInv'
    BY Zenon, SchedStep, SchedulerStep, SwtchStep
  <2>5. sleep_woken(c) \/ sleep_relock(c) \/ kill(c) => IInv'
    BY Zenon, SleepWokenStep, SleepRelockStep, KillStep
  <2> QED BY Zenon, <1>12, <2>1, <2>2, <2>3, <2>4, <2>5
<1>13. CASE UNCHANGED vars
  <2>1. /\ UNCHANGED <<cpu, ints, ncli, intena, saved, ppc, op, n, ticks0, killed>>
        /\ UNCHANGED <<ipc, kind, doprocdump, buf, r, w, e, line, ready, ticks, slept>>
    BY Zenon, <1>13 DEF vars, cli, call, intr, input, clock
  <2>2. TypeOK'
    BY Zenon, <2>1 DEF IInv, TypeOK
  <2>3. LockInv' /\ CliInv'
    <3>1. \A d \in Cpus, k \in Locks : Holds(d, k)' <=> Holds(d, k)
      BY Zenon, <2>1 DEF Holds, Lock
    <3>2. LockInv'
      BY Zenon, <2>1, <3>1, LockSame DEF IInv
    <3>3. CliInv'
      BY Zenon, <2>1 DEF IInv, CliInv, CliOk, Depth, ProcDepth, IntDepth, Base
    <3> QED BY Zenon, <3>2, <3>3
  <2>4. CallInv' /\ WaitInv' /\ ClockInv'
    BY Zenon, <2>1 DEF IInv, CallInv, KindInv, CallOk, WaitInv, WaitOk, ClockInv, ClockOk,
                       Waits, Elapsed, Lock
  <2>5. InputInv'
    BY Zenon, <2>1 DEF IInv, InputInv, RingMatches
  <2> QED BY Zenon, <2>2, <2>3, <2>4, <2>5 DEF IInv
<1> QED
  BY Zenon, <1>1, <1>2, <1>3, <1>4, <1>5, <1>6, <1>7, <1>8, <1>9, <1>10, <1>11, <1>12, <1>13 DEF Next

\* The invariant holds: locks are held where the code holds them, pushcli() and
\* popcli() match, sleepers wait or are about to be woken, and the ring is what was
\* typed.
THEOREM Invariance == Spec => []IInv
<1>1. Init => IInv
  BY InitIInv
<1>2. IInv /\ [Next]_vars => IInv'
  BY NextIInv
<1> QED
  BY <1>1, <1>2, PTL DEF Spec

\* consoleintr() and consoleread() keep the input, whatever the indexes wrap to,
\* and a full ring can be read.
THEOREM InputIsKept == Spec => []InputKept
<1>1. IInv => InputKept
  <2> SUFFICES ASSUME IInv PROVE InputKept
    OBVIOUS
  <2>1. TypeOK /\ InputTypes /\ InputInv /\ RingMatches
    BY Zenon, Types DEF IInv, InputInv
  <2>2. FullIsReadable
    <3> SUFFICES ASSUME Full, r = w PROVE FALSE
      BY Zenon DEF FullIsReadable
    <3> DEFINE a == Len(ready)
               b == Len(line)
    <3>1. /\ INPUT_BUF \in Nat \ {0} /\ UINTS \in Nat \ {0} /\ a \in Nat /\ b \in Nat /\ line \in Seq(Chars)
          /\ w \in 0 .. UINTS - 1
      BY <2>1, RingFacts DEF InputTypes
    <3>2. (w - r) % UINTS = a /\ (e - w) % UINTS = b /\ (a + b = INPUT_BUF => line = <<>>) /\ a + b <= INPUT_BUF
      BY Zenon, <2>1 DEF RingMatches, InputInv
    <3>3. w - r = 0 /\ 0 \in 0 .. UINTS - 1
      BY <3>1
    <3>4. a = 0
      BY Zenon, <3>1, <3>2, <3>3, ModSmall
    <3>5. b >= INPUT_BUF
      BY Zenon, <3>2 DEF Full
    <3>6. b = INPUT_BUF /\ a + b = INPUT_BUF
      BY <3>1, <3>2, <3>4, <3>5
    <3>7. b = 0
      BY <3>2, <3>6
    <3> QED BY <3>1, <3>6, <3>7
  <2> QED BY Zenon, <2>1, <2>2 DEF InputKept
<1> QED
  BY <1>1, Invariance, PTL

\* A process that sleeps in consoleread() or sys_sleep() has still to wait, or the
\* handler is about to call wakeup() for it.
THEOREM WakeupsAreNotLost == Spec => []NoLostWakeup
<1>1. IInv => NoLostWakeup
  BY Zenon DEF IInv, WaitInv, WaitOk, NoLostWakeup
<1> QED
  BY <1>1, Invariance, PTL

\* sys_sleep() of a process that is not killed returns after the ticks it was asked
\* for, though the counter may wrap.
THEOREM SleepIsLongEnough == Spec => SleepsEnough
<1>1. IInv /\ [Next]_vars =>
        [\A c \in Cpus : op[c] = "sleep" /\ op'[c] = "none" /\ ~killed[c] => slept[c] = NTICKS]_vars
  <2> SUFFICES ASSUME IInv, Next, NEW c \in Cpus, op[c] = "sleep", op'[c] = "none", ~killed[c]
               PROVE  slept[c] = NTICKS
    BY Zenon
  <2>1. CallTypes /\ ClockTypes /\ CallOk(c) /\ ClockOk(c)
    BY Zenon, InvAt
  <2>2. ASSUME NEW d \in Cpus, d # c
        PROVE  \A o : op' # Set(op, d, o)
    BY Zenon, <2>1, <2>2 DEF CallTypes, Set
  <2>3. \A o \in {"read", "write", "sleep"} : op' # Set(op, c, o)
    BY Zenon, <2>1 DEF CallTypes, Set
  <2>4. op' # op
    BY Zenon
  <2>5. PICK d \in Cpus : syscall(d) \/ (return(d) /\ (sys_sleep(d) \/ giveup(d) \/ op[d] \in {"read", "write"}))
    BY Zenon, <2>4 DEF Next, trap, trap_locked, tick, aging, tick_return, iret, consoleintr_edit,
      consoleintr, wakeup, wakeup1, consoleintr_end, procdump, locked, consoleread, consolewrite,
      sys_sleep, giveup, sleep, sleep_locked, sleep_release, sched, scheduler, swtch, sleep_woken,
      sleep_relock, kill, call
  <2>6. d = c
    BY Zenon, <2>2, <2>5 DEF syscall, return
  <2>7. sys_sleep(c)
    <3>1. ~syscall(c)
      <4>1. Ops[c] \in SUBSET {"read", "write", "sleep"}
        BY Zenon, ConsoleAssumption
      <4> QED BY Zenon, <2>3, <4>1 DEF syscall
    <3>2. ~giveup(c)
      BY Zenon DEF giveup
    <3> QED BY Zenon, <2>5, <2>6, <3>1, <3>2
  <2>8. ppc[c] = "in" /\ ~(Elapsed(c) < NTICKS)
    BY Zenon, <2>7 DEF sys_sleep, Waits
  <2>9. slept[c] \in 0 .. NTICKS /\ (slept[c] < NTICKS => Elapsed(c) = slept[c])
    BY Zenon, <2>1, <2>8 DEF ClockOk, ClockTypes
  <2> QED BY <2>8, <2>9, ConsoleAssumption
<1> QED
  BY <1>1, Invariance, PTL DEF Spec, SleepsEnough

\* The sizes of a CPU's set of locks.
LEMMA Sizes ==
  ASSUME NEW a \in Locks, NEW b \in Locks, a # b
  PROVE  Size({}) = 0 /\ Size({a}) = 1 /\ Size({b}) = 1 /\ Size({a, b}) = 2
BY DEF Size, Locks

\* What a process holds and what it asks for, where it is.
LEMMA ProcLocks ==
  ASSUME IInv, NEW c \in Cpus, Base(c)
  PROVE  /\ ppc[c] \in Quiet => {l \in Locks : cpu[l] = c} = {} /\ Wanted(c) = {}
         /\ ppc[c] \in {"first", "again"} => {l \in Locks : cpu[l] = c} = {} /\ Wanted(c) = {Lock(c)}
         /\ ppc[c] = "run" => {l \in Locks : cpu[l] = c} = {} /\ Wanted(c) = {"ptable"}
         /\ ppc[c] = "in" => {l \in Locks : cpu[l] = c} = {Lock(c)} /\ Wanted(c) = {}
         /\ ppc[c] = "sleep" => {l \in Locks : cpu[l] = c} = {Lock(c)} /\ Wanted(c) = {"ptable"}
         /\ ppc[c] = "slept" => {l \in Locks : cpu[l] = c} = {Lock(c), "ptable"} /\ Wanted(c) = {}
         /\ ppc[c] \in {"switch", "woken"} => {l \in Locks : cpu[l] = c} = {"ptable"} /\ Wanted(c) = {}
<1> DEFINE held == {l \in Locks : cpu[l] = c}
<1>1. LockInv
  BY Zenon, InvAt
<1>2. \A l \in Locks : l \in held <=> \/ ppc[c] \in {"in", "sleep", "slept"} /\ l = Lock(c)
                                      \/ ppc[c] \in {"slept", "switch", "woken"} /\ l = "ptable"
  BY Zenon, <1>1, LockAlone DEF LockInv
<1>3. Lock(c) \in Locks /\ "ptable" \in Locks /\ held \subseteq Locks
  BY Zenon DEF Lock, Locks
<1> HIDE DEF held
<1>4. /\ ppc[c] \notin {"in", "sleep", "slept", "switch", "woken"} => held = {}
      /\ ppc[c] \in {"in", "sleep"} => held = {Lock(c)}
      /\ ppc[c] = "slept" => held = {Lock(c), "ptable"}
      /\ ppc[c] \in {"switch", "woken"} => held = {"ptable"}
  BY Zenon, <1>2, <1>3
<1>5. /\ ppc[c] \in {"first", "again"} => Wanted(c) = {Lock(c)}
      /\ ppc[c] \in {"sleep", "run"} => Wanted(c) = {"ptable"}
      /\ ppc[c] \notin {"first", "again", "sleep", "run"} => Wanted(c) = {}
  BY DEF Wanted
<1> QED
  BY Zenon, <1>4, <1>5 DEF held, Quiet

\* The same of a handler.
LEMMA IntLocks ==
  ASSUME IInv, ipc # "none"
  PROVE  /\ ipc = "first" => {l \in Locks : cpu[l] = CPU0} = {} /\ Wanted(CPU0) = {kind}
         /\ ipc = "dump" => {l \in Locks : cpu[l] = CPU0} = {} /\ Wanted(CPU0) = {kind}
         /\ ipc \in {"in", "end", "dumped"} => {l \in Locks : cpu[l] = CPU0} = {kind} /\ Wanted(CPU0) = {}
         /\ ipc \in {"age", "wake"} => {l \in Locks : cpu[l] = CPU0} = {kind} /\ Wanted(CPU0) = {"ptable"}
         /\ ipc \in {"aged", "wakeup"} =>
              {l \in Locks : cpu[l] = CPU0} = {kind, "ptable"} /\ Wanted(CPU0) = {}
<1> DEFINE held == {l \in Locks : cpu[l] = CPU0}
<1>1. CPU0 \in Cpus /\ ~Base(CPU0) /\ kind # "none"
  BY Zenon, InHandler
<1>2. LockInv /\ IntTypes /\ KindInv
  BY Zenon, <1>1, InvAt
<1>3. \A l \in Locks : l \in held <=> IntHolds(l)
  BY Zenon, <1>1, <1>2, HoldsInt DEF LockInv
<1>4. kind \in Locks /\ "ptable" \in Locks /\ held \subseteq Locks
  BY Zenon, <1>1, <1>2 DEF IntTypes, Locks
<1> HIDE DEF held
<1>5. /\ ipc \in {"first", "dump"} => held = {}
      /\ ipc \in {"in", "end", "dumped", "age", "wake"} => held = {kind}
      /\ ipc \in {"aged", "wakeup"} => held = {kind, "ptable"}
  BY Zenon, <1>3, <1>4 DEF IntHolds
<1>6. /\ ipc = "first" => Wanted(CPU0) = {kind}
      /\ ipc = "dump" => Wanted(CPU0) = {"cons"}
      /\ ipc \in {"age", "wake"} => Wanted(CPU0) = {"ptable"}
      /\ ipc \notin {"first", "dump", "age", "wake"} => Wanted(CPU0) = {}
  BY <1>1 DEF Wanted
<1>7. ipc = "dump" => kind = "cons"
  BY Zenon, <1>2 DEF KindInv
<1> QED
  BY Zenon, <1>5, <1>6, <1>7 DEF held

\* pushcli() and popcli() match the locks, on every CPU: acquire() does not deadlock
\* with a handler of the same CPU, and the panics of acquire(), popcli() and sched()
\* about interrupts do not happen.
THEOREM InterruptsMatchLocks == Spec => []CliMatches
<1>1. IInv => CliMatches
  <2> SUFFICES ASSUME IInv, NEW c \in Cpus
               PROVE  LET held == {l \in Locks : cpu[l] = c}
                      IN /\ Wanted(c) \cap held = {}
                         /\ ncli[c] = Size(held) + Size(Wanted(c))
                         /\ ints[c] <=> Base(c) /\ ncli[c] = 0
                         /\ ppc[c] = "switch" => held = {"ptable"}
    BY Zenon DEF CliMatches
  <2> DEFINE held == {l \in Locks : cpu[l] = c}
  <2>1. CliOk(c) /\ ppc[c] \in Ppc /\ IntTypes
    BY Zenon, InvAt DEF CallTypes
  <2>2. ints[c] <=> Base(c) /\ ncli[c] = 0
    BY Zenon, <2>1 DEF CliOk
  <2>3. 0 + 0 = 0 /\ 0 + 1 = 1 /\ 1 + 0 = 1 /\ 1 + 1 = 2 /\ 2 + 0 = 2
    OBVIOUS
  <2>4. ASSUME Base(c)
        PROVE  /\ Wanted(c) \cap held = {} /\ ncli[c] = Size(held) + Size(Wanted(c))
               /\ ppc[c] = "switch" => held = {"ptable"}
    <3>1. ncli[c] = ProcDepth(c) /\ Lock(c) # "ptable"
      BY Zenon, <2>1, <2>4 DEF CliOk, Depth, Lock
    <3>2. /\ Size({}) = 0 /\ Size({Lock(c)}) = 1 /\ Size({"ptable"}) = 1
          /\ Size({Lock(c), "ptable"}) = 2
      <4>1. Lock(c) \in Locks /\ "ptable" \in Locks
        BY Zenon DEF Lock, Locks
      <4> QED BY Zenon, <3>1, <4>1, Sizes
    <3> HIDE DEF held
    <3>3. CASE ppc[c] \in Quiet
      BY Zenon, <2>3, <2>4, <3>1, <3>2, <3>3, ProcLocks DEF ProcDepth, Quiet, held
    <3>4. CASE ppc[c] \in {"first", "again", "run", "in", "switch", "woken"}
      BY Zenon, <2>3, <2>4, <3>1, <3>2, <3>4, ProcLocks DEF ProcDepth, Quiet, held
    <3>5. CASE ppc[c] \in {"sleep", "slept"}
      BY Zenon, <2>3, <2>4, <3>1, <3>2, <3>5, ProcLocks DEF ProcDepth, Quiet, held
    <3> QED BY Zenon, <2>1, <3>3, <3>4, <3>5 DEF Ppc, Quiet
  <2>5. ASSUME ~Base(c)
        PROVE  /\ Wanted(c) \cap held = {} /\ ncli[c] = Size(held) + Size(Wanted(c))
               /\ ppc[c] # "switch"
    <3>1. c = CPU0 /\ ipc # "none"
      BY Zenon, <2>5 DEF Base
    <3>2. ncli[c] = IntDepth /\ kind # "ptable" /\ ppc[c] \in Quiet
      BY Zenon, <2>1, <3>1, InHandler DEF IntTypes
    <3>3. /\ Size({}) = 0 /\ Size({kind}) = 1 /\ Size({"ptable"}) = 1
          /\ Size({kind, "ptable"}) = 2
      <4>1. kind \in Locks /\ "ptable" \in Locks
        BY Zenon, <2>1, <3>1, InHandler DEF IntTypes, Locks
      <4> QED BY Zenon, <3>2, <4>1, Sizes
    <3> HIDE DEF held
    <3>4. CASE ipc \in {"first", "dump", "in", "end", "dumped"}
      BY Zenon, <2>3, <3>1, <3>2, <3>3, <3>4, IntLocks DEF IntDepth, Quiet, held
    <3>5. CASE ipc \in {"age", "wake", "aged", "wakeup"}
      BY Zenon, <2>3, <3>1, <3>2, <3>3, <3>5, IntLocks DEF IntDepth, Quiet, held
    <3> QED BY Zenon, <2>1, <3>1, <3>4, <3>5 DEF IntTypes
  <2> QED BY Zenon, <2>2, <2>4, <2>5
<1> QED
  BY <1>1, Invariance, PTL
=============================================================================
