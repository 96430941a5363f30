-------------------------- MODULE ProcTableProofs ---------------------------
(***************************************************************************)
(* The process table keeps its inductive invariant, for any number of      *)
(* processes, CPUs, levels and channels and any quantum, aging step and    *)
(* age limit.  What enqueue, dequeue and removefromlevel do to well-formed *)
(* lists comes first, then one lemma per action.                           *)
(***************************************************************************)
EXTENDS ProcTable, WellFoundedInduction, TLAPS

-----------------------------------------------------------------------------
(* The lists of the levels.                                                *)

\* enqueue() keeps the types of the links and the levels.
LEMMA EnqueueType ==
  ASSUME NEW q \in Lists, NEW p \in Procs, NEW l \in Level
  PROVE  enqueue(q, p, l) \in Lists
BY Zenon DEF Lists, enqueue, Links

\* removefromlevel() keeps the types of the links and the levels.
LEMMA RemoveType ==
  ASSUME NEW q \in Lists, NEW p \in Procs, NEW l \in Level
  PROVE  removefromlevel(q, p, l) \in Lists
BY Zenon DEF Lists, removefromlevel, Links

\* dequeue() keeps the types of the links and the levels.
LEMMA DequeueType ==
  ASSUME NEW q \in Lists, NEW l \in Level, q.last[l] # NULL
  PROVE  dequeue(q, l) \in Lists
BY Zenon DEF Lists, dequeue, Links

\* The null pointer is no process.
LEMMA NullNotProc == NULL \notin Procs
BY DEF NULL, Procs

\* enqueue() of a process outside the lists leaves every link matched by
\* the link back, with the new process at the front of its level.
LEMMA EnqueueLinked ==
  ASSUME NEW q \in Lists, NEW S \in SUBSET Procs, NEW lv \in [Procs -> Level],
         NEW p \in Procs \ S, NEW l \in Level, Linked(q, S, lv)
  PROVE  Linked(enqueue(q, p, l), S \cup {p}, [lv EXCEPT ![p] = l])
<1> DEFINE r == enqueue(q, p, l)
           h == q.head[l]
           m == [lv EXCEPT ![p] = l]
<1>1. /\ q.head \in [Level -> Links] /\ q.last \in [Level -> Links]
      /\ q.next \in [Procs -> Links] /\ q.back \in [Procs -> Links]
  BY Zenon DEF Lists
<1>2. \A k \in Level : /\ r.head[k] = IF k = l THEN p ELSE q.head[k]
                       /\ r.last[k] = IF k = l /\ h = NULL THEN p ELSE q.last[k]
  BY Zenon, <1>1 DEF enqueue
<1>3. \A x \in Procs :
        /\ r.next[x] = IF x = p THEN h ELSE q.next[x]
        /\ r.back[x] = IF x = h THEN p ELSE IF x = p THEN NULL ELSE q.back[x]
  BY Zenon, <1>1, NullNotProc DEF enqueue, Links
<1>4. \A x \in Procs : m[x] = IF x = p THEN l ELSE lv[x]
  OBVIOUS
<1>5. h # NULL => h \in S
  BY Zenon DEF Linked
<1> HIDE DEF r, h, m
<1>6. \A x \in Procs \ (S \cup {p}) : r.next[x] = NULL /\ r.back[x] = NULL
  BY <1>1, <1>3, <1>5, NullNotProc DEF Linked
<1>7. ASSUME NEW x \in S \cup {p}
      PROVE  /\ r.next[x] = NULL => r.last[m[x]] = x
             /\ r.back[x] = NULL => r.head[m[x]] = x
             /\ r.next[x] # NULL =>
                  r.next[x] \in S \cup {p} /\ m[r.next[x]] = m[x] /\ r.back[r.next[x]] = x
             /\ r.back[x] # NULL =>
                  r.back[x] \in S \cup {p} /\ m[r.back[x]] = m[x] /\ r.next[r.back[x]] = x
  BY <1>1, <1>2, <1>3, <1>4, <1>5, NullNotProc DEF Linked, h
<1>8. ASSUME NEW k \in Level
      PROVE  /\ r.head[k] = NULL <=> r.last[k] = NULL
             /\ r.head[k] # NULL =>
                  r.head[k] \in S \cup {p} /\ m[r.head[k]] = k /\ r.back[r.head[k]] = NULL
             /\ r.last[k] # NULL =>
                  r.last[k] \in S \cup {p} /\ m[r.last[k]] = k /\ r.next[r.last[k]] = NULL
  BY <1>1, <1>2, <1>3, <1>4, <1>5, NullNotProc DEF Linked, h
<1> QED
  BY Zenon, <1>6, <1>7, <1>8 DEF Linked, r, m

\* enqueue() closes no cycle of next links.
LEMMA EnqueueAcyclic ==
  ASSUME NEW q \in Lists, NEW S \in SUBSET Procs, NEW lv \in [Procs -> Level],
         NEW p \in Procs \ S, NEW l \in Level, WellFormed(q, S, lv)
  PROVE  Acyclic(enqueue(q, p, l), S \cup {p})
<1> DEFINE r == enqueue(q, p, l)
<1>1. \A x \in Procs : r.next[x] = IF x = p THEN q.head[l] ELSE q.next[x]
  BY Zenon DEF enqueue, Lists
<1>2. q.head[l] \in S \cup {NULL} /\ \A x \in S : q.next[x] \in S \cup {NULL}
  BY Zenon DEF WellFormed, Linked
<1> SUFFICES ASSUME NEW T \in SUBSET (S \cup {p}), T # {}
             PROVE  \E x \in T : r.next[x] \notin T
  BY Zenon DEF Acyclic
<1> HIDE DEF r
<1>3. CASE T = {p}
  BY <1>1, <1>2, <1>3, NullNotProc
<1>4. CASE T # {p}
  <2> DEFINE U == T \ {p}
  <2>1. U \in SUBSET S /\ U # {}
    BY Zenon, <1>4
  <2>2. PICK x \in U : q.next[x] \notin U
    BY Zenon, <2>1 DEF WellFormed, Acyclic
  <2> QED
    BY <1>1, <1>2, <2>1, <2>2, NullNotProc
<1> QED
  BY Zenon, <1>3, <1>4

\* enqueue() of a process outside the lists keeps them well-formed.
LEMMA EnqueueWellFormed ==
  ASSUME NEW q \in Lists, NEW S \in SUBSET Procs, NEW lv \in [Procs -> Level],
         NEW p \in Procs \ S, NEW l \in Level, WellFormed(q, S, lv)
  PROVE  WellFormed(enqueue(q, p, l), S \cup {p}, [lv EXCEPT ![p] = l])
BY Zenon, EnqueueLinked, EnqueueAcyclic DEF WellFormed

\* What removefromlevel() makes of every link, by the place of the process
\* in its list: alone, first, last or in the middle.
LEMMA RemoveFields ==
  ASSUME NEW q \in Lists, NEW S \in SUBSET Procs, NEW lv \in [Procs -> Level],
         NEW p \in S, WellFormed(q, S, lv)
  PROVE  LET r == removefromlevel(q, p, lv[p])
             b == q.back[p]
             n == q.next[p]
         IN /\ \A k \in Level :
                 /\ r.head[k] = IF k = lv[p] /\ b = NULL THEN n ELSE q.head[k]
                 /\ r.last[k] = IF k = lv[p] /\ n = NULL THEN b ELSE q.last[k]
            /\ \A x \in Procs :
                 /\ r.next[x] = IF x = p THEN NULL ELSE IF x = b THEN n ELSE q.next[x]
                 /\ r.back[x] = IF x = p THEN NULL ELSE IF x = n THEN b ELSE q.back[x]
            /\ n # NULL => n \in S \ {p}
            /\ b # NULL => b \in S \ {p}
<1> DEFINE b == q.back[p]
           n == q.next[p]
           r == removefromlevel(q, p, lv[p])
<1>1. /\ q.head \in [Level -> Links] /\ q.last \in [Level -> Links]
      /\ q.next \in [Procs -> Links] /\ q.back \in [Procs -> Links]
  BY Zenon DEF Lists
<1>2. n \in Links /\ b \in Links /\ lv[p] \in Level
  BY Zenon, <1>1
<1>3. (n # NULL => n \in S) /\ (b # NULL => b \in S)
  BY Zenon DEF WellFormed, Linked
<1>4. n # p /\ b # p
  <2>1. {p} \in SUBSET S /\ {p} # {}
    OBVIOUS
  <2>2. \E x \in {p} : q.next[x] \notin {p}
    BY Zenon, <2>1 DEF WellFormed, Acyclic
  <2>3. q.next[p] # p
    BY Zenon, <2>2
  <2> QED
    BY <2>3, NullNotProc DEF WellFormed, Linked
<1>5. \A k \in Level :
        /\ r.head[k] = IF k = lv[p] /\ b = NULL THEN n ELSE q.head[k]
        /\ r.last[k] = IF k = lv[p] /\ n = NULL THEN b ELSE q.last[k]
  BY Zenon, <1>1 DEF removefromlevel
<1>6. \A x \in Procs :
        /\ r.next[x] = IF x = p THEN NULL ELSE IF x = b THEN n ELSE q.next[x]
        /\ r.back[x] = IF x = p THEN NULL ELSE IF x = n THEN b ELSE q.back[x]
  BY Zenon, <1>1, <1>2, NullNotProc DEF removefromlevel, Links
<1> QED
  BY Zenon, <1>2, <1>3, <1>4, <1>5, <1>6

\* removefromlevel() joins the neighbours of the process it takes out.
LEMMA RemoveLinked ==
  ASSUME NEW q \in Lists, NEW S \in SUBSET Procs, NEW lv \in [Procs -> Level],
         NEW p \in S, WellFormed(q, S, lv)
  PROVE  Linked(removefromlevel(q, p, lv[p]), S \ {p}, lv)
<1> DEFINE r == removefromlevel(q, p, lv[p])
           b == q.back[p]
           n == q.next[p]
<1>1. /\ q.head \in [Level -> Links] /\ q.last \in [Level -> Links]
      /\ q.next \in [Procs -> Links] /\ q.back \in [Procs -> Links]
  BY Zenon DEF Lists
<1>2. /\ \A k \in Level :
           /\ r.head[k] = IF k = lv[p] /\ b = NULL THEN n ELSE q.head[k]
           /\ r.last[k] = IF k = lv[p] /\ n = NULL THEN b ELSE q.last[k]
      /\ \A x \in Procs :
           /\ r.next[x] = IF x = p THEN NULL ELSE IF x = b THEN n ELSE q.next[x]
           /\ r.back[x] = IF x = p THEN NULL ELSE IF x = n THEN b ELSE q.back[x]
      /\ n # NULL => n \in S \ {p}
      /\ b # NULL => b \in S \ {p}
  BY Zenon, RemoveFields
<1> HIDE DEF r
<1>3. \A x \in Procs \ (S \ {p}) : r.next[x] = NULL /\ r.back[x] = NULL
  BY <1>1, <1>2, NullNotProc DEF WellFormed, Linked
<1>4. ASSUME NEW x \in S \ {p}
      PROVE  /\ r.next[x] = NULL => r.last[lv[x]] = x
             /\ r.back[x] = NULL => r.head[lv[x]] = x
             /\ r.next[x] # NULL =>
                  r.next[x] \in S \ {p} /\ lv[r.next[x]] = lv[x] /\ r.back[r.next[x]] = x
             /\ r.back[x] # NULL =>
                  r.back[x] \in S \ {p} /\ lv[r.back[x]] = lv[x] /\ r.next[r.back[x]] = x
  BY <1>1, <1>2, NullNotProc DEF WellFormed, Linked
<1>5. ASSUME NEW k \in Level
      PROVE  /\ r.head[k] = NULL <=> r.last[k] = NULL
             /\ r.head[k] # NULL =>
                  r.head[k] \in S \ {p} /\ lv[r.head[k]] = k /\ r.back[r.head[k]] = NULL
             /\ r.last[k] # NULL =>
                  r.last[k] \in S \ {p} /\ lv[r.last[k]] = k /\ r.next[r.last[k]] = NULL
  BY <1>1, <1>2, NullNotProc DEF WellFormed, Linked
<1> QED
  BY Zenon, <1>3, <1>4, <1>5 DEF WellFormed, Linked, r

\* removefromlevel() closes no cycle of next links.
LEMMA RemoveAcyclic ==
  ASSUME NEW q \in Lists, NEW S \in SUBSET Procs, NEW lv \in [Procs -> Level],
         NEW p \in S, WellFormed(q, S, lv)
  PROVE  Acyclic(removefromlevel(q, p, lv[p]), S \ {p})
<1> DEFINE r == removefromlevel(q, p, lv[p])
           b == q.back[p]
           n == q.next[p]
<1>1. /\ \A x \in Procs :
           r.next[x] = IF x = p THEN NULL ELSE IF x = b THEN n ELSE q.next[x]
      /\ b # NULL => b \in S \ {p}
  BY RemoveFields
<1>2. b # NULL => q.next[b] = p
  BY Zenon DEF WellFormed, Linked
<1> SUFFICES ASSUME NEW T \in SUBSET (S \ {p}), T # {}
             PROVE  \E x \in T : r.next[x] \notin T
  BY Zenon DEF Acyclic
<1> HIDE DEF r
<1>3. CASE b \notin T
  <2>1. PICK x \in T : q.next[x] \notin T
    BY Zenon DEF WellFormed, Acyclic
  <2> QED
    BY Zenon, <1>1, <1>3, <2>1
<1>4. CASE b \in T
  <2> DEFINE U == T \cup {p}
  <2>1. U \in SUBSET S /\ U # {}
    OBVIOUS
  <2>2. PICK x \in U : q.next[x] \notin U
    BY Zenon, <2>1 DEF WellFormed, Acyclic
  <2>3. CASE x = p
    BY Zenon, <1>1, <1>4, <2>2, <2>3
  <2>4. CASE x # p
    BY Zenon, <1>1, <1>2, <1>4, <2>2, <2>4, NullNotProc
  <2> QED
    BY Zenon, <2>3, <2>4
<1> QED
  BY Zenon, <1>3, <1>4

\* removefromlevel() of a queued process keeps the lists well-formed.
LEMMA RemoveWellFormed ==
  ASSUME NEW q \in Lists, NEW S \in SUBSET Procs, NEW lv \in [Procs -> Level],
         NEW p \in S, WellFormed(q, S, lv)
  PROVE  WellFormed(removefromlevel(q, p, lv[p]), S \ {p}, lv)
BY Zenon, RemoveLinked, RemoveAcyclic DEF WellFormed

\* dequeue(l) is the removal of the last process of the level.
LEMMA DequeueWellFormed ==
  ASSUME NEW q \in Lists, NEW S \in SUBSET Procs, NEW lv \in [Procs -> Level],
         NEW l \in Level, ~isempty(q, l), WellFormed(q, S, lv)
  PROVE  /\ q.last[l] \in S
         /\ lv[q.last[l]] = l
         /\ WellFormed(dequeue(q, l), S \ {q.last[l]}, lv)
<1>1. q.last[l] \in S /\ lv[q.last[l]] = l /\ q.next[q.last[l]] = NULL
  BY Zenon DEF WellFormed, Linked, isempty
<1>2. dequeue(q, l) = removefromlevel(q, q.last[l], l)
  BY Zenon, <1>1 DEF dequeue, removefromlevel
<1> QED
  BY Zenon, <1>1, <1>2, RemoveWellFormed

\* The levels of processes that are not queued do not matter.
LEMMA WellFormedFrame ==
  ASSUME NEW q \in Lists, NEW S \in SUBSET Procs, NEW lv \in [Procs -> Level],
         NEW m \in [Procs -> Level], \A p \in S : m[p] = lv[p],
         WellFormed(q, S, lv)
  PROVE  WellFormed(q, S, m)
BY DEF WellFormed, Linked, Lists

\* In well-formed lists a level that reads as empty has no process queued:
\* the links lose nobody.
LEMMA NothingLost ==
  ASSUME NEW q \in Lists, NEW S \in SUBSET Procs, NEW lv \in [Procs -> Level],
         NEW p \in S, WellFormed(q, S, lv)
  PROVE  ~isempty(q, lv[p])
<1> DEFINE T == {x \in S : lv[x] = lv[p]}
<1>1. T \in SUBSET S /\ T # {}
  OBVIOUS
<1>2. PICK x \in T : q.next[x] \notin T
  BY Zenon, <1>1 DEF WellFormed, Acyclic
<1>3. q.next[x] = NULL
  BY Zenon, <1>2 DEF WellFormed, Linked
<1>4. q.last[lv[p]] = x
  BY Zenon, <1>3 DEF WellFormed, Linked
<1> QED
  BY <1>4, NullNotProc DEF WellFormed, Linked, isempty

-----------------------------------------------------------------------------
(* The process table.                                                      *)

\* The least element of a nonempty set of naturals is in it (the first slot
\* of a scan of ptable).
LEMMA MinIn ==
  ASSUME NEW S \in SUBSET Nat, S # {}
  PROVE  Min(S) \in S
<1> DEFINE R == {ss \in Nat \X Nat : ss[1] < ss[2]}
<1>1. IsWellFoundedOn(R, Nat)
  BY Zenon, NatLessThanWellFounded DEF OpToRel
<1>2. PICK x \in S : \A y \in S : ~(<<y, x>> \in R)
  <2> HIDE DEF R
  <2> QED BY Zenon, <1>1, WFMin
<1>3. \A y \in S : x =< y
  <2> SUFFICES ASSUME NEW y \in S PROVE x =< y
    OBVIOUS
  <2>1. ~(<<y, x>> \in R)
    BY Zenon, <1>2
  <2>2. ~(y < x)
    BY Zenon, <2>1
  <2> QED BY <2>2
<1> QED
  BY Zenon, <1>3 DEF Min

\* CPU 0, which counts the ticks, is a CPU, and NOCPU is none.
LEMMA CpuFacts == NOCPU \notin CPUs /\ 0 \in CPUs
BY TimesAssumption DEF NOCPU, CPUs

\* A step that starts no fork() and leaves the EMBRYO children alone keeps
\* what fork() relies on.
LEMMA ForkKept ==
  ASSUME IInv,
         \A r \in Procs : kpc'[r] = "fork" => kpc[r] = "fork" /\ np'[r] = np[r],
         \A r \in Procs, q \in Procs :
           kpc'[r] = "fork" /\ np[r] = q /\ state[q] = "EMBRYO" => state'[q] = "EMBRYO"
  PROVE  ForkInv'
<1> SUFFICES ASSUME NEW r \in Procs, kpc'[r] = "fork"
             PROVE  /\ np'[r] # NULL
                    /\ state'[np'[r]] = "EMBRYO"
                    /\ \A q \in Procs \ {r} : kpc'[q] = "fork" => np'[q] # np'[r]
  BY Zenon DEF ForkInv
<1>1. kpc[r] = "fork" /\ np'[r] = np[r]
  OBVIOUS
<1>2. np[r] # NULL /\ state[np[r]] = "EMBRYO"
  BY Zenon, <1>1 DEF IInv, ForkInv
<1>3. np[r] \in Procs
  BY <1>2 DEF IInv, TypeOK, Links
<1>4. \A q \in Procs \ {r} : kpc'[q] = "fork" => np'[q] # np'[r]
  BY <1>1 DEF IInv, ForkInv
<1> QED
  BY Zenon, <1>1, <1>2, <1>3, <1>4

\* A step that moves no process on or off a CPU keeps who runs where.
LEMMA CpuKept ==
  ASSUME IInv, cproc' = cproc,
         \A q \in Procs : state'[q] = "RUNNING" <=> state[q] = "RUNNING"
  PROVE  CpuInv'
BY Zenon DEF IInv, CpuInv

\* sched(): a process that is no longer RUNNING leaves its CPU.
LEMMA CpuLeft ==
  ASSUME IInv, NEW c \in CPUs, NEW p \in Procs,
         cproc[c] = p, cproc' = [cproc EXCEPT ![c] = NULL],
         state'[p] # "RUNNING", \A q \in Procs \ {p} : state'[q] = state[q]
  PROVE  CpuInv'
<1>1. cproc'[c] = NULL /\ \A d \in CPUs \ {c} : cproc'[d] = cproc[d]
  BY Zenon DEF IInv, TypeOK
<1>2. ASSUME NEW q \in Procs
      PROVE  state'[q] = "RUNNING" <=> \E d \in CPUs : cproc'[d] = q
  <2>1. CASE q = p
    BY <1>1, <2>1, NullNotProc DEF IInv, CpuInv
  <2>2. CASE q # p
    BY <1>1, <2>2, NullNotProc DEF IInv, CpuInv
  <2> QED
    BY Zenon, <2>1, <2>2
<1>3. \A d, e \in CPUs : cproc'[d] = cproc'[e] /\ cproc'[d] # NULL => d = e
  BY <1>1 DEF IInv, CpuInv
<1> QED
  BY Zenon, <1>2, <1>3 DEF CpuInv

\* trap(): system call entry and return, exceptions.
LEMMA TrapStep ==
  ASSUME IInv, NEW c \in CPUs, sysenter(c) \/ sysexit(c) \/ userfault(c)
  PROVE  IInv'
<1>1. TypeOK'
  <2>1. PICK p \in Procs : \E l \in KernelPc : kpc' = [kpc EXCEPT ![p] = l]
    BY Zenon DEF sysenter, sysexit, userfault, Kgoto, KernelPc
  <2>2. kpc' \in [Procs -> KernelPc]
    BY Zenon, <2>1 DEF IInv, TypeOK
  <2>3. killed' \in [Procs -> BOOLEAN] /\ pid' = pid
    BY Zenon DEF IInv, TypeOK, sysenter, sysexit, userfault, fields
  <2>4. UNCHANGED <<state, nice, age, ticks_count, chan, parent, np, levels, cproc, pc, lock,
                   wchan, cursor, aging_ticks>>
    BY Zenon DEF sysenter, sysexit, userfault, fields, timer
  <2> QED
    BY Zenon, <2>2, <2>3, <2>4 DEF IInv, TypeOK
<1>2. QueueInv'
  BY Zenon DEF IInv, QueueInv, Runnable, sysenter, sysexit, userfault
<1>3. LockInv' /\ CallerInv' /\ CursorInv' /\ AgingInv' /\ CpuInv'
  BY DEF IInv, LockInv, CallerInv, CursorInv, AgingInv, CpuInv,
         sysenter, sysexit, userfault, fields, timer
<1>4. ForkInv'
  BY DEF IInv, TypeOK, ForkInv, sysenter, sysexit, userfault, fields, Runs, Kgoto
<1> QED
  BY Zenon, <1>1, <1>2, <1>3, <1>4 DEF IInv

\* wakeup() and wakeup(&ticks) up to the loop; the beginning of exit().
LEMMA EnterStep ==
  ASSUME IInv, NEW c \in CPUs,
         \/ \E ch \in Chans : wakeup(c, ch)
         \/ tickwake(c)
         \/ exit(c)
  PROVE  IInv'
<1>1. UNCHANGED <<state, nice, age, ticks_count, chan, parent, killed, pid, kpc, np, levels,
                 cproc, cursor, aging_ticks>>
  BY Zenon DEF wakeup, tickwake, exit, fields, timer
<1>2. \/ /\ lock = NOCPU /\ lock' = c /\ pc[c] \in {"run", "tick"}
         /\ \E l \in {"wakeup", "tickwake", "exitparent"} :
              /\ pc' = [pc EXCEPT ![c] = l]
              /\ l = "exitparent" => cproc[c] # NULL
         /\ wchan' \in Chans \cup Links
      \/ /\ UNCHANGED <<lock, wchan>>
         /\ pc[c] = "run" /\ pc' = [pc EXCEPT ![c] = "panic"]
  BY TimesAssumption DEF IInv, TypeOK, wakeup, tickwake, exit, Awaiter, Goto, Runs
<1>3. /\ \A d \in CPUs \ {c} : pc'[d] = pc[d]
      /\ pc[c] \in {"run", "tick"}
      /\ pc'[c] \in {"wakeup", "tickwake", "exitparent", "panic"}
      /\ pc'[c] = "exitparent" => cproc[c] # NULL
      /\ lock' = IF pc'[c] = "panic" THEN lock ELSE c
      /\ lock = NOCPU \/ pc'[c] = "panic"
  BY Zenon, <1>2 DEF IInv, TypeOK
<1>4. TypeOK'
  <2>1. pc' \in [CPUs -> CpuPc]
    BY Zenon, <1>2 DEF IInv, TypeOK, CpuPc, LockPc, WakePc
  <2>2. lock' \in CPUs \cup {NOCPU} /\ wchan' \in Chans \cup Links
    BY Zenon, <1>2 DEF IInv, TypeOK
  <2> QED
    BY Zenon, <1>1, <2>1, <2>2 DEF IInv, TypeOK
<1>5. QueueInv' /\ ForkInv' /\ CpuInv'
  BY Zenon, <1>1, ForkKept, CpuKept DEF IInv, QueueInv, Runnable
<1>6. LockInv'
  <2>1. pc[c] \notin LockPc /\ lock # c
    BY Zenon, <1>3 DEF IInv, LockInv, LockPc, WakePc
  <2>2. pc'[c] \in LockPc <=> pc'[c] # "panic"
    BY Zenon, <1>3 DEF LockPc, WakePc
  <2> QED
    BY Zenon, <1>3, <2>1, <2>2, CpuFacts DEF IInv, LockInv
<1>7. CallerInv'
  BY Zenon, <1>1, <1>3 DEF IInv, CallerInv
<1>8. CursorInv'
  BY Zenon, <1>1, <1>3 DEF IInv, CursorInv
<1>9. AgingInv'
  BY Zenon, <1>1, <1>3, CpuFacts DEF IInv, AgingInv
<1> QED
  BY Zenon, <1>4, <1>5, <1>6, <1>7, <1>8, <1>9 DEF IInv

\* The timer interrupt and the beginning of aging().
LEMMA TickStep ==
  ASSUME IInv, NEW c \in CPUs, tick(c) \/ agingbegin(c)
  PROVE  IInv'
<1>1. TypeOK'
  <2>1. CASE tick(c)
    BY <2>1, CpuFacts, TimesAssumption
       DEF IInv, TypeOK, AgingInv, tick, Goto, fields, CpuPc
  <2>2. CASE agingbegin(c)
    <3>1. (IF 1 \in Level THEN levels.head[1] ELSE NULL) \in Links
      BY Zenon DEF IInv, TypeOK, Lists, Links
    <3>2. cursor' \in [i : 1 .. PLEVELS, p : Links]
      BY <2>2, <3>1, SizesAssumption DEF agingbegin
    <3> QED
      BY Zenon, <2>2, <3>2 DEF IInv, TypeOK, agingbegin, Goto, fields, CpuPc, LockPc
  <2> QED
    BY Zenon, <2>1, <2>2
<1>2. QueueInv' /\ ForkInv' /\ CpuInv'
  BY DEF IInv, QueueInv, ForkInv, CpuInv, Runnable, tick, agingbegin, fields
<1>3. LockInv'
  BY CpuFacts DEF IInv, TypeOK, LockInv, tick, agingbegin, Goto, LockPc, WakePc
<1>4. CallerInv'
  BY Zenon DEF IInv, TypeOK, CallerInv, tick, agingbegin, Goto
<1>5. CursorInv'
  <2>1. CASE tick(c)
    BY Zenon, <2>1, CpuFacts DEF IInv, TypeOK, CursorInv, tick, Goto
  <2>2. CASE agingbegin(c)
    <3>1. pc' = [pc EXCEPT ![c] = "aging"] /\ UNCHANGED <<state, nice, levels>>
          /\ cursor' = [i |-> 1, p |-> IF 1 \in Level THEN levels.head[1] ELSE NULL]
      BY Zenon, <2>2 DEF agingbegin, Goto
    <3>2. pc'[c] = "aging"
      BY Zenon, <3>1 DEF IInv, TypeOK
    <3>3. cursor'.i = 1 /\ cursor'.p = IF 1 \in Level THEN levels.head[1] ELSE NULL
      BY Zenon, <3>1
    <3>4. 1 \in Level /\ levels.head[1] # NULL =>
            levels.head[1] \in Runnable /\ nice[levels.head[1]] = 1
      BY Zenon DEF IInv, QueueInv, WellFormed, Linked
    <3> QED
      BY Zenon, <3>1, <3>2, <3>3, <3>4 DEF CursorInv, Runnable
  <2> QED
    BY Zenon, <2>1, <2>2
<1>6. AgingInv'
  BY CpuFacts, TimesAssumption DEF IInv, TypeOK, AgingInv, tick, agingbegin, Goto
<1> QED
  BY Zenon, <1>1, <1>2, <1>3, <1>4, <1>5, <1>6 DEF IInv

\* The loop and the end of exit().
LEMMA ExitStep ==
  ASSUME IInv, NEW c \in CPUs, reparent(c) \/ zombie(c)
  PROVE  IInv'
<1>1. TypeOK'
  <2>1. initproc \in Procs
    BY SizesAssumption DEF initproc, Procs
  <2>2. CASE reparent(c)
    <3>1. parent' \in [Procs -> Links]
      BY Zenon, <2>1, <2>2 DEF IInv, TypeOK, reparent, PassToInit, Links
    <3> QED
      BY Zenon, <2>1, <2>2, <3>1 DEF IInv, TypeOK, reparent, Goto, timer, CpuPc, LockPc, WakePc, Links
  <2>3. CASE zombie(c)
    BY Zenon, <2>3 DEF IInv, TypeOK, zombie, Goto, fields, timer, CpuPc, ProcState, Links
  <2> QED
    BY Zenon, <2>2, <2>3
<1>2. /\ lock = c /\ pc[c] \in {"reparent", "zombie"}
      /\ cproc[c] \in Procs /\ state[cproc[c]] = "RUNNING"
  <2>1. pc[c] \in {"reparent", "zombie"}
    BY Zenon DEF reparent, zombie
  <2>2. lock = c
    BY Zenon, <2>1 DEF IInv, LockInv, LockPc
  <2>3. cproc[c] \in Procs
    BY Zenon, <2>1 DEF IInv, TypeOK, CallerInv, Links
  <2> QED
    BY Zenon, <2>1, <2>2, <2>3 DEF IInv, CpuInv
<1>3. /\ UNCHANGED <<nice, chan, kpc, np, levels, cursor, aging_ticks>>
      /\ \A d \in CPUs \ {c} : pc'[d] = pc[d]
  BY Zenon DEF IInv, TypeOK, reparent, zombie, Goto, fields, timer
<1>4. \/ /\ UNCHANGED <<state, cproc>>
         /\ lock' = c /\ pc'[c] \in {"exitinit", "zombie"}
      \/ /\ state'[cproc[c]] = "ZOMBIE"
         /\ \A q \in Procs \ {cproc[c]} : state'[q] = state[q]
         /\ cproc' = [cproc EXCEPT ![c] = NULL]
         /\ lock' = NOCPU /\ pc'[c] = "run"
  BY <1>2 DEF IInv, TypeOK, reparent, zombie, Goto
<1>5. QueueInv'
  <2>1. Runnable' = Runnable
    BY Zenon, <1>2, <1>4 DEF Runnable
  <2> QED
    BY Zenon, <1>3, <2>1 DEF IInv, QueueInv
<1>6. ForkInv'
  BY Zenon, <1>2, <1>3, <1>4, ForkKept
<1>7. LockInv'
  <2>1. \A d \in CPUs \ {c} : pc[d] \notin LockPc
    BY Zenon, <1>2 DEF IInv, LockInv
  <2>2. {"exitinit", "zombie"} \subseteq LockPc /\ "run" \notin LockPc
    BY Zenon DEF LockPc, WakePc
  <2> QED
    BY <1>3, <1>4, <2>1, <2>2, CpuFacts DEF LockInv
<1>8. CallerInv'
  <2>1. \A d \in CPUs \ {c} : cproc'[d] = cproc[d]
    BY Zenon, <1>4 DEF IInv, TypeOK
  <2>2. pc'[c] # "run" => cproc'[c] # NULL
    BY Zenon, <1>2, <1>4, NullNotProc
  <2> QED
    BY Zenon, <1>3, <2>1, <2>2 DEF IInv, CallerInv
<1>9. AgingInv'
  BY Zenon, <1>2, <1>3, <1>4, CpuFacts DEF IInv, AgingInv
<1>10. CursorInv'
  <2>1. ~\E d \in CPUs : pc[d] = "aging"
    BY Zenon, <1>2 DEF IInv, LockInv, LockPc
  <2> QED
    BY Zenon, <1>3, <2>1 DEF IInv, CursorInv
<1>11. CpuInv'
  BY Zenon, <1>2, <1>4, CpuKept, CpuLeft
<1> QED
  BY Zenon, <1>1, <1>5, <1>6, <1>7, <1>8, <1>9, <1>10, <1>11 DEF IInv

-----------------------------------------------------------------------------
(* Actions that change the levels, or the state or nice of a process.      *)

\* makerunnable() of a process that is not queued keeps the queues intact.
LEMMA MakeRunnableQueue ==
  ASSUME TypeOK, QueueInv, NEW p \in Procs, state[p] # "RUNNABLE", NEW l \in Level,
         MakeRunnable(p, l)
  PROVE  /\ state' \in [Procs -> ProcState]
         /\ nice' \in [Procs -> Level]
         /\ levels' \in Lists
         /\ QueueInv'
<1>1. state' \in [Procs -> ProcState] /\ nice' \in [Procs -> Level]
  BY Zenon DEF TypeOK, MakeRunnable, ProcState
<1>2. levels' \in Lists
  BY Zenon, EnqueueType DEF TypeOK, MakeRunnable
<1>3. Runnable' = Runnable \cup {p} /\ p \in Procs \ Runnable /\ Runnable \in SUBSET Procs
  BY DEF TypeOK, MakeRunnable, Runnable
<1>4. WellFormed(enqueue(levels, p, l), Runnable \cup {p}, [nice EXCEPT ![p] = l])
  BY Zenon, <1>3, EnqueueWellFormed DEF TypeOK, QueueInv
<1> QED
  BY Zenon, <1>1, <1>2, <1>3, <1>4 DEF MakeRunnable, QueueInv

\* A step that leaves the lists, and the states and levels of the queued
\* processes, keeps the queues intact.
LEMMA SameQueue ==
  ASSUME TypeOK, QueueInv, levels' = levels, Runnable' = Runnable,
         nice' \in [Procs -> Level], \A p \in Runnable : nice'[p] = nice[p]
  PROVE  QueueInv'
<1>1. Runnable \in SUBSET Procs
  BY Zenon DEF Runnable
<1>2. WellFormed(levels, Runnable, nice')
  BY Zenon, <1>1, WellFormedFrame DEF TypeOK, QueueInv
<1> QED
  BY Zenon, <1>2 DEF QueueInv

\* While the lock is free nobody is in aging().
LEMMA NobodyAges ==
  ASSUME IInv, NEW c \in CPUs, lock = NOCPU \/ (pc[c] \in LockPc /\ pc[c] # "aging")
  PROVE  cursor.p = NULL
BY Zenon, CpuFacts DEF IInv, LockInv, CursorInv, LockPc

\* The levels that yield() and aging() compute are levels.
LEMMA PriorityType ==
  ASSUME NEW n \in Level
  PROVE  increasepriority(n) \in Level /\ decreasepriority(n) \in Level
BY SizesAssumption DEF Level, increasepriority, decreasepriority

\* scheduler(): the process taken from the levels is the one that runs.
LEMMA SchedulerStep ==
  ASSUME IInv, NEW c \in CPUs, scheduler(c)
  PROVE  IInv'
<1> DEFINE l == Pick
           p == levels.last[l]
<1>1. l \in Level /\ ~isempty(levels, l)
  <2>1. NonEmpty \in SUBSET Nat /\ NonEmpty # {}
    BY DEF NonEmpty, Level, scheduler
  <2>2. l \in NonEmpty
    BY Zenon, <2>1, MinIn DEF Pick
  <2> QED
    BY Zenon, <2>2 DEF NonEmpty
<1>2. /\ pc[c] = "run" /\ cproc[c] = NULL /\ lock = NOCPU
      /\ levels' = dequeue(levels, l)
      /\ cproc' = [cproc EXCEPT ![c] = p]
      /\ state' = [state EXCEPT ![p] = "RUNNING"]
      /\ chan' = [chan EXCEPT ![p] = NULL]
      /\ \/ lock' = c /\ Goto(c, "wait")
         \/ UNCHANGED <<lock, pc>>
      /\ \/ kpc[p] = "trap" /\ (Kgoto(p, "exit") \/ Kgoto(p, "user"))
         \/ UNCHANGED kpc
      /\ UNCHANGED <<age, ticks_count, parent, killed, pid, np, nice, wchan, cursor, aging_ticks>>
  BY Zenon DEF scheduler, fields, timer
<1>3. Runnable \in SUBSET Procs
  BY Zenon DEF Runnable
<1>4. p \in Runnable /\ WellFormed(levels', Runnable \ {p}, nice)
  BY ZenonT(30), <1>1, <1>2, <1>3, DequeueWellFormed DEF IInv, TypeOK, QueueInv
<1>5. p \in Procs /\ p # NULL /\ state[p] = "RUNNABLE"
  BY Zenon, <1>4, NullNotProc DEF Runnable
<1>6. levels' \in Lists
  BY Zenon, <1>1, <1>2, <1>5, DequeueType DEF IInv, TypeOK
<1> HIDE DEF l, p
<1>13. /\ \A d \in CPUs \ {c} : pc'[d] = pc[d]
       /\ \/ lock' = c /\ pc'[c] = "wait"
          \/ lock' = lock /\ pc'[c] = "run"
  BY Zenon, <1>2 DEF IInv, TypeOK, Goto
<1>14. /\ \A d \in CPUs \ {c} : cproc'[d] = cproc[d]
       /\ cproc'[c] = p
  BY Zenon, <1>2 DEF IInv, TypeOK
<1>7. TypeOK'
  <2>1. state' \in [Procs -> ProcState] /\ kpc' \in [Procs -> KernelPc]
    BY ZenonT(30), <1>2 DEF IInv, TypeOK, ProcState, Kgoto, KernelPc
  <2>2. chan' \in [Procs -> Chans \cup Links] /\ cproc' \in [CPUs -> Links]
    BY Zenon, <1>2, <1>5 DEF IInv, TypeOK, Links
  <2>3. pc' \in [CPUs -> CpuPc] /\ lock' \in CPUs \cup {NOCPU}
    BY Zenon, <1>2 DEF IInv, TypeOK, Goto, CpuPc, LockPc
  <2> QED
    BY Zenon, <1>2, <1>6, <2>1, <2>2, <2>3 DEF IInv, TypeOK
<1>8. QueueInv'
  <2>1. Runnable' = Runnable \ {p}
    BY Zenon, <1>2, <1>5 DEF IInv, TypeOK, Runnable
  <2> QED
    BY Zenon, <1>2, <1>4, <2>1 DEF QueueInv
<1>9. CursorInv'
  BY Zenon, <1>2, NobodyAges DEF CursorInv
<1>10. LockInv' /\ CallerInv' /\ AgingInv'
  <2>1. LockInv'
    <3>1. "wait" \in LockPc /\ "run" \notin LockPc
      BY Zenon DEF LockPc, WakePc
    <3> QED
      BY <1>2, <1>13, <3>1, CpuFacts DEF IInv, LockInv
  <2>2. CallerInv'
    BY Zenon, <1>5, <1>13, <1>14 DEF IInv, CallerInv
  <2>3. AgingInv'
    BY Zenon, <1>2, <1>13, CpuFacts DEF IInv, AgingInv
  <2> QED
    BY Zenon, <2>1, <2>2, <2>3
<1>11. ForkInv'
  <2>1. \A r \in Procs : kpc'[r] = "fork" => kpc[r] = "fork"
    BY Zenon, <1>2 DEF IInv, TypeOK, Kgoto
  <2>2. \A q \in Procs \ {p} : state'[q] = state[q]
    BY Zenon, <1>2 DEF IInv, TypeOK
  <2> QED
    BY Zenon, <1>2, <1>5, <2>1, <2>2, ForkKept
<1>12. CpuInv'
  <2>1. \A d \in CPUs : cproc[d] # p
    BY Zenon, <1>5 DEF IInv, CpuInv
  <2>2. \A d \in CPUs : cproc'[d] = IF d = c THEN p ELSE cproc[d]
    BY Zenon, <1>2 DEF IInv, TypeOK
  <2>3. \A x \in Procs : state'[x] = IF x = p THEN "RUNNING" ELSE state[x]
    BY Zenon, <1>2 DEF IInv, TypeOK
  <2>4. ASSUME NEW x \in Procs
        PROVE  state'[x] = "RUNNING" <=> \E d \in CPUs : cproc'[d] = x
    <3>1. CASE x = p
      BY Zenon, <2>2, <2>3, <3>1
    <3>2. CASE x # p
      <4>1. state[x] = "RUNNING" <=> \E d \in CPUs : cproc[d] = x
        BY Zenon DEF IInv, CpuInv
      <4>2. \A d \in CPUs : cproc'[d] = x <=> cproc[d] = x
        BY Zenon, <1>2, <2>2, <3>2, NullNotProc
      <4> QED
        BY Zenon, <2>3, <3>2, <4>1, <4>2
    <3> QED
      BY Zenon, <3>1, <3>2
  <2>5. \A d, e \in CPUs : cproc'[d] = cproc'[e] /\ cproc'[d] # NULL => d = e
    BY Zenon, <2>1, <2>2 DEF IInv, CpuInv
  <2> QED
    BY Zenon, <2>4, <2>5 DEF CpuInv
<1> QED
  BY Zenon, <1>7, <1>8, <1>9, <1>10, <1>11, <1>12 DEF IInv

\* sleep() and sched().
LEMMA SleepStep ==
  ASSUME IInv, NEW c \in CPUs, NEW ch \in Chans, sleep(c, ch)
  PROVE  IInv'
<1>1. PICK p \in Procs : /\ Runs(c, p, {"kern", "exit"})
                         /\ Free
                         /\ GoToSleep(c, p, ch)
                         /\ UNCHANGED <<fields, nice, kpc, levels, pc, wchan, timer>>
  BY Zenon DEF sleep
<1>2. state[p] = "RUNNING"
  BY Zenon, <1>1 DEF IInv, CpuInv, Runs
<1>10. state'[p] = "SLEEPING" /\ \A q \in Procs \ {p} : state'[q] = state[q]
  BY Zenon, <1>1 DEF IInv, TypeOK, GoToSleep
<1>3. TypeOK'
  BY Zenon, <1>1 DEF IInv, TypeOK, GoToSleep, Free, fields, timer, ProcState, Links
<1>4. Runnable' = Runnable
  BY Zenon, <1>1, <1>2 DEF IInv, TypeOK, Runnable, GoToSleep
<1>5. QueueInv'
  BY Zenon, <1>1, <1>4 DEF IInv, QueueInv
<1>6. CursorInv'
  BY Zenon, <1>1, NobodyAges DEF CursorInv, timer, Free
<1>7. LockInv' /\ CallerInv' /\ AgingInv'
  BY Zenon, <1>1 DEF IInv, TypeOK, LockInv, CallerInv, AgingInv, Free, GoToSleep, timer, Runs
<1>8. ForkInv'
  BY Zenon, <1>1, <1>2, <1>10, ForkKept DEF fields
<1>9. CpuInv'
  BY Zenon, <1>1, <1>10, CpuLeft DEF GoToSleep, Runs
<1> QED
  BY Zenon, <1>3, <1>5, <1>6, <1>7, <1>8, <1>9 DEF IInv

\* wakeup1(): every sleeper on the channel is queued.
LEMMA WakeupStep ==
  ASSUME IInv, NEW c \in CPUs, wakeup1(c)
  PROVE  IInv'
<1>1. CASE Sleepers # {}
  <2> DEFINE p == Min(Sleepers)
  <2>1. p \in Procs /\ state[p] = "SLEEPING"
    <3>1. Sleepers \in SUBSET Nat
      BY DEF Sleepers, Procs
    <3>2. p \in Sleepers
      BY Zenon, <1>1, <3>1, MinIn
    <3> QED
      BY Zenon, <3>2 DEF Sleepers
  <2> DEFINE l == increasepriority(nice[p])
  <2>2. /\ pc[c] \in WakePc
        /\ MakeRunnable(p, l)
        /\ UNCHANGED <<age, ticks_count, parent, killed, pid, np, chan, kpc, cproc, cursor,
                       aging_ticks, lock, pc, wchan>>
    BY Zenon, <1>1 DEF wakeup1, fields, timer
  <2>3. l \in Level
    BY Zenon, <2>1, PriorityType DEF IInv, TypeOK
  <2> HIDE DEF p, l
  <2>4. /\ state' \in [Procs -> ProcState] /\ nice' \in [Procs -> Level]
        /\ levels' \in Lists /\ QueueInv'
    BY Zenon, <2>1, <2>2, <2>3, MakeRunnableQueue DEF IInv
  <2>5. TypeOK'
    BY Zenon, <2>2, <2>4 DEF IInv, TypeOK
  <2>6. CursorInv'
    BY Zenon, <2>2, NobodyAges DEF CursorInv, LockPc, WakePc
  <2>7. LockInv' /\ CallerInv' /\ AgingInv'
    BY Zenon, <2>2 DEF IInv, LockInv, CallerInv, AgingInv
  <2>8. ForkInv' /\ CpuInv'
    <3>1. state'[p] = "RUNNABLE" /\ \A q \in Procs \ {p} : state'[q] = state[q]
      BY Zenon, <2>1, <2>2 DEF IInv, TypeOK, MakeRunnable
    <3>2. ForkInv'
      BY Zenon, <2>1, <2>2, <3>1, ForkKept
    <3>3. CpuInv'
      BY Zenon, <2>1, <2>2, <3>1, CpuKept
    <3> QED
      BY Zenon, <3>2, <3>3
  <2> QED
    BY Zenon, <2>4, <2>5, <2>6, <2>7, <2>8 DEF IInv
<1>2. CASE Sleepers = {}
  <2>1. /\ pc[c] \in WakePc
        /\ Goto(c, AfterWake[pc[c]])
        /\ lock' = IF pc[c] \in {"wakeup", "tickwake"} THEN NOCPU ELSE lock
        /\ kpc' = IF pc[c] = "wakeup" THEN InterruptReturn(c) ELSE kpc
        /\ wchan' = NULL
        /\ UNCHANGED <<state, nice, levels, age, ticks_count, parent, killed, pid, np, chan,
                       cproc, cursor, aging_ticks>>
    BY Zenon, <1>2 DEF wakeup1, fields, timer
  <2>0. /\ kpc' \in [Procs -> KernelPc]
        /\ \A r \in Procs : kpc'[r] = "fork" => kpc[r] = "fork"
    BY Zenon, <2>1 DEF IInv, TypeOK, InterruptReturn, KernelPc, Links
  <2>2. TypeOK'
    <3>1. pc' \in [CPUs -> CpuPc]
      <4>1. AfterWake[pc[c]] \in CpuPc
        <5>1. /\ AfterWake["wakeup"] = "run" /\ AfterWake["tickwake"] = "quantum"
              /\ AfterWake["exitparent"] = "reparent" /\ AfterWake["exitinit"] = "zombie"
          BY Zenon DEF AfterWake
        <5>2. {"run", "quantum", "reparent", "zombie"} \subseteq CpuPc
          BY Zenon DEF CpuPc, LockPc
        <5> QED
          BY Zenon, <2>1, <5>1, <5>2 DEF WakePc
      <4> QED
        BY Zenon, <2>1, <4>1 DEF IInv, TypeOK, Goto
    <3>2. lock' \in CPUs \cup {NOCPU} /\ wchan' \in Chans \cup Links
      BY Zenon, <2>1 DEF IInv, TypeOK, Links
    <3> QED
      BY Zenon, <2>0, <2>1, <3>1, <3>2 DEF IInv, TypeOK
  <2>3. CursorInv'
    BY Zenon, <2>1, NobodyAges DEF CursorInv, LockPc, WakePc
  <2>4. LockInv' /\ CallerInv' /\ AgingInv'
    <3>1. /\ pc[c] = "wakeup" => pc'[c] = "run"
          /\ pc[c] = "tickwake" => pc'[c] = "quantum"
          /\ pc[c] = "exitparent" => pc'[c] = "reparent"
          /\ pc[c] = "exitinit" => pc'[c] = "zombie"
          /\ \A d \in CPUs \ {c} : pc'[d] = pc[d]
      <4>1. /\ AfterWake["wakeup"] = "run" /\ AfterWake["tickwake"] = "quantum"
            /\ AfterWake["exitparent"] = "reparent" /\ AfterWake["exitinit"] = "zombie"
        BY Zenon DEF AfterWake
      <4>2. pc'[c] = AfterWake[pc[c]] /\ \A d \in CPUs \ {c} : pc'[d] = pc[d]
        BY Zenon, <2>1 DEF IInv, TypeOK, Goto
      <4> QED
        BY Zenon, <4>1, <4>2
    <3>2. lock = c
      BY Zenon, <2>1 DEF IInv, LockInv, LockPc
    <3>3. LockInv'
      BY Zenon, <2>1, <3>1, <3>2, CpuFacts DEF IInv, LockInv, WakePc, LockPc
    <3>4. CallerInv'
      BY Zenon, <2>1, <3>1 DEF IInv, CallerInv, WakePc
    <3>5. AgingInv'
      BY Zenon, <2>1, <3>1, CpuFacts DEF IInv, AgingInv, WakePc
    <3> QED
      BY Zenon, <3>3, <3>4, <3>5
  <2>5. ForkInv' /\ CpuInv' /\ QueueInv'
    <3>1. ForkInv'
      BY ZenonT(30), <2>0, <2>1 DEF IInv, ForkInv
    <3>2. CpuInv'
      BY Zenon, <2>1 DEF IInv, CpuInv
    <3>3. QueueInv'
      BY Zenon, <2>1 DEF IInv, QueueInv, Runnable
    <3> QED
      BY Zenon, <3>1, <3>2, <3>3
  <2> QED
    BY Zenon, <2>2, <2>3, <2>4, <2>5 DEF IInv
<1> QED
  BY Zenon, <1>1, <1>2

\* allocproc() in fork().
LEMMA ForkAllocStep ==
  ASSUME IInv, NEW c \in CPUs, forkalloc(c)
  PROVE  IInv'
<1> DEFINE U == {v \in Procs : state[v] = "UNUSED"}
           u == Min(U)
<1>1. u \in Procs /\ state[u] = "UNUSED"
  <2>1. U \in SUBSET Nat /\ U # {}
    BY DEF Procs, forkalloc
  <2>2. u \in U
    BY Zenon, <2>1, MinIn
  <2> QED
    BY Zenon, <2>2
<1>2. PICK p \in Procs :
        /\ Runs(c, p, {"kern"})
        /\ lock = NOCPU /\ lock' = lock
        /\ state' = [state EXCEPT ![u] = "EMBRYO"]
        /\ pid' = [pid EXCEPT ![u] = TRUE]
        /\ nice' = [nice EXCEPT ![u] = DEFAULTPLEVEL]
        /\ kpc' = [kpc EXCEPT ![p] = "fork", ![u] = "user"]
        /\ np' = [np EXCEPT ![p] = u]
        /\ UNCHANGED <<age, ticks_count, chan, parent, killed, levels, cproc, pc, wchan,
                       cursor, aging_ticks>>
  BY ZenonT(30) DEF forkalloc, Free, timer
<1> HIDE DEF u
<1>3. state[p] = "RUNNING" /\ p # u
  BY Zenon, <1>1, <1>2 DEF IInv, CpuInv, Runs
<1>4. TypeOK'
  BY Zenon, <1>1, <1>2, SizesAssumption DEF IInv, TypeOK, ProcState, KernelPc, Links, Level
<1>5. Runnable' = Runnable /\ \A x \in Runnable : nice'[x] = nice[x]
  BY Zenon, <1>1, <1>2 DEF IInv, TypeOK, Runnable
<1>6. QueueInv'
  BY Zenon, <1>2, <1>4, <1>5, SameQueue DEF IInv, TypeOK
<1>7. LockInv' /\ CallerInv' /\ AgingInv'
  BY Zenon, <1>2 DEF IInv, LockInv, CallerInv, AgingInv
<1>8. CursorInv'
  BY Zenon, <1>2, NobodyAges DEF CursorInv
<1>9. ForkInv'
  <2>1. /\ kpc'[p] = "fork" /\ kpc'[u] = "user" /\ np'[p] = u /\ state'[u] = "EMBRYO"
        /\ \A r \in Procs \ {p, u} : kpc'[r] = kpc[r]
        /\ \A r \in Procs \ {p} : np'[r] = np[r]
        /\ \A r \in Procs \ {u} : state'[r] = state[r]
    BY Zenon, <1>1, <1>2, <1>3 DEF IInv, TypeOK
  <2>2. ASSUME NEW r \in Procs \ {p}, kpc'[r] = "fork"
        PROVE  np'[r] = np[r] /\ np[r] \in Procs \ {u} /\ state'[np[r]] = "EMBRYO"
    <3>1. kpc[r] = "fork" /\ np'[r] = np[r]
      BY Zenon, <2>1, <2>2
    <3>2. np[r] # NULL /\ state[np[r]] = "EMBRYO"
      BY Zenon, <3>1 DEF IInv, ForkInv
    <3>3. np[r] \in Procs \ {u}
      BY Zenon, <1>1, <3>2 DEF IInv, TypeOK, Links
    <3> QED
      BY ZenonT(30), <2>1, <3>1, <3>2, <3>3
  <2>3. \A r \in Procs \ {p}, q \in Procs \ {p} :
          kpc'[r] = "fork" /\ kpc'[q] = "fork" /\ r # q => np'[r] # np'[q]
    <3>1. \A r \in Procs \ {p} : kpc'[r] = "fork" => kpc[r] = "fork" /\ np'[r] = np[r]
      BY Zenon, <2>1
    <3>2. \A r \in Procs, q \in Procs :
            kpc[r] = "fork" /\ kpc[q] = "fork" /\ r # q => np[r] # np[q]
      BY Zenon DEF IInv, ForkInv
    <3> QED
      BY Zenon, <3>1, <3>2
  <2> QED
    <3>1. np'[p] # NULL /\ state'[np'[p]] = "EMBRYO"
          /\ \A r \in Procs \ {p} : kpc'[r] = "fork" => np'[r] # np'[p]
      BY Zenon, <1>1, <2>1, <2>2, NullNotProc
    <3>2. \A r \in Procs \ {p} : kpc'[r] = "fork" =>
            np'[r] # NULL /\ state'[np'[r]] = "EMBRYO"
      BY Zenon, <2>2, NullNotProc
    <3> QED
      BY Zenon, <2>3, <3>1, <3>2 DEF ForkInv
<1>10. CpuInv'
  BY Zenon, <1>1, <1>2 DEF IInv, TypeOK, CpuInv
<1> QED
  BY Zenon, <1>4, <1>6, <1>7, <1>8, <1>9, <1>10 DEF IInv

\* fork() without memory gives the slot back.
LEMMA ForkFailStep ==
  ASSUME IInv, NEW c \in CPUs, forkfail(c)
  PROVE  IInv'
<1>1. PICK p \in Procs :
        /\ Runs(c, p, {"fork"})
        /\ state' = [state EXCEPT ![np[p]] = "UNUSED"]
        /\ np' = [np EXCEPT ![p] = NULL]
        /\ kpc' = [kpc EXCEPT ![p] = "kern"]
        /\ UNCHANGED <<nice, age, ticks_count, chan, parent, killed, pid, levels, cproc, pc,
                       lock, wchan, cursor, aging_ticks>>
  BY ZenonT(30) DEF forkfail, Kgoto, timer
<1>2. np[p] \in Procs /\ state[np[p]] = "EMBRYO"
  BY Zenon, <1>1 DEF IInv, TypeOK, ForkInv, Runs, Links
<1>3. TypeOK'
  BY Zenon, <1>1, <1>2 DEF IInv, TypeOK, ProcState, KernelPc, Links
<1>4. Runnable' = Runnable
  BY Zenon, <1>1, <1>2 DEF IInv, TypeOK, Runnable
<1>5. QueueInv'
  BY Zenon, <1>1, <1>4 DEF IInv, QueueInv
<1>6. LockInv' /\ CallerInv' /\ AgingInv'
  BY Zenon, <1>1 DEF IInv, LockInv, CallerInv, AgingInv
<1>7. CursorInv'
  BY Zenon, <1>1, <1>2 DEF IInv, TypeOK, CursorInv, Links
<1>10. state'[np[p]] = "UNUSED" /\ \A q \in Procs \ {np[p]} : state'[q] = state[q]
  BY Zenon, <1>1, <1>2 DEF IInv, TypeOK
<1>8. ForkInv'
  <2>1. /\ kpc'[p] = "kern" /\ \A r \in Procs \ {p} : kpc'[r] = kpc[r] /\ np'[r] = np[r]
        /\ kpc[p] = "fork"
    BY Zenon, <1>1 DEF IInv, TypeOK, Runs
  <2>2. \A r \in Procs \ {p} : kpc[r] = "fork" => np[r] # np[p]
    BY Zenon, <2>1 DEF IInv, ForkInv
  <2> QED
    BY Zenon, <1>10, <2>1, <2>2, ForkKept
<1>9. CpuInv'
  BY Zenon, <1>1, <1>2, <1>10, CpuKept
<1> QED
  BY Zenon, <1>3, <1>5, <1>6, <1>7, <1>8, <1>9 DEF IInv

\* The end of fork(): the child is queued.
LEMMA ForkDoneStep ==
  ASSUME IInv, NEW c \in CPUs, forkdone(c)
  PROVE  IInv'
<1>1. PICK p \in Procs :
        /\ Runs(c, p, {"fork"})
        /\ lock = NOCPU /\ lock' = lock
        /\ parent' = [parent EXCEPT ![np[p]] = p]
        /\ MakeRunnable(np[p], nice[np[p]])
        /\ np' = [np EXCEPT ![p] = NULL]
        /\ kpc' = [kpc EXCEPT ![p] = "kern"]
        /\ UNCHANGED <<age, ticks_count, chan, killed, pid, cproc, pc, wchan, cursor, aging_ticks>>
  BY ZenonT(30) DEF forkdone, Free, Kgoto, timer
<1>2. np[p] \in Procs /\ state[np[p]] = "EMBRYO" /\ nice[np[p]] \in Level
  BY Zenon, <1>1 DEF IInv, TypeOK, ForkInv, Runs, Links
<1>3. /\ state' \in [Procs -> ProcState] /\ nice' \in [Procs -> Level]
      /\ levels' \in Lists /\ QueueInv'
  BY Zenon, <1>1, <1>2, MakeRunnableQueue DEF IInv
<1>4. TypeOK'
  BY ZenonT(30), <1>1, <1>2, <1>3 DEF IInv, TypeOK, KernelPc, Links
<1>5. LockInv' /\ CallerInv' /\ AgingInv'
  BY Zenon, <1>1 DEF IInv, LockInv, CallerInv, AgingInv
<1>6. CursorInv'
  BY ZenonT(30), <1>1, NobodyAges DEF CursorInv
<1>9. state'[np[p]] = "RUNNABLE" /\ \A q \in Procs \ {np[p]} : state'[q] = state[q]
  BY Zenon, <1>1, <1>2 DEF IInv, TypeOK, MakeRunnable
<1>7. ForkInv'
  <2>1. /\ kpc'[p] = "kern" /\ \A r \in Procs \ {p} : kpc'[r] = kpc[r] /\ np'[r] = np[r]
        /\ kpc[p] = "fork"
    BY Zenon, <1>1 DEF IInv, TypeOK, Runs
  <2>2. \A r \in Procs \ {p} : kpc[r] = "fork" => np[r] # np[p]
    BY Zenon, <2>1 DEF IInv, ForkInv
  <2> QED
    BY ZenonT(30), <1>9, <2>1, <2>2, ForkKept
<1>8. CpuInv'
  BY Zenon, <1>1, <1>2, <1>9, CpuKept
<1> QED
  BY Zenon, <1>3, <1>4, <1>5, <1>6, <1>7, <1>8 DEF IInv

\* kill()
LEMMA KillStep ==
  ASSUME IInv, NEW c \in CPUs, NEW q \in Procs, kill(c, q)
  PROVE  IInv'
<1>1. /\ lock = NOCPU /\ lock' = lock
      /\ killed' = [killed EXCEPT ![q] = TRUE]
      /\ UNCHANGED <<age, ticks_count, chan, parent, pid, kpc, np, cproc, pc, wchan,
                     cursor, aging_ticks>>
  BY Zenon DEF kill, Free, timer
<1>2. \/ state[q] = "SLEEPING" /\ MakeRunnable(q, nice[q])
      \/ UNCHANGED <<state, nice, levels>>
  BY Zenon DEF kill
<1>3. /\ state' \in [Procs -> ProcState] /\ nice' \in [Procs -> Level]
      /\ levels' \in Lists /\ QueueInv'
  <2>1. CASE state[q] = "SLEEPING" /\ MakeRunnable(q, nice[q])
    <3>1. nice[q] \in Level
      BY Zenon DEF IInv, TypeOK
    <3> QED
      BY Zenon, <2>1, <3>1, MakeRunnableQueue DEF IInv
  <2>2. CASE UNCHANGED <<state, nice, levels>>
    BY Zenon, <2>2 DEF IInv, TypeOK, QueueInv, Runnable
  <2> QED
    BY Zenon, <1>2, <2>1, <2>2
<1>4. TypeOK'
  BY ZenonT(30), <1>1, <1>3 DEF IInv, TypeOK
<1>5. LockInv' /\ CallerInv' /\ AgingInv'
  BY Zenon, <1>1 DEF IInv, LockInv, CallerInv, AgingInv
<1>6. CursorInv'
  BY Zenon, <1>1, NobodyAges DEF CursorInv
<1>7. ForkInv' /\ CpuInv'
  <2>1. \A r \in Procs : \/ state'[r] = state[r]
                         \/ r = q /\ state[q] = "SLEEPING" /\ state'[r] = "RUNNABLE"
    <3>1. CASE state[q] = "SLEEPING" /\ MakeRunnable(q, nice[q])
      BY Zenon, <3>1 DEF IInv, TypeOK, MakeRunnable
    <3>2. CASE state' = state
      BY Zenon, <3>2
    <3> QED
      BY Zenon, <1>2, <3>1, <3>2
  <2>2. ForkInv'
    BY Zenon, <1>1, <2>1, ForkKept
  <2>3. CpuInv'
    BY Zenon, <1>1, <2>1, CpuKept
  <2> QED
    BY Zenon, <2>2, <2>3
<1> QED
  BY Zenon, <1>3, <1>4, <1>5, <1>6, <1>7 DEF IInv

\* nice()
LEMMA NiceStep ==
  ASSUME IInv, NEW c \in CPUs, NEW inc \in Int, setnice(c, inc)
  PROVE  IInv'
<1>1. PICK p \in Procs :
        /\ Runs(c, p, {"kern"})
        /\ lock = NOCPU /\ lock' = lock
        /\ nice[p] + inc \in Level
        /\ nice' = [nice EXCEPT ![p] = nice[p] + inc]
        /\ UNCHANGED <<age, ticks_count, parent, killed, pid, np, state, chan, kpc, levels, cproc,
                       pc, wchan, cursor, aging_ticks>>
  BY ZenonT(30) DEF setnice, Free, fields, timer
<1>2. state[p] = "RUNNING"
  BY Zenon, <1>1 DEF IInv, CpuInv, Runs
<1>3. TypeOK'
  BY Zenon, <1>1 DEF IInv, TypeOK
<1>4. Runnable' = Runnable /\ \A x \in Runnable : nice'[x] = nice[x]
  BY Zenon, <1>1, <1>2 DEF IInv, TypeOK, Runnable
<1>5. QueueInv'
  BY Zenon, <1>1, <1>3, <1>4, SameQueue DEF IInv, TypeOK
<1>6. LockInv' /\ CallerInv' /\ AgingInv' /\ ForkInv' /\ CpuInv'
  <2>1. LockInv' /\ CallerInv' /\ AgingInv'
    BY Zenon, <1>1 DEF IInv, LockInv, CallerInv, AgingInv
  <2>2. ForkInv'
    BY ZenonT(30), <1>1 DEF IInv, ForkInv
  <2>3. CpuInv'
    BY Zenon, <1>1 DEF IInv, CpuInv
  <2> QED
    BY Zenon, <2>1, <2>2, <2>3
<1>7. CursorInv'
  BY Zenon, <1>1, NobodyAges DEF CursorInv
<1> QED
  BY Zenon, <1>3, <1>5, <1>6, <1>7 DEF IInv

\* wait()
LEMMA WaitStep ==
  ASSUME IInv, NEW c \in CPUs, wait(c)
  PROVE  IInv'
<1>1. PICK p \in Procs : waitscan(c, p)
  BY Zenon DEF wait
<1>2. /\ cproc[c] = p /\ state[p] = "RUNNING"
      /\ (pc[c] = "run" /\ kpc[p] = "kern" /\ lock = NOCPU) \/ pc[c] = "wait"
      /\ lock' = NOCPU /\ pc' = [pc EXCEPT ![c] = "run"]
      /\ UNCHANGED <<nice, age, ticks_count, np, levels, wchan, cursor, aging_ticks>>
  BY ZenonT(30), <1>1 DEF waitscan, IInv, CpuInv, Runs, Goto, timer
<1>3. \/ \E k \in Procs :
           /\ state[k] = "ZOMBIE"
           /\ pid' = [pid EXCEPT ![k] = FALSE]
           /\ parent' = [parent EXCEPT ![k] = NULL]
           /\ killed' = [killed EXCEPT ![k] = FALSE]
           /\ state' = [state EXCEPT ![k] = "UNUSED"]
           /\ kpc' = [kpc EXCEPT ![p] = "kern"]
           /\ UNCHANGED <<chan, cproc>>
      \/ /\ kpc' = [kpc EXCEPT ![p] = "kern"]
         /\ UNCHANGED <<state, parent, killed, pid, chan, cproc>>
      \/ /\ kpc' = [kpc EXCEPT ![p] = "wait"]
         /\ chan' = [chan EXCEPT ![p] = p]
         /\ state' = [state EXCEPT ![p] = "SLEEPING"]
         /\ cproc' = [cproc EXCEPT ![c] = NULL]
         /\ UNCHANGED <<parent, killed, pid>>
  <2>1. Zombies(Children(p)) # {} =>
          /\ Min(Zombies(Children(p))) \in Procs
          /\ state[Min(Zombies(Children(p)))] = "ZOMBIE"
    <3>1. Zombies(Children(p)) \in SUBSET Nat
      BY DEF Zombies, Children, Procs
    <3>2. Zombies(Children(p)) # {} => Min(Zombies(Children(p))) \in Zombies(Children(p))
      BY Zenon, <3>1, MinIn
    <3> QED
      BY Zenon, <3>2 DEF Zombies, Children
  <2> QED
    BY Zenon, <1>1, <2>1 DEF waitscan, Kgoto, GoToSleep
<1>4. TypeOK'
  <2>1. state' \in [Procs -> ProcState]
    BY Zenon, <1>3 DEF IInv, TypeOK, ProcState
  <2>2. parent' \in [Procs -> Links]
    BY Zenon, <1>3 DEF IInv, TypeOK, Links
  <2>3. killed' \in [Procs -> BOOLEAN] /\ pid' \in [Procs -> BOOLEAN]
    BY Zenon, <1>3 DEF IInv, TypeOK
  <2>8. \E l \in {"kern", "wait"} : kpc' = [kpc EXCEPT ![p] = l]
    BY Zenon, <1>3
  <2>4. kpc' \in [Procs -> KernelPc]
    BY Zenon, <2>8 DEF IInv, TypeOK, KernelPc
  <2>9. chan' = chan \/ chan' = [chan EXCEPT ![p] = p]
    BY Zenon, <1>3
  <2>5. chan' \in [Procs -> Chans \cup Links]
    BY Zenon, <2>9 DEF IInv, TypeOK, Links
  <2>10. cproc' = cproc \/ cproc' = [cproc EXCEPT ![c] = NULL]
    BY Zenon, <1>3
  <2>6. cproc' \in [CPUs -> Links]
    BY Zenon, <2>10 DEF IInv, TypeOK, Links
  <2>7. pc' \in [CPUs -> CpuPc]
    BY Zenon, <1>2 DEF IInv, TypeOK, CpuPc
  <2> QED
    BY ZenonT(30), <1>2, <2>1, <2>2, <2>3, <2>4, <2>5, <2>6, <2>7 DEF IInv, TypeOK
<1>5. Runnable' = Runnable
  BY Zenon, <1>2, <1>3 DEF IInv, TypeOK, Runnable
<1>6. QueueInv'
  BY Zenon, <1>2, <1>5 DEF IInv, QueueInv
<1>7. LockInv' /\ CallerInv' /\ AgingInv'
  <2>4. pc'[c] = "run" /\ \A d \in CPUs \ {c} : pc'[d] = pc[d]
    BY Zenon, <1>2 DEF IInv, TypeOK
  <2>1. LockInv'
    <3>1. pc[c] = "wait" => lock = c
      BY Zenon DEF IInv, LockInv, LockPc
    <3>2. \A d \in CPUs \ {c} : pc[d] \notin LockPc
      BY Zenon, <1>2, <3>1, CpuFacts DEF IInv, LockInv
    <3>3. "run" \notin LockPc
      BY Zenon DEF LockPc, WakePc
    <3> QED
      <4>1. lock' \notin CPUs /\ \A d \in CPUs : pc'[d] \notin LockPc
        BY Zenon, <1>2, <2>4, <3>2, <3>3, CpuFacts
      <4> QED
        BY Zenon, <4>1 DEF LockInv
  <2>2. CallerInv'
    <3>1. cproc' = cproc \/ cproc' = [cproc EXCEPT ![c] = NULL]
      BY Zenon, <1>3
    <3>2. \A d \in CPUs \ {c} : cproc'[d] = cproc[d]
      BY Zenon, <3>1 DEF IInv, TypeOK
    <3> QED
      BY Zenon, <2>4, <3>2 DEF IInv, CallerInv
  <2>3. AgingInv'
    BY Zenon, <1>2, <2>4, CpuFacts DEF IInv, AgingInv
  <2> QED
    BY Zenon, <2>1, <2>2, <2>3
<1>8. CursorInv'
  BY ZenonT(30), <1>2, NobodyAges DEF CursorInv, LockPc
<1>9. ForkInv'
  <2>1. \A r \in Procs : kpc'[r] = "fork" => kpc[r] = "fork"
    BY Zenon, <1>3 DEF IInv, TypeOK
  <2>2. \A q \in Procs : state[q] = "EMBRYO" => state'[q] = "EMBRYO"
    BY Zenon, <1>2, <1>3 DEF IInv, TypeOK
  <2> QED
    BY Zenon, <1>2, <2>1, <2>2, ForkKept
<1>10. CpuInv'
  <2>1. CASE cproc' = cproc /\ (state' = state \/ \E k \in Procs :
                 state[k] = "ZOMBIE" /\ state' = [state EXCEPT ![k] = "UNUSED"])
    <3>1. \A q \in Procs : state'[q] = "RUNNING" <=> state[q] = "RUNNING"
      BY Zenon, <2>1 DEF IInv, TypeOK
    <3> QED
      BY Zenon, <2>1, <3>1, CpuKept
  <2>2. CASE /\ state' = [state EXCEPT ![p] = "SLEEPING"]
             /\ cproc' = [cproc EXCEPT ![c] = NULL]
    <3>1. state'[p] = "SLEEPING" /\ \A q \in Procs \ {p} : state'[q] = state[q]
      BY Zenon, <2>2 DEF IInv, TypeOK
    <3> QED
      BY ZenonT(30), <1>2, <2>2, <3>1, CpuLeft
  <2> QED
    BY Zenon, <1>3, <2>1, <2>2
<1> QED
  BY Zenon, <1>4, <1>6, <1>7, <1>8, <1>9, <1>10 DEF IInv

\* The end of a quantum: yield() at a lower level.
LEMMA QuantumStep ==
  ASSUME IInv, NEW c \in CPUs, quantum(c)
  PROVE  IInv'
<1> DEFINE p == cproc[c]
<1>1. /\ pc[c] = "quantum" /\ pc' = [pc EXCEPT ![c] = "run"]
      /\ UNCHANGED <<age, chan, parent, killed, pid, np, wchan, cursor, aging_ticks>>
  BY Zenon DEF quantum, Goto, timer
<1>2. lock' = lock
  BY ZenonT(30) DEF quantum, yield, Free
<1>3. \/ p = NULL /\ UNCHANGED <<state, nice, levels, kpc, cproc, ticks_count>>
      \/ /\ p # NULL /\ kpc[p] = "user" /\ kpc' = [kpc EXCEPT ![p] = "exit"]
         /\ UNCHANGED <<state, nice, levels, cproc, ticks_count>>
      \/ /\ p # NULL /\ ~QuantumUsed(p)
         /\ ticks_count' = [ticks_count EXCEPT ![p] = ticks_count[p] + 1]
         /\ UNCHANGED <<state, nice, levels, kpc, cproc>>
      \/ p # NULL /\ yield(c, p)
  BY ZenonT(30) DEF quantum, Kgoto
<1>4. LockInv' /\ AgingInv'
  BY ZenonT(30), <1>1, <1>2, CpuFacts DEF IInv, TypeOK, LockInv, AgingInv, LockPc, WakePc
<1>5. p # NULL => p \in Procs /\ state[p] = "RUNNING"
  BY DEF IInv, TypeOK, CpuInv, Links
<1> HIDE DEF p
<1>6. CASE p # NULL /\ yield(c, p)
  <2>1. /\ lock = NOCPU
        /\ ticks_count' = [ticks_count EXCEPT ![p] = 0]
        /\ MakeRunnable(p, decreasepriority(nice[p]))
        /\ cproc' = [cproc EXCEPT ![c] = NULL]
        /\ (kpc[p] = "user" /\ kpc' = [kpc EXCEPT ![p] = "trap"]) \/ kpc' = kpc
    BY Zenon, <1>6 DEF yield, Free, Kgoto
  <2>2. decreasepriority(nice[p]) \in Level
    BY Zenon, <1>5, <1>6, PriorityType DEF IInv, TypeOK
  <2>3. /\ state' \in [Procs -> ProcState] /\ nice' \in [Procs -> Level]
        /\ levels' \in Lists /\ QueueInv'
    BY ZenonT(30), <1>5, <1>6, <2>1, <2>2, MakeRunnableQueue DEF IInv
  <2>4. TypeOK'
    <3>1. ticks_count' \in [Procs -> 0 .. (QUANTUM - 1)]
      <4>1. 0 \in 0 .. (QUANTUM - 1)
        BY TimesAssumption
      <4> QED
        BY Zenon, <2>1, <4>1 DEF IInv, TypeOK
    <3>2. kpc' \in [Procs -> KernelPc] /\ cproc' \in [CPUs -> Links]
      BY Zenon, <2>1 DEF IInv, TypeOK, KernelPc, Links
    <3>3. lock' \in CPUs \cup {NOCPU}
      BY Zenon, <1>2 DEF IInv, TypeOK
    <3> QED
      BY Zenon, <1>1, <2>3, <3>1, <3>2, <3>3 DEF IInv, TypeOK, CpuPc
  <2>5. CallerInv'
    BY Zenon, <1>1, <2>1 DEF IInv, TypeOK, CallerInv
  <2>6. CursorInv'
    BY ZenonT(30), <1>1, <2>1, NobodyAges DEF CursorInv
  <2>10. /\ state'[p] = "RUNNABLE" /\ \A q \in Procs \ {p} : state'[q] = state[q]
         /\ \A q \in Procs : kpc'[q] = kpc[q] \/ kpc'[q] = "trap"
    <3>1. state'[p] = "RUNNABLE" /\ \A q \in Procs \ {p} : state'[q] = state[q]
      BY Zenon, <1>5, <1>6, <2>1 DEF IInv, TypeOK, MakeRunnable
    <3>2. \A q \in Procs : kpc'[q] = kpc[q] \/ kpc'[q] = "trap"
      BY Zenon, <2>1 DEF IInv, TypeOK
    <3> QED
      BY Zenon, <3>1, <3>2
  <2>7. ForkInv'
    BY ZenonT(30), <1>1, <1>5, <1>6, <2>10, ForkKept
  <2>8. CpuInv'
    BY Zenon, <1>5, <1>6, <2>1, <2>10, CpuLeft DEF p
  <2> QED
    BY Zenon, <1>4, <2>3, <2>4, <2>5, <2>6, <2>7, <2>8 DEF IInv
<1>7. CASE ~(p # NULL /\ yield(c, p))
  <2>1. UNCHANGED <<state, nice, levels, cproc>>
    BY Zenon, <1>3, <1>7
  <2>2. TypeOK'
    <3>1. ticks_count' \in [Procs -> 0 .. (QUANTUM - 1)]
      <4>1. \/ ticks_count' = ticks_count
            \/ /\ p \in Procs /\ ~(ticks_count[p] + 1 >= QUANTUM)
               /\ ticks_count' = [ticks_count EXCEPT ![p] = ticks_count[p] + 1]
        BY Zenon, <1>3, <1>5, <1>7 DEF QuantumUsed
      <4>2. ticks_count \in [Procs -> 0 .. (QUANTUM - 1)]
        BY Zenon DEF IInv, TypeOK
      <4> QED
        BY <4>1, <4>2, TimesAssumption
    <3>2. kpc' \in [Procs -> KernelPc]
      <4>1. kpc' = kpc \/ kpc' = [kpc EXCEPT ![p] = "exit"]
        BY Zenon, <1>3, <1>7
      <4> QED
        BY Zenon, <4>1 DEF IInv, TypeOK, KernelPc
    <3>3. pc' \in [CPUs -> CpuPc]
      BY Zenon, <1>1 DEF IInv, TypeOK, CpuPc
    <3> QED
      BY Zenon, <1>1, <1>2, <2>1, <3>1, <3>2, <3>3 DEF IInv, TypeOK
  <2>3. QueueInv' /\ CpuInv'
    BY Zenon, <2>1 DEF IInv, QueueInv, CpuInv, Runnable
  <2>4. CallerInv' /\ CursorInv'
    BY Zenon, <1>1, <2>1 DEF IInv, TypeOK, CallerInv, CursorInv
  <2>5. ForkInv'
    <3>1. \A q \in Procs : kpc'[q] = kpc[q] \/ kpc'[q] = "exit"
      BY Zenon, <1>3, <1>7 DEF IInv, TypeOK
    <3> QED
      BY ZenonT(30), <1>1, <2>1, <3>1, ForkKept
  <2> QED
    BY Zenon, <1>4, <2>2, <2>3, <2>4, <2>5 DEF IInv
<1> QED
  BY Zenon, <1>6, <1>7

\* aging(): one process of the walk.
LEMMA AgingStep ==
  ASSUME IInv, NEW c \in CPUs, aging(c)
  PROVE  IInv'
<1> DEFINE p == cursor.p
           i == cursor.i
<1>1. /\ pc[c] = "aging" /\ lock = c /\ c = 0
      /\ UNCHANGED <<state, ticks_count, chan, parent, killed, pid, kpc, np, cproc, wchan>>
  BY Zenon DEF aging, IInv, LockInv, AgingInv, LockPc
<1>2. Runnable' = Runnable /\ Runnable \in SUBSET Procs
  BY Zenon, <1>1 DEF Runnable
<1>3. ForkInv' /\ CpuInv'
  <2>1. ForkInv'
    BY Zenon, <1>1 DEF IInv, ForkInv
  <2>2. CpuInv'
    BY Zenon, <1>1 DEF IInv, CpuInv
  <2> QED
    BY Zenon, <2>1, <2>2
<1>4. CASE p # NULL
  <2>1. p \in Procs /\ p \in Runnable /\ nice[p] = i /\ i \in Level
    BY Zenon, <1>4 DEF IInv, TypeOK, CursorInv, Links, Runnable
  <2>2. /\ age' = [age EXCEPT ![p] = IF TooOld(p) THEN @ ELSE @ + 1]
        /\ cursor' = [cursor EXCEPT !.p = levels.next[p]]
        /\ UNCHANGED <<pc, lock, aging_ticks>>
    BY Zenon, <1>4 DEF aging
  <2>3. LockInv' /\ CallerInv' /\ AgingInv'
    BY Zenon, <1>1, <2>2 DEF IInv, LockInv, CallerInv, AgingInv
  <2> DEFINE k == increasepriority(nice[p])
             r == removefromlevel(levels, p, i)
  <2>4. \/ nice' = [nice EXCEPT ![p] = k] /\ levels' = enqueue(r, p, k)
        \/ UNCHANGED <<nice, levels>>
    BY Zenon, <1>4 DEF aging
  <2>5. k \in Level
    BY Zenon, <2>1, PriorityType
  <2>6. r \in Lists /\ WellFormed(r, Runnable \ {p}, nice)
    BY Zenon, <1>2, <2>1, RemoveType, RemoveWellFormed DEF IInv, TypeOK, QueueInv
  <2>7. /\ enqueue(r, p, k) \in Lists
        /\ WellFormed(enqueue(r, p, k), Runnable, [nice EXCEPT ![p] = k])
    <3>1. p \in Procs \ (Runnable \ {p}) /\ (Runnable \ {p}) \cup {p} = Runnable
          /\ Runnable \ {p} \in SUBSET Procs
      BY Zenon, <1>2, <2>1
    <3>2. nice \in [Procs -> Level]
      BY Zenon DEF IInv, TypeOK
    <3>3. WellFormed(enqueue(r, p, k), (Runnable \ {p}) \cup {p}, [nice EXCEPT ![p] = k])
      BY Zenon, <2>5, <2>6, <3>1, <3>2, EnqueueWellFormed
    <3> QED
      BY ZenonT(30), <2>1, <2>5, <2>6, <3>1, <3>3, EnqueueType
  <2>8. levels' \in Lists /\ nice' \in [Procs -> Level] /\ QueueInv'
    <3>1. [nice EXCEPT ![p] = k] \in [Procs -> Level]
      BY Zenon, <2>1, <2>5 DEF IInv, TypeOK
    <3>2. levels \in Lists /\ nice \in [Procs -> Level] /\ WellFormed(levels, Runnable, nice)
      BY Zenon DEF IInv, TypeOK, QueueInv
    <3>3. QueueInv' <=> WellFormed(levels', Runnable, nice')
      BY Zenon, <1>2 DEF QueueInv
    <3> HIDE DEF k, r
    <3> QED
      BY ZenonT(30), <2>4, <2>7, <3>1, <3>2, <3>3
  <2> HIDE DEF r, k
  <2>9. levels.next[p] # NULL =>
          levels.next[p] \in Runnable \ {p} /\ nice[levels.next[p]] = i
    <3>1. {p} \in SUBSET Runnable /\ {p} # {}
      BY Zenon, <2>1
    <3>2. \E x \in {p} : levels.next[x] \notin {p}
      BY Zenon, <3>1 DEF IInv, QueueInv, WellFormed, Acyclic
    <3> QED
      BY ZenonT(30), <2>1, <3>2 DEF IInv, QueueInv, WellFormed, Linked
  <2>10. cursor' \in [i : 1 .. PLEVELS, p : Links]
    BY Zenon, <2>1, <2>2 DEF IInv, TypeOK, Lists
  <2>11. age' \in [Procs -> 0 .. (AGELIMIT - 1)]
    BY <2>1, <2>2, TimesAssumption DEF IInv, TypeOK, TooOld
  <2>12. TypeOK'
    BY Zenon, <1>1, <2>2, <2>8, <2>10, <2>11 DEF IInv, TypeOK
  <2>13. CursorInv'
    <3>1. cursor'.p = levels.next[p] /\ cursor'.i = i
      BY Zenon, <2>2 DEF IInv, TypeOK
    <3>2. \A x \in Procs \ {p} : nice'[x] = nice[x]
      BY Zenon, <2>1, <2>4 DEF IInv, TypeOK
    <3> QED
      BY Zenon, <1>1, <2>2, <2>9, <3>1, <3>2 DEF CursorInv, Runnable
  <2> QED
    BY Zenon, <1>3, <2>3, <2>8, <2>12, <2>13 DEF IInv
<1>5. CASE p = NULL /\ i < PLEVELS
  <2>1. /\ cursor' = [i |-> i + 1, p |-> IF i + 1 < PLEVELS THEN levels.head[i + 1] ELSE NULL]
        /\ UNCHANGED <<age, nice, levels, pc, lock, aging_ticks>>
    <3>1. i \in 1 .. PLEVELS
      BY Zenon DEF IInv, TypeOK
    <3>2. ~(i = PLEVELS)
      BY <1>5, <3>1, SizesAssumption
    <3> QED
      BY Zenon, <1>5, <3>2 DEF aging
  <2>2. i + 1 < PLEVELS => i + 1 \in Level /\ levels.head[i + 1] \in Links
    BY SizesAssumption DEF IInv, TypeOK, Lists, Level
  <2>3. cursor' \in [i : 1 .. PLEVELS, p : Links]
    <3>1. i + 1 \in 1 .. PLEVELS
      BY <1>5, SizesAssumption DEF IInv, TypeOK
    <3>2. (IF i + 1 < PLEVELS THEN levels.head[i + 1] ELSE NULL) \in Links
      BY Zenon, <2>2 DEF Links
    <3> QED
      BY Zenon, <2>1, <3>1, <3>2
  <2>4. TypeOK'
    BY ZenonT(30), <1>1, <2>1, <2>3 DEF IInv, TypeOK
  <2>5. CursorInv'
    BY ZenonT(30), <1>1, <2>1, <2>2 DEF CursorInv, IInv, QueueInv, WellFormed, Linked, Runnable
  <2>6. LockInv' /\ CallerInv' /\ AgingInv' /\ QueueInv'
    BY Zenon, <1>1, <1>2, <2>1 DEF IInv, LockInv, CallerInv, AgingInv, QueueInv
  <2> QED
    BY Zenon, <1>3, <2>4, <2>5, <2>6 DEF IInv
<1>6. CASE p = NULL /\ i = PLEVELS
  <2>1. /\ lock' = NOCPU /\ pc' = [pc EXCEPT ![c] = "tick"]
        /\ aging_ticks' = 0
        /\ cursor' = [cursor EXCEPT !.i = 1]
        /\ UNCHANGED <<age, nice, levels>>
    BY <1>6, SizesAssumption DEF aging, Goto, IInv, TypeOK
  <2>2. cursor' \in [i : 1 .. PLEVELS, p : Links] /\ cursor'.p = NULL
    BY <1>6, <2>1, SizesAssumption DEF IInv, TypeOK
  <2>3. TypeOK'
    BY <1>1, <2>1, <2>2, TimesAssumption DEF IInv, TypeOK, CpuPc
  <2>4. LockInv' /\ CallerInv' /\ AgingInv'
    BY <1>1, <2>1, CpuFacts, TimesAssumption
       DEF IInv, TypeOK, LockInv, CallerInv, AgingInv, LockPc, WakePc
  <2>5. CursorInv' /\ QueueInv'
    BY Zenon, <1>2, <2>1, <2>2 DEF IInv, CursorInv, QueueInv
  <2> QED
    BY Zenon, <1>3, <2>3, <2>4, <2>5 DEF IInv
<1>7. i < PLEVELS \/ i = PLEVELS
  BY SizesAssumption DEF IInv, TypeOK
<1> QED
  BY Zenon, <1>4, <1>5, <1>6, <1>7

-----------------------------------------------------------------------------
\* Empty levels are well-formed.
LEMMA EmptyWellFormed ==
  ASSUME NEW lv \in [Procs -> Level]
  PROVE  EmptyLists \in Lists /\ WellFormed(EmptyLists, {}, lv)
BY Zenon DEF EmptyLists, Lists, Links, WellFormed, Linked, Acyclic

\* The process table after userinit().
LEMMA InitIInv == Init => IInv
<1> SUFFICES ASSUME Init PROVE IInv
  OBVIOUS
<1>1. initproc \in Procs /\ DEFAULTPLEVEL \in Level /\ 0 \in Level
  BY SizesAssumption DEF initproc, Procs, Level
<1>2. /\ state \in [Procs -> ProcState] /\ nice \in [Procs -> Level]
      /\ kpc \in [Procs -> KernelPc] /\ cursor \in [i : 1 .. PLEVELS, p : Links]
  <2>4. /\ state = [p \in Procs |-> IF p = initproc THEN "RUNNABLE" ELSE "UNUSED"]
        /\ nice = [p \in Procs |-> IF p = initproc THEN DEFAULTPLEVEL ELSE 0]
        /\ kpc = [p \in Procs |-> "user"]
        /\ cursor = [i |-> 1, p |-> NULL]
    BY Zenon DEF Init
  <2>1. state \in [Procs -> ProcState] /\ kpc \in [Procs -> KernelPc]
    BY Zenon, <2>4 DEF ProcState, KernelPc
  <2>2. nice \in [Procs -> Level]
    BY Zenon, <1>1, <2>4
  <2>3. cursor \in [i : 1 .. PLEVELS, p : Links]
    BY <2>4, SizesAssumption DEF Links
  <2> QED
    BY Zenon, <2>1, <2>2, <2>3
<1>3. levels \in Lists
  <2>1. EmptyLists \in Lists
    BY Zenon, <1>2, EmptyWellFormed
  <2> QED
    <3>1. levels = enqueue(EmptyLists, initproc, DEFAULTPLEVEL)
      BY Zenon DEF Init
    <3> QED
      BY Zenon, <1>1, <2>1, <3>1, EnqueueType
<1>4. TypeOK
  <2>1. age \in [Procs -> 0 .. (AGELIMIT - 1)] /\ ticks_count \in [Procs -> 0 .. (QUANTUM - 1)]
    <3>1. age = [p \in Procs |-> 0] /\ ticks_count = [p \in Procs |-> 0]
      BY Zenon DEF Init
    <3> QED
      BY <3>1, TimesAssumption
  <2> QED
    <3>1. killed \in [Procs -> BOOLEAN] /\ pid \in [Procs -> BOOLEAN]
      BY Zenon DEF Init
    <3>2. /\ chan \in [Procs -> Chans \cup Links] /\ parent \in [Procs -> Links]
          /\ np \in [Procs -> Links] /\ cproc \in [CPUs -> Links]
          /\ wchan \in Chans \cup Links
      <4>1. /\ chan = [p \in Procs |-> NULL] /\ parent = [p \in Procs |-> NULL]
            /\ np = [p \in Procs |-> NULL] /\ cproc = [c \in CPUs |-> NULL]
            /\ wchan = NULL
        BY Zenon DEF Init
      <4> QED
        BY Zenon, <4>1 DEF Links
    <3>3. /\ pc \in [CPUs -> CpuPc] /\ lock \in CPUs \cup {NOCPU}
          /\ aging_ticks \in 0 .. AGINGSTEP
      <4>1. pc = [c \in CPUs |-> "run"] /\ lock = NOCPU /\ aging_ticks = 0
        BY Zenon DEF Init
      <4> QED
        BY <4>1, TimesAssumption DEF CpuPc
    <3> QED
      BY Zenon, <1>2, <1>3, <2>1, <3>1, <3>2, <3>3 DEF TypeOK
<1>5. QueueInv
  <2>1. Runnable = {} \cup {initproc}
    BY Zenon, <1>1 DEF Init, Runnable
  <2>2. WellFormed(EmptyLists, {}, nice) /\ EmptyLists \in Lists
    BY Zenon, <1>2, EmptyWellFormed
  <2>3. WellFormed(enqueue(EmptyLists, initproc, DEFAULTPLEVEL), {} \cup {initproc},
                   [nice EXCEPT ![initproc] = DEFAULTPLEVEL])
    <3>1. initproc \in Procs \ {} /\ {} \in SUBSET Procs
      BY Zenon, <1>1
    <3> QED
      BY Zenon, <1>1, <1>2, <2>2, <3>1, EnqueueWellFormed
  <2>4. [nice EXCEPT ![initproc] = DEFAULTPLEVEL] = nice
    BY Zenon, <1>1 DEF Init
  <2> QED
    BY Zenon, <2>1, <2>3, <2>4 DEF Init, QueueInv
<1>6. LockInv /\ CallerInv /\ AgingInv /\ CursorInv
  <2>1. lock = NOCPU /\ aging_ticks = 0 /\ cursor.p = NULL /\ \A c \in CPUs : pc[c] = "run"
    BY Zenon DEF Init
  <2>2. LockInv
    BY Zenon, <2>1, CpuFacts DEF LockInv, LockPc, WakePc
  <2>3. CallerInv /\ CursorInv
    BY Zenon, <2>1 DEF CallerInv, CursorInv
  <2>4. AgingInv
    BY <2>1, CpuFacts, TimesAssumption DEF AgingInv
  <2> QED
    BY Zenon, <2>2, <2>3, <2>4
<1>7. ForkInv /\ CpuInv
  BY Zenon, NullNotProc DEF Init, ForkInv, CpuInv
<1> QED
  BY Zenon, <1>4, <1>5, <1>6, <1>7 DEF IInv

\* Every step keeps the invariant.
LEMMA NextIInv == IInv /\ [Next]_vars => IInv'
<1> SUFFICES ASSUME IInv, [Next]_vars PROVE IInv'
  OBVIOUS
<1>1. CASE UNCHANGED vars
  <2>1. UNCHANGED <<state, nice, age, ticks_count, chan, parent, killed, pid, kpc, np, levels,
                   cproc, pc, lock, wchan, cursor, aging_ticks>>
    BY Zenon, <1>1 DEF vars
  <2>2. TypeOK'
    BY ZenonT(30), <2>1 DEF IInv, TypeOK
  <2>3. LockInv' /\ CallerInv' /\ AgingInv'
    BY Zenon, <2>1 DEF IInv, LockInv, CallerInv, AgingInv
  <2>4. ForkInv' /\ CursorInv'
    BY Zenon, <2>1 DEF IInv, ForkInv, CursorInv
  <2>5. QueueInv' /\ CpuInv'
    BY ZenonT(30), <2>1 DEF IInv, QueueInv, CpuInv, Runnable
  <2> QED
    BY Zenon, <2>2, <2>3, <2>4, <2>5 DEF IInv
<1>2. CASE Next
  <2>1. PICK c \in CPUs :
          \/ scheduler(c) \/ wakeup1(c) \/ reparent(c) \/ zombie(c) \/ wait(c)
          \/ sysenter(c) \/ sysexit(c) \/ userfault(c) \/ exit(c)
          \/ forkalloc(c) \/ forkfail(c) \/ forkdone(c)
          \/ tick(c) \/ agingbegin(c) \/ aging(c) \/ tickwake(c) \/ quantum(c)
          \/ \E ch \in Chans : sleep(c, ch) \/ wakeup(c, ch)
          \/ \E q \in Procs : kill(c, q)
          \/ \E inc \in Int : setnice(c, inc)
    <3>1. (1 - PLEVELS) .. (PLEVELS - 1) \subseteq Int
      BY SizesAssumption
    <3> QED
      BY Zenon, <1>2, <3>1 DEF Next
  <2> QED
    BY ZenonT(30), <2>1, SchedulerStep, WakeupStep, ExitStep, WaitStep, TrapStep, EnterStep, ForkAllocStep,
       ForkFailStep, ForkDoneStep, TickStep, AgingStep, QuantumStep, SleepStep, KillStep, NiceStep
<1> QED
  BY Zenon, <1>1, <1>2

\* The inductive invariant of the process table holds in every reachable state:
\* the fields keep their types, ptable.lock serialises the loops of wakeup1 and
\* aging, and the children being forked are private.
THEOREM Invariance == Spec => []IInv
BY InitIInv, NextIInv, PTL DEF Spec

\* enqueue, dequeue and removefromlevel keep exactly the RUNNABLE processes on
\* the levels, each once and at the level of its nice field.
THEOREM QueuesIntact == Spec => []QueueInv
<1>1. IInv => QueueInv
  BY Zenon DEF IInv
<1> QED
  BY <1>1, Invariance, PTL

\* A process is RUNNING exactly while one CPU runs it, and never on two CPUs.
THEOREM OneCpuPerProcess == Spec => []CpuInv
<1>1. IInv => CpuInv
  BY Zenon DEF IInv
<1> QED
  BY <1>1, Invariance, PTL

\* Every variable of the process table keeps its type.
THEOREM TypeCorrect == Spec => []TypeOK
<1>1. IInv => TypeOK
  BY Zenon DEF IInv
<1> QED
  BY <1>1, Invariance, PTL

\* When scheduler() finds every level empty no process is RUNNABLE: a CPU is
\* never idle because a list has lost a process.
THEOREM NoneForgotten ==
  Spec => []((\A l \in Level : isempty(levels, l)) => Runnable = {})
<1>1. IInv => ((\A l \in Level : isempty(levels, l)) => Runnable = {})
  <2> SUFFICES ASSUME IInv, NEW p \in Runnable
               PROVE  \E l \in Level : ~isempty(levels, l)
    OBVIOUS
  <2>1. Runnable \in SUBSET Procs /\ p \in Procs
    BY Zenon DEF Runnable
  <2>2. ~isempty(levels, nice[p])
    BY Zenon, <2>1, NothingLost DEF IInv, TypeOK, QueueInv
  <2> QED
    BY Zenon, <2>1, <2>2 DEF IInv, TypeOK
<1> QED
  BY <1>1, Invariance, PTL

-----------------------------------------------------------------------------
(* Parents and children: exit() passes its children to init and wakes who  *)
(* waits for a child.  FamilyInv is inductive together with IInv.          *)

\* A process asleep in wait(): its channel is its own slot.
Waits(p) == state[p] = "SLEEPING" /\ chan[p] = p

\* Where a CPU is between the first wakeup1() of exit() and its end.
Exiting == {"exitparent", "reparent", "exitinit", "zombie"}

\* init never exits, and has no parent.
InitInv == state[initproc] \notin {"UNUSED", "EMBRYO", "ZOMBIE"} /\ parent[initproc] = NULL

\* A slot gets a parent when its process is complete, and the parent is another slot.
SlotInv == \A p \in Procs :
  /\ state[p] \in {"UNUSED", "EMBRYO"} => parent[p] = NULL
  /\ parent[p] # p

\* How far the exit() on a CPU has got: its parent is awake after the first
\* wakeup1(), and the children are passed on before it is a ZOMBIE.
ExitInv == \A c \in CPUs :
  /\ pc[c] \in Exiting => cproc[c] # initproc
  /\ pc[c] = "exitparent" => wchan = parent[cproc[c]]
  /\ pc[c] \in Exiting \ {"exitparent"} => ~Waits(parent[cproc[c]])
  /\ pc[c] = "exitinit" => wchan = initproc
  /\ pc[c] \in {"exitinit", "zombie"} => Children(cproc[c]) = {}

\* A process that sleeps in wait() has children, none of them a ZOMBIE, unless it
\* is init and the second wakeup1() of exit() is still to wake it.
WaitInv == \A p \in Procs : Waits(p) =>
  /\ Children(p) # {}
  /\ Zombies(Children(p)) = {} \/ (p = initproc /\ \E c \in CPUs : pc[c] = "exitinit")

\* What exit() and wait() rely on, inductive together with IInv.
FamilyInv == InitInv /\ SlotInv /\ ParentAlive /\ ExitInv /\ WaitInv

\* The process that scheduler() picks is a RUNNABLE one.
LEMMA PickedRunnable ==
  ASSUME IInv, NonEmpty # {}
  PROVE  levels.last[Pick] \in Procs /\ state[levels.last[Pick]] = "RUNNABLE"
<1> DEFINE l == Pick
           p == levels.last[l]
<1>1. l \in Level /\ ~isempty(levels, l)
  <2>1. NonEmpty \in SUBSET Nat
    BY DEF NonEmpty, Level
  <2>2. l \in NonEmpty
    BY Zenon, <2>1, MinIn DEF Pick
  <2> QED
    BY Zenon, <2>2 DEF NonEmpty
<1>2. Runnable \in SUBSET Procs
  BY Zenon DEF Runnable
<1>3. p \in Runnable
  BY ZenonT(30), <1>1, <1>2, DequeueWellFormed DEF IInv, TypeOK, QueueInv
<1> QED
  BY Zenon, <1>3 DEF Runnable

\* init is a process.
LEMMA InitProc == initproc \in Procs /\ initproc # NULL
BY SizesAssumption DEF initproc, Procs, NULL

\* An exit() past its beginning holds ptable.lock.
LEMMA ExiterHoldsLock ==
  ASSUME IInv, NEW c \in CPUs, pc[c] \in Exiting
  PROVE  lock = c
BY Zenon DEF IInv, LockInv, LockPc, WakePc, Exiting

\* It is the exit() of a running process whose parent is a process.
LEMMA ExiterFacts ==
  ASSUME IInv, FamilyInv, NEW c \in CPUs, pc[c] \in Exiting
  PROVE  /\ cproc[c] \in Procs /\ cproc[c] # initproc /\ state[cproc[c]] = "RUNNING"
         /\ parent[cproc[c]] \in Procs /\ parent[cproc[c]] # cproc[c]
<1>1. cproc[c] \in Procs
  BY Zenon DEF IInv, TypeOK, CallerInv, Links, Exiting
<1>2. state[cproc[c]] = "RUNNING" /\ cproc[c] # initproc
  BY Zenon, <1>1 DEF IInv, CpuInv, FamilyInv, ExitInv
<1>3. parent[cproc[c]] # NULL
  BY Zenon, <1>1, <1>2 DEF FamilyInv, ParentAlive
<1> QED BY Zenon, <1>1, <1>2, <1>3 DEF IInv, TypeOK, Links, FamilyInv, SlotInv

\* Who begins to sleep in wait() has children and has found no ZOMBIE.
MayWait(q) ==
  /\ Children(q) # {} /\ Zombies(Children(q)) = {}
  /\ \A d \in CPUs : pc[d] \notin Exiting

\* A step that passes no child on, begins or ends no process and does not go on
\* with an exit() keeps the families as they are.
LEMMA FamilyKept ==
  ASSUME IInv, FamilyInv, parent' = parent,
         \A q \in Procs : /\ state'[q] \in {"UNUSED", "EMBRYO"} <=> state[q] \in {"UNUSED", "EMBRYO"}
                          /\ state'[q] = "ZOMBIE" <=> state[q] = "ZOMBIE",
         \A q \in Procs : Waits(q)' => Waits(q) \/ MayWait(q),
         \A d \in CPUs : pc[d] \in Exiting \/ pc'[d] \in Exiting =>
                           pc'[d] = pc[d] /\ cproc'[d] = cproc[d] /\ wchan' = wchan
  PROVE  FamilyInv'
<1>1. InitInv' /\ SlotInv'
  BY Zenon, InitProc DEF FamilyInv, InitInv, SlotInv
<1>2. ParentAlive'
  <2> SUFFICES ASSUME NEW p \in Procs \ {initproc}, state'[p] \notin {"UNUSED", "EMBRYO"}
               PROVE  /\ parent[p] # NULL
                      /\ state'[parent[p]] \notin {"UNUSED", "EMBRYO", "ZOMBIE"}
    BY Zenon DEF ParentAlive
  <2>1. parent[p] # NULL /\ state[parent[p]] \notin {"UNUSED", "EMBRYO", "ZOMBIE"}
    BY Zenon DEF FamilyInv, ParentAlive
  <2>2. parent[p] \in Procs
    BY <2>1 DEF IInv, TypeOK, Links
  <2> QED BY Zenon, <2>1, <2>2
<1>3. \A q : Children(q)' = Children(q) /\ Zombies(Children(q))' = Zombies(Children(q))
  BY Zenon DEF Children, Zombies
<1>4. ExitInv'
  <2> SUFFICES ASSUME NEW c \in CPUs, pc'[c] \in Exiting
               PROVE  /\ cproc'[c] # initproc
                      /\ pc'[c] = "exitparent" => wchan' = parent'[cproc'[c]]
                      /\ pc'[c] \in Exiting \ {"exitparent"} => ~Waits(parent[cproc[c]])'
                      /\ pc'[c] = "exitinit" => wchan' = initproc
                      /\ pc'[c] \in {"exitinit", "zombie"} => Children(cproc[c])' = {}
    BY Zenon DEF ExitInv, Exiting
  <2>1. pc'[c] = pc[c] /\ cproc'[c] = cproc[c] /\ wchan' = wchan /\ pc[c] \in Exiting
    OBVIOUS
  <2>2. parent[cproc[c]] \in Procs
    BY Zenon, <2>1, ExiterFacts
  <2>3. pc[c] # "exitparent" => ~Waits(parent[cproc[c]])'
    <3>1. ~MayWait(parent[cproc[c]])
      BY Zenon, <2>1 DEF MayWait
    <3>2. pc[c] # "exitparent" => ~Waits(parent[cproc[c]])
      BY Zenon, <2>1 DEF FamilyInv, ExitInv
    <3>3. parent'[cproc'[c]] = parent[cproc[c]]
      BY Zenon, <2>1
    <3> QED BY Zenon, <2>2, <3>1, <3>2, <3>3 DEF Waits
  <2>4. pc[c] \in {"exitinit", "zombie"} => Children(cproc[c])' = {}
    BY <2>1, <1>3 DEF FamilyInv, ExitInv, Children
  <2> QED BY Zenon, <2>1, <2>3, <2>4 DEF FamilyInv, ExitInv
<1>5. WaitInv'
  <2> SUFFICES ASSUME NEW p \in Procs, Waits(p)'
               PROVE  /\ Children(p)' # {}
                      /\ Zombies(Children(p))' = {} \/ (p = initproc /\ \E c \in CPUs : pc'[c] = "exitinit")
    BY Zenon DEF WaitInv
  <2>1. CASE MayWait(p)
    BY Zenon, <1>3, <2>1 DEF MayWait
  <2>2. CASE Waits(p)
    <3>1. /\ Children(p) # {}
          /\ Zombies(Children(p)) = {} \/ (p = initproc /\ \E c \in CPUs : pc[c] = "exitinit")
      BY Zenon, <2>2 DEF FamilyInv, WaitInv
    <3>2. \A c \in CPUs : pc[c] = "exitinit" => pc'[c] = "exitinit"
      BY Zenon DEF Exiting
    <3> QED BY Zenon, <1>3, <3>1, <3>2
  <2> QED BY Zenon, <2>1, <2>2
<1> QED BY Zenon, <1>1, <1>2, <1>4, <1>5 DEF FamilyInv

\* Steps of trap(), of the timer and of nice(), and the beginning of wakeup():
\* no process changes its state.
LEMMA FamilyQuiet ==
  ASSUME IInv, FamilyInv, NEW c \in CPUs,
         \/ sysenter(c) \/ sysexit(c) \/ userfault(c) \/ tick(c) \/ agingbegin(c) \/ aging(c)
         \/ tickwake(c) \/ (\E ch \in Chans : wakeup(c, ch))
         \/ (\E inc \in Int : setnice(c, inc))
  PROVE  FamilyInv'
<1>1. UNCHANGED <<state, chan, parent, cproc>>
  BY Zenon DEF sysenter, sysexit, userfault, tick, agingbegin, aging, tickwake, wakeup, setnice, fields
<1>2. \A q \in Procs : Waits(q)' => Waits(q)
  BY Zenon, <1>1 DEF Waits
<1>3. \A d \in CPUs : pc[d] \in Exiting \/ pc'[d] \in Exiting => pc'[d] = pc[d] /\ wchan' = wchan
  <2>1. CASE pc' = pc /\ wchan' = wchan
    BY Zenon, <2>1
  <2>2. CASE tick(c) \/ agingbegin(c) \/ aging(c)
    BY Zenon, <2>2 DEF tick, agingbegin, aging, Goto, IInv, TypeOK, Exiting
  <2>3. CASE tickwake(c) \/ \E ch \in Chans : wakeup(c, ch)
    <3>1. lock = NOCPU /\ (pc' = [pc EXCEPT ![c] = "wakeup"] \/ pc' = [pc EXCEPT ![c] = "tickwake"])
      BY Zenon, <2>3 DEF tickwake, wakeup, Goto
    <3>2. \A d \in CPUs : pc[d] \notin Exiting
      BY Zenon, <3>1, ExiterHoldsLock, CpuFacts
    <3> QED BY Zenon, <3>1, <3>2 DEF IInv, TypeOK, Exiting
  <2> QED BY Zenon, <2>1, <2>2, <2>3 DEF sysenter, sysexit, userfault, setnice
<1> QED BY Zenon, <1>1, <1>2, <1>3, FamilyKept

\* One process changes between SLEEPING, RUNNABLE and RUNNING, or a slot
\* between UNUSED and EMBRYO.
LEMMA FamilyMove ==
  ASSUME IInv, FamilyInv, NEW p \in Procs, NEW l \in ProcState, parent' = parent,
         state' = [state EXCEPT ![p] = l],
         \/ {state[p], l} \subseteq {"SLEEPING", "RUNNABLE", "RUNNING"}
         \/ {state[p], l} \subseteq {"UNUSED", "EMBRYO"},
         chan' \in [Procs -> Chans \cup Links],
         \A q \in Procs \ {p} : chan'[q] = chan[q],
         l = "SLEEPING" /\ chan'[p] = p => MayWait(p),
         \A d \in CPUs : pc[d] \in Exiting \/ pc'[d] \in Exiting =>
                           pc'[d] = pc[d] /\ cproc'[d] = cproc[d] /\ wchan' = wchan
  PROVE  FamilyInv'
<1>1. state'[p] = l /\ \A q \in Procs \ {p} : state'[q] = state[q]
  BY Zenon DEF IInv, TypeOK
<1>2. \A q \in Procs : /\ state'[q] \in {"UNUSED", "EMBRYO"} <=> state[q] \in {"UNUSED", "EMBRYO"}
                       /\ state'[q] = "ZOMBIE" <=> state[q] = "ZOMBIE"
  BY Zenon, <1>1
<1>3. \A q \in Procs : Waits(q)' => Waits(q) \/ MayWait(q)
  BY Zenon, <1>1 DEF Waits
<1> QED BY Zenon, <1>2, <1>3, FamilyKept

\* Who runs on a CPU is RUNNING.
LEMMA RunsRunning ==
  ASSUME IInv, NEW c \in CPUs, NEW p \in Procs, cproc[c] = p
  PROVE  state[p] = "RUNNING"
BY Zenon DEF IInv, CpuInv

\* Nobody is in the middle of exit() while the lock is free.
LEMMA NoExiter ==
  ASSUME IInv, NEW c \in CPUs, lock = NOCPU \/ pc[c] \in LockPc \ Exiting
  PROVE  \A d \in CPUs : pc[d] \notin Exiting
BY Zenon, ExiterHoldsLock, CpuFacts DEF IInv, LockInv

\* scheduler(), sleep(), kill(), and the slots that fork() takes and gives back.
LEMMA FamilySwitch ==
  ASSUME IInv, FamilyInv, NEW c \in CPUs,
         \/ scheduler(c) \/ forkalloc(c) \/ forkfail(c)
         \/ (\E ch \in Chans : sleep(c, ch)) \/ (\E q \in Procs : kill(c, q))
  PROVE  FamilyInv'
<1>1. CASE scheduler(c)
  <2> DEFINE p == levels.last[Pick]
  <2>1. /\ lock = NOCPU /\ state' = [state EXCEPT ![p] = "RUNNING"] /\ parent' = parent
        /\ chan' = [chan EXCEPT ![p] = NULL] /\ pc[c] = "run"
        /\ pc' = [pc EXCEPT ![c] = "wait"] \/ pc' = pc
    BY Zenon, <1>1 DEF scheduler, Goto, fields
  <2>2. p \in Procs /\ state[p] = "RUNNABLE"
    BY Zenon, <1>1, PickedRunnable DEF scheduler
  <2> HIDE DEF p
  <2>3. \A d \in CPUs : pc[d] \notin Exiting
    BY Zenon, <2>1, NoExiter
  <2>4. \A d \in CPUs : pc'[d] \notin Exiting
    BY Zenon, <2>1, <2>3 DEF IInv, TypeOK, Exiting
  <2>5. chan' \in [Procs -> Chans \cup Links] /\ \A q \in Procs \ {p} : chan'[q] = chan[q]
    BY Zenon, <2>1 DEF IInv, TypeOK, Links
  <2> QED BY Zenon, <2>1, <2>2, <2>3, <2>4, <2>5, FamilyMove DEF ProcState
<1>2. CASE \E ch \in Chans : sleep(c, ch)
  <2>1. PICK ch \in Chans, p \in Procs :
          /\ lock = NOCPU /\ cproc[c] = p /\ state' = [state EXCEPT ![p] = "SLEEPING"]
          /\ chan' = [chan EXCEPT ![p] = ch] /\ parent' = parent /\ pc' = pc
    BY Zenon, <1>2 DEF sleep, Free, Runs, GoToSleep, fields
  <2>2. state[p] = "RUNNING"
    BY Zenon, <2>1, RunsRunning
  <2>3. \A d \in CPUs : pc[d] \notin Exiting
    BY Zenon, <2>1, NoExiter
  <2>4. chan'[p] = ch /\ ch # p
    BY <2>1, TimesAssumption DEF IInv, TypeOK, Links
  <2>5. chan' \in [Procs -> Chans \cup Links] /\ \A q \in Procs \ {p} : chan'[q] = chan[q]
    BY Zenon, <2>1 DEF IInv, TypeOK, Links
  <2> QED BY Zenon, <2>1, <2>2, <2>3, <2>4, <2>5, FamilyMove DEF ProcState
<1>3. CASE \E q \in Procs : kill(c, q)
  <2>1. PICK q \in Procs :
          /\ IF state[q] = "SLEEPING" THEN state' = [state EXCEPT ![q] = "RUNNABLE"]
                                      ELSE state' = state
          /\ UNCHANGED <<chan, parent, pc, cproc, wchan>>
    BY Zenon, <1>3 DEF kill, MakeRunnable
  <2>2. CASE state[q] = "SLEEPING"
    BY Zenon, <2>1, <2>2, FamilyMove DEF ProcState, IInv, TypeOK
  <2>3. CASE state' = state
    BY Zenon, <2>1, <2>3, FamilyKept DEF Waits
  <2> QED BY Zenon, <2>1, <2>2, <2>3
<1>4. CASE forkalloc(c)
  <2> DEFINE u == Min({v \in Procs : state[v] = "UNUSED"})
  <2>1. u \in Procs /\ state[u] = "UNUSED"
    <3>1. /\ {v \in Procs : state[v] = "UNUSED"} \in SUBSET Nat
          /\ {v \in Procs : state[v] = "UNUSED"} # {}
      BY <1>4 DEF forkalloc, Procs
    <3>2. u \in {v \in Procs : state[v] = "UNUSED"}
      BY Zenon, <3>1, MinIn
    <3> QED BY Zenon, <3>2
  <2>2. state' = [state EXCEPT ![u] = "EMBRYO"] /\ UNCHANGED <<chan, parent, pc, cproc, wchan>>
    BY Zenon, <1>4 DEF forkalloc
  <2> HIDE DEF u
  <2> QED BY Zenon, <2>1, <2>2, FamilyMove DEF ProcState, IInv, TypeOK
<1>5. CASE forkfail(c)
  <2>1. PICK p \in Procs : /\ kpc[p] = "fork" /\ state' = [state EXCEPT ![np[p]] = "UNUSED"]
                           /\ UNCHANGED <<chan, parent, pc, cproc, wchan>>
    BY Zenon, <1>5 DEF forkfail, Runs
  <2>2. np[p] \in Procs /\ state[np[p]] = "EMBRYO"
    BY Zenon, <2>1 DEF IInv, ForkInv, TypeOK, Links
  <2> QED BY Zenon, <2>1, <2>2, FamilyMove DEF ProcState, IInv, TypeOK
<1> QED BY Zenon, <1>1, <1>2, <1>3, <1>4, <1>5

\* The end of the timer interrupt: yield() makes a RUNNING process RUNNABLE.
LEMMA FamilyQuantum ==
  ASSUME IInv, FamilyInv, NEW c \in CPUs, quantum(c)
  PROVE  FamilyInv'
<1>1. /\ pc[c] = "quantum" /\ pc' = [pc EXCEPT ![c] = "run"] /\ UNCHANGED <<chan, parent, wchan>>
      /\ \/ state' = state /\ cproc' = cproc
         \/ /\ cproc[c] # NULL /\ state' = [state EXCEPT ![cproc[c]] = "RUNNABLE"]
            /\ cproc' = [cproc EXCEPT ![c] = NULL]
  BY Zenon DEF quantum, yield, MakeRunnable, Goto
<1>2. \A d \in CPUs : pc[d] \in Exiting \/ pc'[d] \in Exiting =>
                        pc'[d] = pc[d] /\ cproc'[d] = cproc[d] /\ wchan' = wchan
  BY Zenon, <1>1 DEF IInv, TypeOK, Exiting
<1>3. CASE state' = state
  BY Zenon, <1>1, <1>2, <1>3, FamilyKept DEF Waits
<1>4. CASE cproc[c] # NULL /\ state' = [state EXCEPT ![cproc[c]] = "RUNNABLE"]
  <2>1. cproc[c] \in Procs
    BY Zenon, <1>4 DEF IInv, TypeOK, Links
  <2>2. state[cproc[c]] = "RUNNING"
    BY Zenon, <2>1, RunsRunning
  <2> QED BY Zenon, <1>1, <1>2, <1>4, <2>1, <2>2, FamilyMove DEF ProcState, IInv, TypeOK
<1> QED BY Zenon, <1>1, <1>3, <1>4

\* wakeup1(): a sleeper is made RUNNABLE; at the end of the loop nobody sleeps on
\* the channel, which exit() relies on.
LEMMA FamilyWakeup1 ==
  ASSUME IInv, FamilyInv, NEW c \in CPUs, wakeup1(c)
  PROVE  FamilyInv'
<1>1. pc[c] \in WakePc /\ UNCHANGED <<chan, parent, cproc>>
  BY Zenon DEF wakeup1, fields
<1>2. CASE Sleepers # {}
  <2> DEFINE p == Min(Sleepers)
  <2>1. p \in Procs /\ state[p] = "SLEEPING"
    <3>1. Sleepers \in SUBSET Nat
      BY DEF Sleepers, Procs
    <3>2. p \in Sleepers
      BY Zenon, <1>2, <3>1, MinIn
    <3> QED BY Zenon, <3>2 DEF Sleepers
  <2>2. state' = [state EXCEPT ![p] = "RUNNABLE"] /\ UNCHANGED <<pc, wchan>>
    BY Zenon, <1>2 DEF wakeup1, MakeRunnable
  <2> HIDE DEF p
  <2> QED BY Zenon, <1>1, <2>1, <2>2, FamilyMove DEF ProcState, IInv, TypeOK
<1>3. CASE Sleepers = {}
  <2>1. pc' = [pc EXCEPT ![c] = AfterWake[pc[c]]] /\ wchan' = NULL /\ state' = state
    BY Zenon, <1>3 DEF wakeup1, Goto
  <2>2. \A d \in CPUs \ {c} : pc'[d] = pc[d]
    BY Zenon, <2>1 DEF IInv, TypeOK
  <2>3. \A q \in Procs : q = wchan => ~Waits(q)
    BY Zenon, <1>3 DEF Sleepers, Waits
  <2>4. \A q : Waits(q)' = Waits(q) /\ Children(q)' = Children(q) /\ Zombies(Children(q))' = Zombies(Children(q))
    BY Zenon, <1>1, <2>1 DEF Waits, Children, Zombies
  <2>5. CASE pc[c] \in {"wakeup", "tickwake"}
    <3>1. \A d \in CPUs : pc[d] \notin Exiting
      BY Zenon, <2>5, NoExiter DEF LockPc, WakePc, Exiting
    <3>2. pc'[c] \in {"run", "quantum"}
      <4>1. pc'[c] = AfterWake[pc[c]]
        BY Zenon, <2>1 DEF IInv, TypeOK
      <4> QED BY <2>5, <4>1 DEF AfterWake
    <3>3. \A d \in CPUs : pc'[d] \notin Exiting
      BY Zenon, <2>2, <3>1, <3>2 DEF Exiting
    <3> QED BY Zenon, <1>1, <2>1, <2>4, <3>1, <3>3, FamilyKept
  <2>6. CASE pc[c] \in {"exitparent", "exitinit"}
    <3>1. lock = c /\ \A d \in CPUs \ {c} : pc'[d] \notin Exiting
      BY Zenon, <2>2, <2>6, ExiterHoldsLock DEF Exiting
    <3>2. pc'[c] = IF pc[c] = "exitparent" THEN "reparent" ELSE "zombie"
      <4>1. pc'[c] = AfterWake[pc[c]]
        BY Zenon, <2>1 DEF IInv, TypeOK
      <4> QED BY <2>6, <4>1 DEF AfterWake
    <3>3. /\ cproc[c] # initproc /\ parent[cproc[c]] \in Procs
          /\ pc[c] = "exitparent" => wchan = parent[cproc[c]]
          /\ pc[c] = "exitinit" =>
               wchan = initproc /\ ~Waits(parent[cproc[c]]) /\ Children(cproc[c]) = {}
      BY Zenon, <2>6, ExiterFacts DEF FamilyInv, ExitInv, Exiting
    <3>4. ~Waits(parent[cproc[c]])
      BY Zenon, <2>3, <2>6, <3>3
    <3>5. InitInv' /\ SlotInv' /\ ParentAlive'
      BY Zenon, <1>1, <2>1 DEF FamilyInv, InitInv, SlotInv, ParentAlive
    <3>6. ExitInv'
      <4> SUFFICES ASSUME NEW d \in CPUs, pc'[d] \in Exiting
                   PROVE  /\ cproc[d] # initproc
                          /\ pc'[d] \in {"reparent", "zombie"}
                          /\ ~Waits(parent[cproc[d]])
                          /\ pc'[d] = "zombie" => Children(cproc[d]) = {}
        <5>1. UNCHANGED <<state, chan, parent, cproc>>
          BY Zenon, <1>1, <2>1
        <5> QED BY Zenon, <5>1 DEF ExitInv, Exiting, Waits, Children
      <4>1. d = c
        BY Zenon, <3>1
      <4> QED BY Zenon, <2>6, <3>2, <3>3, <3>4, <4>1
    <3>7. WaitInv'
      <4> SUFFICES ASSUME NEW p \in Procs, Waits(p)
                   PROVE  Children(p) # {} /\ Zombies(Children(p)) = {}
        <5>1. UNCHANGED <<state, chan, parent, cproc>>
          BY Zenon, <1>1, <2>1
        <5> QED BY Zenon, <5>1 DEF WaitInv, Waits, Children, Zombies
      <4>1. CASE pc[c] = "exitinit"
        BY Zenon, <2>3, <3>3, <4>1 DEF FamilyInv, WaitInv
      <4>2. CASE pc[c] = "exitparent"
        <5>1. \A d \in CPUs : pc[d] # "exitinit"
          BY Zenon, <2>2, <3>1, <4>2 DEF Exiting
        <5> QED BY Zenon, <5>1 DEF FamilyInv, WaitInv
      <4> QED BY Zenon, <2>6, <4>1, <4>2
    <3> QED BY Zenon, <3>5, <3>6, <3>7 DEF FamilyInv
  <2> QED BY Zenon, <1>1, <2>5, <2>6 DEF WakePc
<1> QED BY Zenon, <1>2, <1>3

\* exit() up to its first wakeup1().
LEMMA FamilyExit ==
  ASSUME IInv, FamilyInv, NEW c \in CPUs, exit(c)
  PROVE  FamilyInv'
<1>1. UNCHANGED <<state, chan, parent, cproc>>
  BY Zenon DEF exit, fields
<1>2. PICK p \in Procs :
        /\ pc[c] = "run" /\ cproc[c] = p
        /\ \/ pc' = [pc EXCEPT ![c] = "panic"] /\ wchan' = wchan
           \/ /\ p # initproc /\ lock = NOCPU
              /\ pc' = [pc EXCEPT ![c] = "exitparent"] /\ wchan' = parent[p]
  BY Zenon DEF exit, Runs, Goto, Awaiter
<1>3. CASE pc' = [pc EXCEPT ![c] = "panic"] /\ wchan' = wchan
  <2>1. \A d \in CPUs : pc[d] \in Exiting \/ pc'[d] \in Exiting =>
                          pc'[d] = pc[d] /\ cproc'[d] = cproc[d] /\ wchan' = wchan
    BY Zenon, <1>1, <1>2, <1>3 DEF IInv, TypeOK, Exiting
  <2> QED BY Zenon, <1>1, <2>1, FamilyKept DEF Waits
<1>4. CASE /\ p # initproc /\ lock = NOCPU
           /\ pc' = [pc EXCEPT ![c] = "exitparent"] /\ wchan' = parent[p]
  <2>1. pc'[c] = "exitparent" /\ \A d \in CPUs \ {c} : pc'[d] = pc[d]
    BY Zenon, <1>4 DEF IInv, TypeOK
  <2>2. \A d \in CPUs : pc[d] \notin Exiting
    BY Zenon, <1>4, NoExiter
  <2>3. InitInv' /\ SlotInv' /\ ParentAlive'
    BY Zenon, <1>1 DEF FamilyInv, InitInv, SlotInv, ParentAlive
  <2>4. ExitInv'
    BY Zenon, <1>1, <1>2, <1>4, <2>1, <2>2 DEF ExitInv, Exiting
  <2>5. WaitInv'
    <3> SUFFICES ASSUME NEW q \in Procs, Waits(q)
                 PROVE  Children(q) # {} /\ Zombies(Children(q)) = {}
      BY Zenon, <1>1 DEF WaitInv, Waits, Children, Zombies
    <3> QED BY Zenon, <2>2 DEF FamilyInv, WaitInv, Exiting
  <2> QED BY Zenon, <2>3, <2>4, <2>5 DEF FamilyInv
<1> QED BY Zenon, <1>2, <1>3, <1>4

\* The loop of exit() passes every child on to init, which is woken for a ZOMBIE.
LEMMA FamilyReparent ==
  ASSUME IInv, FamilyInv, NEW c \in CPUs, reparent(c)
  PROVE  FamilyInv'
<1> DEFINE q == cproc[c]
<1>1. /\ pc[c] = "reparent" /\ UNCHANGED <<state, chan, cproc>>
      /\ parent' = [k \in Procs |-> IF parent[k] = q THEN initproc ELSE parent[k]]
      /\ IF WakeInit(q) THEN pc' = [pc EXCEPT ![c] = "exitinit"] /\ wchan' = initproc
                        ELSE pc' = [pc EXCEPT ![c] = "zombie"]
  BY Zenon DEF reparent, PassToInit, Goto
<1>2. /\ q \in Procs /\ q # initproc /\ state[q] = "RUNNING"
      /\ parent[q] \in Procs /\ parent[q] # q /\ ~Waits(parent[q])
  BY Zenon, <1>1, ExiterFacts DEF FamilyInv, ExitInv, Exiting
<1> HIDE DEF q
<1>3. /\ \A d \in CPUs \ {c} : pc'[d] = pc[d]
      /\ pc'[c] = IF WakeInit(q) THEN "exitinit" ELSE "zombie"
  BY Zenon, <1>1 DEF IInv, TypeOK
<1>4. \A d \in CPUs : d # c => pc[d] \notin Exiting /\ pc'[d] \notin Exiting
  <2>1. lock = c
    BY Zenon, <1>1, ExiterHoldsLock DEF Exiting
  <2> QED BY Zenon, <1>3, <2>1, ExiterHoldsLock
<1>5. q # NULL /\ initproc # NULL /\ initproc \in Procs
  BY Zenon, <1>2, InitProc, NullNotProc
<1>6. InitInv'
  BY Zenon, <1>1, <1>5 DEF FamilyInv, InitInv
<1>7. SlotInv'
  <2>1. \A k \in Procs : parent[k] = q => k # initproc /\ state[k] \notin {"UNUSED", "EMBRYO"}
    BY Zenon, <1>5 DEF FamilyInv, InitInv, SlotInv
  <2> QED BY Zenon, <1>1, <2>1 DEF FamilyInv, SlotInv
<1>8. ParentAlive'
  BY Zenon, <1>1, <1>5 DEF FamilyInv, InitInv, ParentAlive
<1>9. ExitInv'
  <2>1. ~Waits(parent[q])'
    <3>1. parent'[q'] = parent[q]
      BY Zenon, <1>1, <1>2 DEF q
    <3> QED BY Zenon, <1>1, <1>2, <3>1 DEF Waits
  <2>2. \A k \in Procs : parent'[k] # q
    BY Zenon, <1>1, <1>2
  <2>3. Children(q)' = {}
    BY Zenon, <1>1, <2>2 DEF Children, q
  <2> SUFFICES ASSUME NEW d \in CPUs, pc'[d] \in Exiting
               PROVE  /\ cproc'[d] # initproc
                      /\ pc'[d] \in {"exitinit", "zombie"}
                      /\ ~Waits(parent[cproc[d]])'
                      /\ pc'[d] = "exitinit" => wchan' = initproc
                      /\ Children(cproc[d])' = {}
    BY Zenon DEF ExitInv, Exiting
  <2>4. d = c
    BY Zenon, <1>4
  <2> QED BY Zenon, <1>1, <1>2, <1>3, <2>1, <2>3, <2>4 DEF q
<1>10. WaitInv'
  <2> SUFFICES ASSUME NEW p \in Procs, Waits(p)
               PROVE  /\ Children(p)' # {}
                      /\ Zombies(Children(p))' = {} \/ (p = initproc /\ \E d \in CPUs : pc'[d] = "exitinit")
    BY Zenon, <1>1 DEF WaitInv, Waits
  <2>1. Children(p) # {} /\ Zombies(Children(p)) = {}
    BY Zenon, <1>1, <1>4 DEF FamilyInv, WaitInv, Exiting
  <2>2. p # q
    BY Zenon, <1>2 DEF Waits
  <2>3. \A k \in Procs : parent'[k] = p <=> parent[k] = p \/ (p = initproc /\ parent[k] = q)
    BY Zenon, <1>1, <2>2
  <2>4. Children(p)' # {}
    BY Zenon, <2>1, <2>3 DEF Children
  <2>5. CASE p # initproc
    BY Zenon, <1>1, <2>1, <2>3, <2>4, <2>5 DEF Children, Zombies
  <2>6. CASE p = initproc /\ WakeInit(q)
    BY Zenon, <1>3, <2>4, <2>6
  <2>7. CASE p = initproc /\ ~WakeInit(q)
    <3>1. \A k \in Procs : parent[k] = q \/ parent[k] = p => state[k] # "ZOMBIE"
      BY Zenon, <2>1, <2>7 DEF WakeInit, Zombies, Children
    <3>2. Zombies(Children(p))' = {}
      BY Zenon, <1>1, <2>3, <3>1 DEF Zombies, Children
    <3> QED BY Zenon, <2>4, <3>2
  <2> QED BY Zenon, <2>5, <2>6, <2>7
<1> QED BY Zenon, <1>6, <1>7, <1>8, <1>9, <1>10 DEF FamilyInv

\* The end of exit(): the process is a ZOMBIE with no children, and its parent is
\* not asleep in wait().
LEMMA FamilyZombie ==
  ASSUME IInv, FamilyInv, NEW c \in CPUs, zombie(c)
  PROVE  FamilyInv'
<1> DEFINE q == cproc[c]
<1>1. /\ pc[c] = "zombie" /\ state' = [state EXCEPT ![q] = "ZOMBIE"]
      /\ pc' = [pc EXCEPT ![c] = "run"] /\ UNCHANGED <<chan, parent>>
  BY Zenon DEF zombie, Goto, fields
<1>2. /\ q \in Procs /\ q # initproc /\ state[q] = "RUNNING"
      /\ parent[q] \in Procs /\ parent[q] # q /\ ~Waits(parent[q]) /\ Children(q) = {}
  BY Zenon, <1>1, ExiterFacts DEF FamilyInv, ExitInv, Exiting
<1> HIDE DEF q
<1>3. state'[q] = "ZOMBIE" /\ \A p \in Procs \ {q} : state'[p] = state[p]
  BY Zenon, <1>1, <1>2 DEF IInv, TypeOK
<1>4. \A d \in CPUs : pc'[d] \notin Exiting /\ pc[d] # "exitinit"
  <2>1. lock = c
    BY Zenon, <1>1, ExiterHoldsLock DEF Exiting
  <2>2. \A d \in CPUs : d # c => pc[d] \notin Exiting
    BY Zenon, <2>1, ExiterHoldsLock
  <2> QED BY Zenon, <1>1, <2>2 DEF Exiting, IInv, TypeOK
<1>5. InitInv' /\ SlotInv' /\ ExitInv'
  BY Zenon, <1>1, <1>2, <1>3, <1>4, InitProc DEF FamilyInv, InitInv, SlotInv, ExitInv, Exiting
<1>6. ParentAlive'
  <2> SUFFICES ASSUME NEW p \in Procs \ {initproc}, state'[p] \notin {"UNUSED", "EMBRYO"}
               PROVE  /\ parent[p] # NULL
                      /\ state'[parent[p]] \notin {"UNUSED", "EMBRYO", "ZOMBIE"}
    BY Zenon, <1>1 DEF ParentAlive
  <2>1. parent[p] # NULL /\ state[parent[p]] \notin {"UNUSED", "EMBRYO", "ZOMBIE"}
    BY Zenon, <1>2, <1>3 DEF FamilyInv, ParentAlive
  <2>2. parent[p] \in Procs
    BY Zenon, <2>1 DEF IInv, TypeOK, Links
  <2>3. parent[p] # q
    BY Zenon, <1>2 DEF Children
  <2> QED BY Zenon, <1>3, <2>1, <2>2, <2>3
<1>7. WaitInv'
  <2> SUFFICES ASSUME NEW p \in Procs, Waits(p)'
               PROVE  Children(p)' # {} /\ Zombies(Children(p))' = {}
    BY Zenon DEF WaitInv
  <2>1. Waits(p)
    BY Zenon, <1>1, <1>3 DEF Waits
  <2>2. Children(p) # {} /\ Zombies(Children(p)) = {}
    BY Zenon, <1>4, <2>1 DEF FamilyInv, WaitInv
  <2>3. q \notin Children(p)
    BY Zenon, <1>2, <2>1 DEF Children
  <2>4. Children(p)' = Children(p)
    BY Zenon, <1>1 DEF Children
  <2> QED BY Zenon, <1>3, <2>2, <2>3, <2>4 DEF Zombies, Children
<1> QED BY Zenon, <1>5, <1>6, <1>7 DEF FamilyInv

\* wait(): a ZOMBIE is collected, there is nothing to wait for, or the process
\* sleeps with the lock held since it looked.
LEMMA FamilyWait ==
  ASSUME IInv, FamilyInv, NEW c \in CPUs, wait(c)
  PROVE  FamilyInv'
<1>1. PICK p \in Procs : waitscan(c, p)
  BY Zenon DEF wait
<1>2. /\ cproc[c] = p /\ (lock = NOCPU \/ pc[c] = "wait") /\ pc[c] \in {"run", "wait"}
      /\ pc' = [pc EXCEPT ![c] = "run"] /\ wchan' = wchan
  BY ZenonT(30), <1>1 DEF waitscan, Goto, Runs
<1>3. state[p] = "RUNNING"
  BY Zenon, <1>2, RunsRunning
<1>4. \A d \in CPUs : pc[d] \notin Exiting /\ pc'[d] \notin Exiting
  <2>1. \A d \in CPUs : pc[d] \notin Exiting
    BY Zenon, <1>2, NoExiter DEF LockPc, Exiting
  <2> QED BY Zenon, <1>2, <2>1 DEF IInv, TypeOK, Exiting
<1>5. CASE UNCHANGED <<state, parent, chan>>
  BY Zenon, <1>4, <1>5, FamilyKept DEF Waits
<1>6. CASE /\ Zombies(Children(p)) = {} /\ Children(p) # {} /\ GoToSleep(c, p, p)
           /\ parent' = parent
  <2>1. MayWait(p)
    BY Zenon, <1>4, <1>6 DEF MayWait
  <2>2. /\ state' = [state EXCEPT ![p] = "SLEEPING"]
        /\ chan' \in [Procs -> Chans \cup Links] /\ \A r \in Procs \ {p} : chan'[r] = chan[r]
    BY Zenon, <1>6 DEF GoToSleep, IInv, TypeOK, Links
  <2> QED BY Zenon, <1>3, <1>4, <1>6, <2>1, <2>2, FamilyMove DEF ProcState
<1>7. CASE /\ Zombies(Children(p)) # {}
           /\ LET k == Min(Zombies(Children(p)))
              IN parent' = [parent EXCEPT ![k] = NULL] /\ state' = [state EXCEPT ![k] = "UNUSED"]
           /\ chan' = chan
  <2> DEFINE k == Min(Zombies(Children(p)))
  <2>1. k \in Procs /\ state[k] = "ZOMBIE" /\ parent[k] = p
    <3>1. Zombies(Children(p)) \in SUBSET Nat
      BY DEF Zombies, Children, Procs
    <3>2. k \in Zombies(Children(p))
      BY Zenon, <1>7, <3>1, MinIn
    <3> QED BY Zenon, <3>2 DEF Zombies, Children
  <2>2. parent' = [parent EXCEPT ![k] = NULL] /\ state' = [state EXCEPT ![k] = "UNUSED"]
    BY Zenon, <1>7
  <2> HIDE DEF k
  <2>3. /\ state'[k] = "UNUSED" /\ parent'[k] = NULL
        /\ \A r \in Procs \ {k} : state'[r] = state[r] /\ parent'[r] = parent[r]
    BY Zenon, <2>1, <2>2 DEF IInv, TypeOK
  <2>4. InitInv' /\ SlotInv' /\ ExitInv'
    BY <1>4, <2>1, <2>3, InitProc, NullNotProc DEF FamilyInv, InitInv, SlotInv, ExitInv, Exiting
  <2>5. ParentAlive'
    <3> SUFFICES ASSUME NEW r \in Procs \ {initproc}, state'[r] \notin {"UNUSED", "EMBRYO"}
                 PROVE  /\ parent'[r] # NULL
                        /\ state'[parent'[r]] \notin {"UNUSED", "EMBRYO", "ZOMBIE"}
      BY Zenon DEF ParentAlive
    <3>1. r # k /\ parent'[r] = parent[r] /\ state[r] \notin {"UNUSED", "EMBRYO"}
      BY Zenon, <2>3
    <3>2. parent[r] # NULL /\ state[parent[r]] \notin {"UNUSED", "EMBRYO", "ZOMBIE"}
      BY ZenonT(30), <3>1 DEF FamilyInv, ParentAlive
    <3>3. parent[r] \in Procs /\ parent[r] # k
      BY Zenon, <2>1, <3>2 DEF IInv, TypeOK, Links
    <3> QED BY Zenon, <2>3, <3>1, <3>2, <3>3
  <2>6. WaitInv'
    <3> SUFFICES ASSUME NEW r \in Procs, Waits(r)'
                 PROVE  Children(r)' # {} /\ Zombies(Children(r))' = {}
      BY Zenon DEF WaitInv
    <3>1. Waits(r) /\ r # k /\ r # p
      BY Zenon, <1>3, <1>7, <2>1, <2>3 DEF Waits
    <3>2. Children(r) # {} /\ Zombies(Children(r)) = {}
      BY Zenon, <1>4, <3>1 DEF FamilyInv, WaitInv, Exiting
    <3>3. Children(r)' = Children(r) /\ k \notin Children(r)
      BY Zenon, <2>1, <2>3, <3>1, NullNotProc DEF Children
    <3> QED BY Zenon, <2>3, <3>2, <3>3 DEF Zombies, Children
  <2> QED BY Zenon, <2>4, <2>5, <2>6 DEF FamilyInv
<1> QED BY Zenon, <1>1, <1>5, <1>6, <1>7 DEF waitscan

\* fork() ends: the child gets its parent, which runs.
LEMMA FamilyForkDone ==
  ASSUME IInv, FamilyInv, NEW c \in CPUs, forkdone(c)
  PROVE  FamilyInv'
<1>1. PICK p \in Procs :
        /\ lock = NOCPU /\ cproc[c] = p /\ kpc[p] = "fork"
        /\ parent' = [parent EXCEPT ![np[p]] = p]
        /\ state' = [state EXCEPT ![np[p]] = "RUNNABLE"]
        /\ UNCHANGED <<chan, pc, cproc>>
  BY ZenonT(30) DEF forkdone, Free, Runs, MakeRunnable
<1> DEFINE u == np[p]
<1>2. u \in Procs /\ state[u] = "EMBRYO" /\ state[p] = "RUNNING"
  BY <1>1, RunsRunning DEF IInv, ForkInv, TypeOK, Links
<1>3. parent' = [parent EXCEPT ![u] = p] /\ state' = [state EXCEPT ![u] = "RUNNABLE"]
  BY Zenon, <1>1
<1> HIDE DEF u
<1>4. /\ state'[u] = "RUNNABLE" /\ parent'[u] = p
      /\ \A r \in Procs \ {u} : state'[r] = state[r] /\ parent'[r] = parent[r]
  BY Zenon, <1>2, <1>3 DEF IInv, TypeOK
<1>5. \A d \in CPUs : pc[d] \notin Exiting /\ pc'[d] \notin Exiting
  BY Zenon, <1>1, NoExiter
<1>6. InitInv' /\ SlotInv' /\ ExitInv'
  BY ZenonT(30), <1>2, <1>4, <1>5, InitProc DEF FamilyInv, InitInv, SlotInv, ExitInv, Exiting
<1>7. ParentAlive'
  <2> SUFFICES ASSUME NEW r \in Procs \ {initproc}, state'[r] \notin {"UNUSED", "EMBRYO"}
               PROVE  /\ parent'[r] # NULL
                      /\ state'[parent'[r]] \notin {"UNUSED", "EMBRYO", "ZOMBIE"}
    BY Zenon DEF ParentAlive
  <2>1. CASE r = u
    BY Zenon, <1>2, <1>4, <2>1, NullNotProc
  <2>2. CASE r # u
    <3>1. parent'[r] = parent[r] /\ state[r] \notin {"UNUSED", "EMBRYO"}
      BY Zenon, <1>4, <2>2
    <3>2. parent[r] # NULL /\ state[parent[r]] \notin {"UNUSED", "EMBRYO", "ZOMBIE"}
      BY Zenon, <3>1 DEF FamilyInv, ParentAlive
    <3>3. parent[r] \in Procs /\ parent[r] # u
      BY Zenon, <1>2, <3>2 DEF IInv, TypeOK, Links
    <3> QED BY Zenon, <1>4, <3>1, <3>2, <3>3
  <2> QED BY Zenon, <2>1, <2>2
<1>8. WaitInv'
  <2> SUFFICES ASSUME NEW r \in Procs, Waits(r)'
               PROVE  Children(r)' # {} /\ Zombies(Children(r))' = {}
    BY Zenon DEF WaitInv
  <2>1. Waits(r) /\ r # u /\ r # p
    BY <1>1, <1>2, <1>4 DEF Waits
  <2>2. Children(r) # {} /\ Zombies(Children(r)) = {}
    BY Zenon, <1>5, <2>1 DEF FamilyInv, WaitInv, Exiting
  <2>3. Children(r)' = Children(r) /\ u \notin Children(r)
    BY <1>2, <1>4, <2>1, NullNotProc DEF Children, FamilyInv, SlotInv
  <2> QED BY Zenon, <1>4, <2>2, <2>3 DEF Zombies, Children
<1> QED BY Zenon, <1>6, <1>7, <1>8 DEF FamilyInv

\* userinit() starts with init alone.
LEMMA FamilyInit == Init => FamilyInv
<1> SUFFICES ASSUME Init PROVE FamilyInv
  OBVIOUS
<1>1. InitInv
  BY Zenon, InitProc DEF Init, InitInv
<1>2. SlotInv /\ ParentAlive
  BY Zenon, NullNotProc DEF Init, SlotInv, ParentAlive
<1>3. ExitInv
  BY Zenon DEF Init, ExitInv, Exiting
<1>4. WaitInv
  BY Zenon DEF Init, WaitInv, Waits
<1> QED BY Zenon, <1>1, <1>2, <1>3, <1>4 DEF FamilyInv

\* Every step of the process table keeps the families.
LEMMA FamilyNext == IInv /\ FamilyInv /\ [Next]_vars => FamilyInv'
<1> SUFFICES ASSUME IInv, FamilyInv, [Next]_vars PROVE FamilyInv'
  OBVIOUS
<1>1. CASE UNCHANGED vars
  BY Zenon, <1>1, FamilyKept DEF vars, Waits
<1>2. CASE Next
  <2>1. PICK c \in CPUs :
          \/ scheduler(c) \/ wakeup1(c) \/ reparent(c) \/ zombie(c) \/ wait(c)
          \/ sysenter(c) \/ sysexit(c) \/ userfault(c) \/ exit(c)
          \/ forkalloc(c) \/ forkfail(c) \/ forkdone(c)
          \/ tick(c) \/ agingbegin(c) \/ aging(c) \/ tickwake(c) \/ quantum(c)
          \/ \E ch \in Chans : sleep(c, ch) \/ wakeup(c, ch)
          \/ \E q \in Procs : kill(c, q)
          \/ \E inc \in Int : setnice(c, inc)
    <3>1. (1 - PLEVELS) .. (PLEVELS - 1) \subseteq Int
      BY SizesAssumption
    <3> QED
      BY Zenon, <1>2, <3>1 DEF Next
  <2> QED
    BY ZenonT(30), <2>1, FamilyQuiet, FamilySwitch, FamilyQuantum, FamilyWakeup1, FamilyExit,
       FamilyReparent, FamilyZombie, FamilyWait, FamilyForkDone
<1> QED
  BY Zenon, <1>1, <1>2

\* The inductive invariant and the families hold in every reachable state.
THEOREM Families == Spec => [](IInv /\ FamilyInv)
<1>1. Init => IInv /\ FamilyInv
  BY Zenon, InitIInv, FamilyInit
<1>2. IInv /\ FamilyInv /\ [Next]_vars => IInv' /\ FamilyInv'
  BY Zenon, NextIInv, FamilyNext
<1> QED
  BY <1>1, <1>2, PTL DEF Spec

\* exit() wakes the parent and, when it passes a ZOMBIE child on, init: whenever
\* ptable.lock is free, who sleeps in wait() has children and none of them is a
\* ZOMBIE yet.
THEOREM ExitsSeen == Spec => []NoMissedExit
<1>1. IInv /\ FamilyInv => NoMissedExit
  <2> SUFFICES ASSUME IInv, FamilyInv, lock = NOCPU, NEW p \in Procs, Waits(p)
               PROVE  Children(p) # {} /\ Zombies(Children(p)) = {}
    BY Zenon DEF NoMissedExit, Waits
  <2>1. \A d \in CPUs : pc[d] # "exitinit"
    BY Zenon, NoExiter, CpuFacts DEF Exiting
  <2> QED
    BY Zenon, <2>1 DEF FamilyInv, WaitInv
<1> QED
  BY <1>1, Families, PTL

\* exit() passes its children to init before it becomes a ZOMBIE, and init never
\* exits: every process but init has a parent that can still wait() for it.
THEOREM NoOrphans == Spec => []ParentAlive
<1>1. FamilyInv => ParentAlive
  BY Zenon DEF FamilyInv
<1> QED
  BY <1>1, Families, PTL
=============================================================================
