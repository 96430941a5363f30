----------------------------- MODULE CowMemory ------------------------------
(***************************************************************************)
(* User memory: the page allocator with its reference counts (kalloc.c),   *)
(* copy-on-write fork and page faults (vm.c), and the calls that create,   *)
(* change and give up address spaces (fork, exec, sbrk, exit, wait).       *)
(*                                                                         *)
(* Page directories belong to one process or one call, so a step that      *)
(* changes only a directory is joined to its neighbour; what is shared are *)
(* the frames, the free list and the counts.  refcount() is read without   *)
(* kmem.lock, so reading it and acting on it are two actions.              *)
(*                                                                         *)
(* Page tables and kernel stacks have no frames here; that there is no     *)
(* memory for them is a choice.  A process keeps its first page.           *)
(***************************************************************************)
EXTENDS Integers, FiniteSets, FiniteSetsExt

CONSTANTS Procs, NOPROC,
          INITPROC,        \* the first process, which never exits
          Frames, NOFRAME,
          NPAGES,          \* pages of an address space
          Values, ZERO,    \* contents of a page; those of a new one
          JUNK             \* what kfree() fills a frame with

ASSUME MemAssumption ==
  /\ INITPROC \in Procs /\ NOPROC \notin Procs
  /\ Frames # {} /\ NOFRAME \notin Frames
  /\ NPAGES \in Nat \ {0}
  /\ ZERO \in Values /\ JUNK \notin Values /\ NOFRAME \notin Values \cup {JUNK}
  /\ IsFiniteSet(Procs) /\ Cardinality(Procs) =< 64   \* NPROC

Pages == 0 .. (NPAGES - 1)

VARIABLES
  free,       \* kmem.freelist
  refs,       \* kmem.cow_reference_count
  data,       \* the contents of the frames
  map,        \* map[p][g]: the frame of page g of process p
  writable,   \* writable[p]: the pages with PTE_W
  dir,        \* the directory that p's call builds (fork, exec) or gives up
  pc,
  page,       \* the page that p's call or fault is about
  frame,      \* the frame that handlepgflt() has replaced
  child,      \* the process that p's fork() builds or its wait() collects
  parent,
  lock        \* the process that holds ptable.lock in wait()

kmem == <<free, refs, data>>
spaces == <<map, writable>>
call == <<page, frame, child>>
family == <<parent, lock>>
vars == <<free, refs, data, map, writable, dir, pc, page, frame, child, parent, lock>>

Pc == {"unused", "embryo", "zombie", "user",
       "own", "copy", "decref",          \* in handlepgflt()
       "fork", "incref",                 \* in cowuvm()
       "exec",
       "free", "kfree", "drop"}          \* in deallocuvm()

Directory == [Pages -> Frames \cup {NOFRAME}]
NoPages == [g \in Pages |-> NOFRAME]
Present(d) == {g \in Pages : d[g] # NOFRAME}

TypeOK ==
  /\ free \in SUBSET Frames
  /\ refs \in [Frames -> 0 .. 255]
  /\ data \in [Frames -> Values \cup {JUNK}]
  /\ map \in [Procs -> Directory]
  /\ writable \in [Procs -> SUBSET Pages]
  /\ dir \in [Procs -> Directory]
  /\ pc \in [Procs -> Pc]
  /\ page \in [Procs -> 0 .. NPAGES]
  /\ frame \in [Procs -> Frames \cup {NOFRAME}]
  /\ child \in [Procs -> Procs \cup {NOPROC}]
  /\ parent \in [Procs -> Procs \cup {NOPROC}]
  /\ lock \in Procs \cup {NOPROC}

\* The first process has one page.
Init ==
  \E f \in Frames :
    /\ free = Frames \ {f}
    /\ refs = [x \in Frames |-> IF x = f THEN 1 ELSE 0]
    /\ data = [x \in Frames |-> IF x = f THEN ZERO ELSE JUNK]
    /\ map = [p \in Procs |-> IF p = INITPROC THEN [NoPages EXCEPT ![0] = f] ELSE NoPages]
    /\ writable = [p \in Procs |-> IF p = INITPROC THEN {0} ELSE {}]
    /\ dir = [p \in Procs |-> NoPages]
    /\ pc = [p \in Procs |-> IF p = INITPROC THEN "user" ELSE "unused"]
    /\ page = [p \in Procs |-> 0]
    /\ frame = [p \in Procs |-> NOFRAME]
    /\ child = [p \in Procs |-> NOPROC]
    /\ parent = [p \in Procs |-> NOPROC]
    /\ lock = NOPROC

Goto(p, l) == pc' = [pc EXCEPT ![p] = l]

\* To user space; the locals of the call are gone.
Return(p) == Goto(p, "user") /\ page' = [page EXCEPT ![p] = 0]

-----------------------------------------------------------------------------
(* The allocator, under kmem.lock.                                         *)

\* kalloc() returns f, and the caller fills it with v.
kalloc(f, v) ==
  /\ f \in free
  /\ free' = free \ {f}
  /\ refs' = [refs EXCEPT ![f] = 1]
  /\ data' = [data EXCEPT ![f] = v]

kfree(f) ==
  /\ free' = free \cup {f}
  /\ refs' = [refs EXCEPT ![f] = 0]
  /\ data' = [data EXCEPT ![f] = JUNK]

\* Mutant: the child's reference is not counted.
incref_Not(f) == UNCHANGED kmem

\* The counts are unsigned char.
incref(f) ==
  /\ refs' = [refs EXCEPT ![f] = (@ + 1) % 256]
  /\ UNCHANGED <<free, data>>

decref(f) ==
  /\ refs' = [refs EXCEPT ![f] = (@ - 1) % 256]
  /\ UNCHANGED <<free, data>>

-----------------------------------------------------------------------------
(* User code and page faults.                                              *)

store(p, g, v) ==
  /\ pc[p] = "user" /\ g \in writable[p]
  /\ data' = [data EXCEPT ![map[p][g]] = v]
  /\ UNCHANGED <<free, refs, spaces, dir, pc, call, family>>

\* Mutant: a page shared by two counts as the process's own.
Shared_Many(f) == refs[f] > 2

Shared(f) == refs[f] > 1

\* handlepgflt() for a write to a page without PTE_W: refcount().
handlepgflt(p, g) ==
  /\ pc[p] = "user" /\ g \in Present(map[p]) \ writable[p]
  /\ page' = [page EXCEPT ![p] = g]
  /\ Goto(p, IF Shared(map[p][g]) THEN "copy" ELSE "own")
  /\ UNCHANGED <<kmem, spaces, dir, frame, child, family>>

pgflt_own(p) ==
  /\ pc[p] = "own"
  /\ writable' = [writable EXCEPT ![p] = @ \cup {page[p]}]
  /\ Return(p)
  /\ UNCHANGED <<kmem, map, dir, frame, child, family>>

\* Without memory the process is marked killed and faults again, until a timer
\* interrupt ends it (exit).
pgflt_copy(p) ==
  /\ pc[p] = "copy"
  /\ LET g == page[p]
         v == map[p][g]
     IN \/ \E f \in free :
             /\ kalloc(f, data[v])
             /\ map' = [map EXCEPT ![p][g] = f]
             /\ writable' = [writable EXCEPT ![p] = @ \cup {g}]
             /\ frame' = [frame EXCEPT ![p] = v]
             /\ Goto(p, "decref") /\ UNCHANGED page
        \/ /\ free = {}
           /\ Return(p)
           /\ UNCHANGED <<kmem, spaces, frame>>
  /\ UNCHANGED <<dir, child, family>>

pgflt_decref(p) ==
  /\ pc[p] = "decref"
  /\ decref(frame[p])
  /\ frame' = [frame EXCEPT ![p] = NOFRAME]
  /\ Return(p)
  /\ UNCHANGED <<spaces, dir, child, family>>

-----------------------------------------------------------------------------
(* fork(): cowuvm().                                                       *)

fork(p, c) ==
  /\ pc[p] = "user" /\ pc[c] = "unused" /\ lock = NOPROC
  /\ pc' = [pc EXCEPT ![p] = "fork", ![c] = "embryo"]
  /\ child' = [child EXCEPT ![p] = c]
  /\ UNCHANGED <<kmem, spaces, dir, page, frame, family>>

Size(p) == Cardinality(Present(map[p]))

\* Mutant: the parent keeps its write permission.
Protected_Not(p) == writable

Protected(p) == [writable EXCEPT ![p] = @ \ {page[p]}]

\* One page of the parent is mapped into the child, or there is no memory for
\* the child's page table and cowuvm() gives the child's directory up.
cow_map(p) ==
  /\ pc[p] = "fork" /\ page[p] < Size(p)
  /\ writable' = Protected(p)
  /\ \/ /\ dir' = [dir EXCEPT ![p][page[p]] = map[p][page[p]]]
        /\ Goto(p, "incref")
     \/ /\ Goto(p, "free")
        /\ UNCHANGED dir
  /\ UNCHANGED <<kmem, map, call, family>>

cow_incref(p) ==
  /\ pc[p] = "incref"
  /\ incref(dir[p][page[p]])
  /\ page' = [page EXCEPT ![p] = @ + 1]
  /\ Goto(p, "fork")
  /\ UNCHANGED <<spaces, dir, frame, child, family>>

\* The end of fork(): the child runs.
fork_done(p) ==
  /\ pc[p] = "fork" /\ page[p] = Size(p) /\ lock = NOPROC
  /\ parent' = [parent EXCEPT ![child[p]] = p]
  /\ map' = [map EXCEPT ![child[p]] = dir[p]]
  /\ dir' = [dir EXCEPT ![p] = NoPages]
  /\ pc' = [pc EXCEPT ![p] = "user", ![child[p]] = "user"]
  /\ child' = [child EXCEPT ![p] = NOPROC]
  /\ page' = [page EXCEPT ![p] = 0]
  /\ UNCHANGED <<kmem, writable, frame, lock>>

-----------------------------------------------------------------------------
(* sbrk(), exec(), exit() and wait().                                      *)

\* The test of newsz against KERNBASE.
Room(p) == Size(p) < NPAGES

\* growproc(): allocuvm() of one page.
sbrk_grow(p, f) ==
  /\ pc[p] = "user" /\ Room(p)
  /\ kalloc(f, ZERO)
  /\ map' = [map EXCEPT ![p][Size(p)] = f]
  /\ writable' = [writable EXCEPT ![p] = @ \cup {Size(p)}]
  /\ UNCHANGED <<dir, pc, call, family>>

\* growproc(): deallocuvm() of one page.
sbrk_shrink(p) ==
  /\ pc[p] = "user" /\ Size(p) > 1
  /\ LET g == Size(p) - 1
     IN /\ dir' = [dir EXCEPT ![p][g] = map[p][g]]
        /\ map' = [map EXCEPT ![p][g] = NOFRAME]
        /\ writable' = [writable EXCEPT ![p] = @ \ {g}]
  /\ Goto(p, "free")
  /\ UNCHANGED <<kmem, call, family>>

\* exec(): allocuvm() and loaduvm() of one page of an image that holds v.
exec(p, f, v) ==
  /\ pc[p] \in {"user", "exec"} /\ page[p] < NPAGES
  /\ page[p] > 0 => v = data[dir[p][0]]
  /\ kalloc(f, v)
  /\ dir' = [dir EXCEPT ![p][page[p]] = f]
  /\ page' = [page EXCEPT ![p] = @ + 1]
  /\ Goto(p, "exec")
  /\ UNCHANGED <<spaces, frame, child, family>>

\* No memory, or no proper file.
exec_bad(p) ==
  /\ pc[p] = "exec"
  /\ Goto(p, "free") /\ page' = [page EXCEPT ![p] = 0]
  /\ UNCHANGED <<kmem, spaces, dir, frame, child, family>>

\* The process gets the new image, and its old directory is given up.
exec_commit(p) ==
  /\ pc[p] = "exec"
  /\ map' = [map EXCEPT ![p] = dir[p]]
  /\ writable' = [writable EXCEPT ![p] = Present(dir[p])]
  /\ dir' = [dir EXCEPT ![p] = map[p]]
  /\ Goto(p, "free") /\ page' = [page EXCEPT ![p] = 0]
  /\ UNCHANGED <<kmem, frame, child, family>>

\* ptable.lock is needed to pass the children to init.
exit(p) ==
  /\ pc[p] = "user" /\ p # INITPROC /\ lock = NOPROC
  /\ parent' = [q \in Procs |-> IF parent[q] = p THEN INITPROC ELSE parent[q]]
  /\ Goto(p, "zombie")
  /\ UNCHANGED <<kmem, spaces, dir, call, lock>>

\* wait() calls freevm() with ptable.lock held.
wait(p, c) ==
  /\ pc[p] = "user" /\ pc[c] = "zombie" /\ parent[c] = p /\ lock = NOPROC
  /\ lock' = p
  /\ child' = [child EXCEPT ![p] = c]
  /\ dir' = [dir EXCEPT ![p] = map[c]]
  /\ map' = [map EXCEPT ![c] = NoPages]
  /\ writable' = [writable EXCEPT ![c] = {}]
  /\ parent' = [parent EXCEPT ![c] = NOPROC]
  /\ Goto(p, "free")
  /\ UNCHANGED <<kmem, page, frame>>

-----------------------------------------------------------------------------
(* deallocuvm() of the directory that a call gives up.                     *)

Last(f) == refs[f] = 1

\* The next page of the loop: refcount().
dealloc(p) ==
  /\ pc[p] = "free" /\ Present(dir[p]) # {}
  /\ page' = [page EXCEPT ![p] = Min(Present(dir[p]))]
  /\ Goto(p, IF Last(dir[p][page'[p]]) THEN "kfree" ELSE "drop")
  /\ UNCHANGED <<kmem, spaces, dir, frame, child, family>>

dealloc_page(p) ==
  /\ \/ pc[p] = "kfree" /\ kfree(dir[p][page[p]])
     \/ pc[p] = "drop" /\ decref(dir[p][page[p]])
  /\ dir' = [dir EXCEPT ![p][page[p]] = NOFRAME]
  /\ page' = [page EXCEPT ![p] = 0]
  /\ Goto(p, "free")
  /\ UNCHANGED <<spaces, frame, child, family>>

\* The call returns; the slot of a failed fork() or a collected child is free.
dealloc_done(p) ==
  /\ pc[p] = "free" /\ Present(dir[p]) = {}
  /\ pc' = [q \in Procs |-> IF q = p THEN "user" ELSE IF q = child[p] THEN "unused" ELSE pc[q]]
  /\ child' = [child EXCEPT ![p] = NOPROC]
  /\ lock' = IF lock = p THEN NOPROC ELSE lock
  /\ page' = [page EXCEPT ![p] = 0]
  /\ UNCHANGED <<kmem, spaces, dir, frame, parent>>

Next ==
  \E p \in Procs :
    \/ \E g \in Pages : handlepgflt(p, g) \/ \E v \in Values : store(p, g, v)
    \/ pgflt_own(p) \/ pgflt_copy(p) \/ pgflt_decref(p)
    \/ \E c \in Procs : fork(p, c) \/ wait(p, c)
    \/ cow_map(p) \/ cow_incref(p) \/ fork_done(p)
    \/ \E f \in Frames : sbrk_grow(p, f) \/ \E v \in Values : exec(p, f, v)
    \/ sbrk_shrink(p) \/ exec_bad(p) \/ exec_commit(p) \/ exit(p)
    \/ dealloc(p) \/ dealloc_page(p) \/ dealloc_done(p)

Spec == Init /\ [][Next]_vars

-----------------------------------------------------------------------------
(* Safety.                                                                 *)

\* The references to frame f: entries of directories, except one whose incref()
\* is still to come, and pages replaced whose decref() is still to come.
References(f) ==
  Cardinality({x \in Procs \X Pages : map[x[1]][x[2]] = f})
  + Cardinality({x \in Procs \X Pages : dir[x[1]][x[2]] = f
                                        /\ ~(pc[x[1]] = "incref" /\ page[x[1]] = x[2])})
  + Cardinality({p \in Procs : frame[p] = f})

\* Types are kept, and the counts are exact, whatever calls and faults run at once (kalloc, kfree,
\* incref, decref and their callers).
CountsExact == TypeOK /\ \A f \in Frames : refs[f] = References(f)

\* No frame on the free list is in use: kfree() is called for the last
\* reference only (deallocuvm, freevm).
NotFreedInUse ==
  \A p \in Procs, g \in Pages : map[p][g] \notin free /\ dir[p][g] \notin free

\* A page that a process can write is in no other directory (cowuvm,
\* handlepgflt).
WritableIsOwn ==
  \A p \in Procs : \A g \in writable[p] :
    \A q \in Procs, h \in Pages :
      /\ map[q][h] = map[p][g] => q = p /\ h = g
      /\ dir[q][h] # map[p][g]

\* The reads of a count without kmem.lock do no harm to a page in use: it is not
\* freed, and nobody can write to it who shares it.
FramesSafe == NotFreedInUse /\ WritableIsOwn

Live(p) == pc[p] \notin {"unused", "embryo", "zombie"}

Private == INSTANCE PrivateMemory
             WITH NOPAGE <- NOFRAME,
                  mem <- [p \in Procs |-> [g \in Pages |->
                           IF Live(p) /\ map[p][g] # NOFRAME THEN data[map[p][g]] ELSE NOFRAME]]

\* Sharing is invisible: with copy-on-write every process reads and writes its
\* own copy of memory (cowuvm, handlepgflt, exec, sbrk).
CowPrivate == Private!Spec
=============================================================================
