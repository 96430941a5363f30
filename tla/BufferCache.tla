----------------------------- MODULE BufferCache ----------------------------
(***************************************************************************)
(* The buffer cache (bio.c), the sleep locks of its buffers (sleeplock.c)  *)
(* and the disk driver below it (ide.c).                                   *)
(*                                                                         *)
(* A critical section of bcache.lock, of idelock or of the spin lock in a  *)
(* sleep lock is one action.  A process works on one block at a time: it   *)
(* reads the block, changes it for the log or writes it, and releases it.  *)
(* The disk answers every request and reports no error.                    *)
(***************************************************************************)
EXTENDS Integers, Sequences, FiniteSets, Functions

CONSTANTS Procs,
          NOPROC,
          NBUF,     \* buffers
          Blocks,   \* of the disk
          NOBLK,    \* what a buffer holds before its first use
          Values,   \* contents of a block
          ZERO,     \* what the disk holds at first
          MAXPIN    \* bound: blocks that the log keeps dirty at a time

ASSUME CacheAssumption ==
  /\ NOPROC \notin Procs /\ IsFiniteSet(Procs)
  /\ NBUF \in Nat \ {0}
  /\ NOBLK \notin Blocks
  /\ ZERO \in Values
  /\ MAXPIN \in Nat

Bufs == 1 .. NBUF
NOBUF == 0

VARIABLES
  buf,     \* blockno, valid, dirty, refcnt, data
  lru,     \* the list of buffers, the one used last first
  owner,   \* who holds the sleep lock of a buffer
  queue,   \* idequeue
  request, \* what the disk works on: a buffer, and the data sent for a write
  disk,
  pc,      \* user; lock: in acquiresleep; start, rw: in iderw; held; rel: in brelse
  b,       \* the buffer a process works on
  chan     \* none; lock, disk: sleeps for the lock of b, for b to be transferred

cache == <<buf, lru>>
driver == <<queue, request, disk>>
local == <<pc, b, chan>>
vars == <<buf, lru, owner, queue, request, disk, pc, b, chan>>

Idle == [buf |-> NOBUF, data |-> ZERO]

TypeOK ==
  /\ buf \in [Bufs -> [blockno : Blocks \cup {NOBLK}, valid : BOOLEAN, dirty : BOOLEAN,
                       refcnt : 0 .. Cardinality(Procs), data : Values]]
  /\ lru \in [Bufs -> Bufs] /\ \A x \in Bufs : \E i \in Bufs : lru[i] = x
  /\ owner \in [Bufs -> Procs \cup {NOPROC}]
  /\ queue \in Seq(Bufs)
  /\ request \in [buf : Bufs \cup {NOBUF}, data : Values]
  /\ disk \in [Blocks -> Values]
  /\ pc \in [Procs -> {"user", "lock", "start", "rw", "held", "rel"}]
  /\ b \in [Procs -> Bufs \cup {NOBUF}]
  /\ chan \in [Procs -> {"none", "lock", "disk"}]

\* binit() puts every buffer in front of the list.
Init ==
  /\ buf = [x \in Bufs |-> [blockno |-> NOBLK, valid |-> FALSE, dirty |-> FALSE,
                            refcnt |-> 0, data |-> ZERO]]
  /\ lru = [i \in Bufs |-> NBUF + 1 - i]
  /\ owner = [x \in Bufs |-> NOPROC]
  /\ queue = <<>>
  /\ request = Idle
  /\ disk = [k \in Blocks |-> ZERO]
  /\ pc = [p \in Procs |-> "user"]
  /\ b = [p \in Procs |-> NOBUF]
  /\ chan = [p \in Procs |-> "none"]

Goto(p, l) == pc' = [pc EXCEPT ![p] = l]

\* wakeup() of the processes that sleep for the lock, or the transfer, of x.
wakeup(x, c) == chan' = [p \in Procs |-> IF b[p] = x /\ chan[p] = c THEN "none" ELSE chan[p]]

-----------------------------------------------------------------------------
(* Buffers.                                                                *)

Cached(k) == {x \in Bufs : buf[x].blockno = k}

\* Mutant: a buffer that the log has changed is recycled.
Recyclable_Dirty(x) == buf[x].refcnt = 0

Recyclable(x) == buf[x].refcnt = 0 /\ ~buf[x].dirty

\* The buffer that bget() recycles: the last one of the list that may be.
Victim == lru[CHOOSE i \in Bufs : /\ Recyclable(lru[i])
                                  /\ \A j \in i + 1 .. NBUF : ~Recyclable(lru[j])]

\* Mutant: the contents count as those of the new block.
Recycled_Valid(x, k) == [buf[x] EXCEPT !.blockno = k, !.refcnt = 1]

Recycled(x, k) == [buf[x] EXCEPT !.blockno = k, !.refcnt = 1, !.valid = FALSE, !.dirty = FALSE]

\* bread(): bget() up to the release of bcache.lock.  Without a buffer that can
\* be recycled the kernel panics.
bget(p, k) ==
  /\ pc[p] = "user"
  /\ \/ \E x \in Cached(k) :
          /\ buf' = [buf EXCEPT ![x].refcnt = @ + 1]
          /\ b' = [b EXCEPT ![p] = x]
     \/ /\ Cached(k) = {} /\ \E x \in Bufs : Recyclable(x)
        /\ buf' = [buf EXCEPT ![Victim] = Recycled(Victim, k)]
        /\ b' = [b EXCEPT ![p] = Victim]
  /\ Goto(p, "lock")
  /\ UNCHANGED <<lru, owner, driver, chan>>

\* One turn of the loop of acquiresleep(); then bread() looks at B_VALID.
acquiresleep(p) ==
  /\ pc[p] = "lock" /\ chan[p] = "none"
  /\ \/ /\ owner[b[p]] # NOPROC
        /\ chan' = [chan EXCEPT ![p] = "lock"]
        /\ UNCHANGED <<owner, pc>>
     \/ /\ owner[b[p]] = NOPROC
        /\ owner' = [owner EXCEPT ![b[p]] = p]
        /\ Goto(p, IF buf[b[p]].valid THEN "held" ELSE "start")
        /\ UNCHANGED chan
  /\ UNCHANGED <<cache, driver, b>>

Pinned == {x \in Bufs : buf[x].dirty}

\* A change of the block, and log_write().
log_write(p, v) ==
  /\ pc[p] = "held"
  /\ Cardinality(Pinned \cup {b[p]}) <= MAXPIN
  /\ buf' = [buf EXCEPT ![b[p]].data = v, ![b[p]].dirty = TRUE]
  /\ UNCHANGED <<lru, owner, driver, local>>

\* A change of the block, and bwrite() up to the call of iderw().
bwrite(p, v) ==
  /\ pc[p] = "held"
  /\ buf' = [buf EXCEPT ![b[p]].data = v, ![b[p]].dirty = TRUE]
  /\ Goto(p, "start")
  /\ UNCHANGED <<lru, owner, driver, b, chan>>

\* brelse() has two critical sections: releasesleep(), and the one of
\* bcache.lock.
releasesleep(p) ==
  /\ pc[p] = "held"
  /\ owner' = [owner EXCEPT ![b[p]] = NOPROC]
  /\ wakeup(b[p], "lock")
  /\ Goto(p, "rel")
  /\ UNCHANGED <<cache, driver, b>>

\* Mutant: the count is set to 0 whoever else waits for the buffer.
Unref_All(x) == 0

Unref(x) == buf[x].refcnt - 1

MoveToFront(x) ==
  LET n == CHOOSE i \in Bufs : lru[i] = x IN
  [i \in Bufs |-> IF i = 1 THEN x ELSE IF i <= n THEN lru[i - 1] ELSE lru[i]]

brelse(p) ==
  /\ pc[p] = "rel"
  /\ buf' = [buf EXCEPT ![b[p]].refcnt = Unref(b[p])]
  /\ lru' = IF Unref(b[p]) = 0 THEN MoveToFront(b[p]) ELSE lru
  /\ b' = [b EXCEPT ![p] = NOBUF]
  /\ Goto(p, "user")
  /\ UNCHANGED <<owner, driver, chan>>

-----------------------------------------------------------------------------
(* The disk.                                                               *)

\* The disk gets the data of a write with the command.
idestart(x) == [buf |-> x, data |-> IF buf[x].dirty THEN buf[x].data ELSE ZERO]

\* iderw() up to its first sleep(): the request is not done yet.
iderw(p) ==
  /\ pc[p] = "start"
  /\ queue' = Append(queue, b[p])
  /\ request' = IF queue = <<>> THEN idestart(b[p]) ELSE request
  /\ chan' = [chan EXCEPT ![p] = "disk"]
  /\ Goto(p, "rw")
  /\ UNCHANGED <<cache, owner, disk, b>>

\* Mutant: bread() and bwrite() ask for the transfer again.
Transferred_Again(p) == Goto(p, "start")

\* iderw() returns.
Transferred(p) == Goto(p, "held")

\* The rest of iderw(), from a wakeup on.
iderw_wake(p) ==
  /\ pc[p] = "rw" /\ chan[p] = "none"
  /\ IF buf[b[p]].valid /\ ~buf[b[p]].dirty
       THEN Transferred(p) /\ UNCHANGED chan
       ELSE chan' = [chan EXCEPT ![p] = "disk"] /\ UNCHANGED pc
  /\ UNCHANGED <<cache, owner, driver, b>>

\* Mutant: the disk is left idle when the queue was served.
NextRequest_None(q) == Idle

\* What ideintr() starts after it has taken the first request off the queue.
NextRequest(q) == IF q = <<>> THEN Idle ELSE idestart(Head(q))

\* The disk is done with a request and interrupts.
ideintr ==
  /\ request # Idle /\ queue # <<>>
  /\ LET x == Head(queue)
         k == buf[x].blockno
     IN  /\ disk' = IF buf[x].dirty THEN [disk EXCEPT ![k] = request.data] ELSE disk
         /\ buf' = [buf EXCEPT ![x].data = IF buf[x].dirty THEN @ ELSE disk[k],
                               ![x].valid = TRUE, ![x].dirty = FALSE]
         /\ wakeup(x, "disk")
  /\ queue' = Tail(queue)
  /\ request' = NextRequest(Tail(queue))
  /\ UNCHANGED <<lru, owner, pc, b>>

-----------------------------------------------------------------------------

\* What a process does in the kernel until it holds the block or is done.
Kernel(p) == acquiresleep(p) \/ iderw(p) \/ iderw_wake(p) \/ brelse(p)

Next ==
  \/ ideintr
  \/ \E p \in Procs :
       \/ Kernel(p) \/ releasesleep(p)
       \/ \E k \in Blocks : bget(p, k)
       \/ \E v \in Values : log_write(p, v) \/ bwrite(p, v)

Spec == Init /\ [][Next]_vars

\* The disk answers, and a process that can run gets a CPU.
FairSpec == Spec /\ WF_vars(ideintr) /\ \A p \in Procs : WF_vars(Kernel(p))

-----------------------------------------------------------------------------
(* Properties.                                                             *)

Uses(p, x) == pc[p] # "user" /\ b[p] = x

\* A block is in one buffer at most, and the count of a buffer is the number of
\* processes between bget() and the end of brelse() of it, so none of them finds
\* its buffer recycled for another block.
OneBuffer ==
  /\ \A k \in Blocks : Cardinality(Cached(k)) <= 1
  /\ \A x \in Bufs : buf[x].refcnt = Cardinality({p \in Procs : Uses(p, x)})

\* A process sleeps for a lock only while somebody holds it, and for a transfer
\* only while its buffer is queued; the disk works on the first buffer of the
\* queue whenever there is one, and nothing is queued twice.
NoLostWakeup ==
  /\ \A p \in Procs : chan[p] = "lock" => owner[b[p]] # NOPROC
  /\ \A p \in Procs : chan[p] = "disk" => b[p] \in Range(queue)
  /\ request.buf = IF queue = <<>> THEN NOBUF ELSE Head(queue)
  /\ IsInjective(queue)

\* Only the process that holds a buffer has it transferred, and a block that
\* is released is as on disk or pinned for the log.
Coherent == \A x \in Bufs :
  /\ x \in Range(queue) => \E p \in Procs : owner[x] = p /\ b[p] = x /\ pc[p] = "rw"
  /\ buf[x].valid /\ ~buf[x].dirty => buf[x].data = disk[buf[x].blockno]

Memory(k) == IF \E x \in Cached(k) : buf[x].valid \/ buf[x].dirty
               THEN buf[CHOOSE x \in Cached(k) : TRUE].data ELSE disk[k]

Store == INSTANCE BlockStore WITH
  mem <- [k \in Blocks |-> Memory(k)],
  pinned <- {k \in Blocks : \E x \in Cached(k) : buf[x].dirty}

\* The cache is a store of blocks: recycling, the order of requests and
\* interrupts never change what a block holds, nor lose a change that the log
\* has not written yet.
KeepsBlocks == Store!Spec

\* A request that is in iderw() is done in the end, whatever is queued before.
RequestDone == \A p \in Procs : (pc[p] \in {"start", "rw"}) ~> (pc[p] = "held")
=============================================================================
