--------------------------------- MODULE Log --------------------------------
(***************************************************************************)
(* The file system's redo log (log.c) over the buffer cache (bio.c) and    *)
(* the disk: concurrent file system calls between begin_op() and end_op(), *)
(* group commit, a crash at any disk write, and recovery, which may crash  *)
(* again.                                                                  *)
(*                                                                         *)
(* A critical section of log.lock is one action, and so is one disk write  *)
(* (bwrite of one sector).  The buffer cache is abstracted to what bread() *)
(* returns for each block and to the B_DIRTY flags that pin buffers; a     *)
(* buffer that is not dirty may be evicted and read again at any time,     *)
(* which changes nothing as long as CleanMatchesDisk holds.                *)
(***************************************************************************)
EXTENDS Integers, Sequences, FiniteSets

CONSTANTS Procs,        \* processes that make file system calls
          Blocks,       \* home blocks
          Values,       \* contents of a block
          NOBUF,        \* no buffer
          AFTERLOG,     \* the home block that follows the log area on disk
          MAXOPBLOCKS,  \* max number of blocks any file system call writes
          LOGSIZE,      \* entries of a log header
          SIZE          \* log.size: blocks of the log area, header included

ASSUME LogAssumption ==
  /\ MAXOPBLOCKS \in Nat \ {0}
  /\ LOGSIZE \in Nat /\ LOGSIZE >= MAXOPBLOCKS
  /\ SIZE \in Nat \ {0}
  /\ AFTERLOG \in Blocks
  /\ IsFiniteSet(Blocks) /\ IsFiniteSet(Procs)
  /\ Values # {}
  /\ NOBUF \notin Blocks

VARIABLES
  disk,         \* disk[b]: home block b on disk
  logdata,      \* the data blocks of the log area on disk
  head,         \* the log header on disk: the block numbers of a transaction
  cache,        \* what bread(b) returns
  dirty,        \* blocks whose buffer has B_DIRTY
  lh,           \* log.lh, the header in memory
  outstanding, committing,
  pc, buf,      \* each process: where it is, the buffer it holds in log_write
  wrote,        \* each process: the blocks its call has written
  tail,         \* the loop variable of write_log and install_trans
  boot          \* recovery: read, install; then up

diskvars == <<disk, logdata, head>>
cachevars == <<cache, dirty>>
opvars == <<buf, wrote>>
vars == <<disk, logdata, head, cache, dirty, lh, outstanding, committing, pc, buf, wrote,
          tail, boot>>

Slots == 1 .. (SIZE - 1)
Pc == {"idle", "sleep", "woken", "op", "append", "write_log", "install", "done", "panic"}

Entries(s) == {s[i] : i \in 1 .. Len(s)}

TypeOK ==
  /\ disk \in [Blocks -> Values]
  /\ logdata \in [Slots -> Values]
  /\ head \in Seq(Blocks)
  /\ cache \in [Blocks -> Values]
  /\ dirty \in SUBSET Blocks
  /\ lh \in Seq(Blocks)
  /\ outstanding \in Nat
  /\ committing \in BOOLEAN
  /\ pc \in [Procs -> Pc]
  /\ buf \in [Procs -> Blocks \cup {NOBUF}]
  /\ wrote \in [Procs -> SUBSET Blocks]
  /\ tail \in Nat
  /\ boot \in {"read", "install", "up"}

\* The first boot on a disk made by mkfs: an empty log.
Init ==
  /\ disk \in [Blocks -> Values]
  /\ \E v \in Values : logdata = [k \in Slots |-> v]
  /\ head = <<>>
  /\ cache = disk
  /\ dirty = {}
  /\ lh = <<>>
  /\ outstanding = 0
  /\ committing = FALSE
  /\ pc = [p \in Procs |-> "idle"]
  /\ buf = [p \in Procs |-> NOBUF]
  /\ wrote = [p \in Procs |-> {}]
  /\ tail = 0
  /\ boot = "read"

Goto(p, l) == pc' = [pc EXCEPT ![p] = l]

-----------------------------------------------------------------------------
(* File system calls.                                                      *)

MustWait == committing \/ Len(lh) + (outstanding + 1) * MAXOPBLOCKS > LOGSIZE

\* begin_op(): once round its loop.
begin_op(p) ==
  /\ boot = "up" /\ pc[p] \in {"idle", "woken"}
  /\ IF MustWait
       THEN Goto(p, "sleep") /\ UNCHANGED <<outstanding, wrote>>
       ELSE /\ Goto(p, "op")
            /\ outstanding' = outstanding + 1
            /\ wrote' = [wrote EXCEPT ![p] = {}]
  /\ UNCHANGED <<diskvars, cachevars, lh, committing, buf, tail, boot>>

\* A call locks the buffer of b, changes it and enters log_write(), which looks
\* at log.lh.n before it takes log.lock.
log_write(p, b, v) ==
  /\ pc[p] = "op"
  /\ \A q \in Procs : buf[q] # b
  /\ Cardinality(wrote[p] \cup {b}) <= MAXOPBLOCKS
  /\ cache' = [cache EXCEPT ![b] = v]
  /\ wrote' = [wrote EXCEPT ![p] = @ \cup {b}]
  /\ buf' = [buf EXCEPT ![p] = b]
  /\ Goto(p, IF Len(lh) >= LOGSIZE \/ Len(lh) >= SIZE - 1 \/ outstanding < 1
               THEN "panic" ELSE "append")
  /\ UNCHANGED <<diskvars, dirty, lh, outstanding, committing, tail, boot>>

Pinned(b) == dirty \cup {b}

\* Mutant: no log absorption.
Logged_Twice(b) == Append(lh, b)

\* Log absorption: a block is in the transaction once.
Logged(b) == IF b \in Entries(lh) THEN lh ELSE Append(lh, b)

\* The rest of log_write(), with log.lock: absorb or append; then brelse().
log_append(p) ==
  /\ pc[p] = "append"
  /\ lh' = Logged(buf[p])
  /\ dirty' = Pinned(buf[p])
  /\ buf' = [buf EXCEPT ![p] = NOBUF]
  /\ Goto(p, "op")
  /\ UNCHANGED <<diskvars, cache, outstanding, committing, wrote, tail, boot>>

\* Mutant: nobody is woken.
Awake_Nobody(f) == f

\* wakeup(&log)
Awake(f) == [q \in Procs |-> IF f[q] = "sleep" THEN "woken" ELSE f[q]]

\* end_op(): the last call out commits.
end_op(p) ==
  /\ pc[p] = "op"
  /\ outstanding' = outstanding - 1
  /\ IF outstanding = 1 /\ ~committing
       THEN /\ committing' = TRUE
            /\ tail' = 0
            /\ Goto(p, IF lh = <<>> THEN "done" ELSE "write_log")
       ELSE /\ pc' = IF committing THEN [pc EXCEPT ![p] = "panic"]
                                  ELSE Awake([pc EXCEPT ![p] = "idle"])
            /\ UNCHANGED <<committing, tail>>
  /\ UNCHANGED <<diskvars, cachevars, lh, opvars, boot>>

-----------------------------------------------------------------------------
(* Commit.                                                                 *)

\* Block k of the log area; past its end is the block that follows it.
ReadSlot(k) == IF k \in Slots THEN logdata[k] ELSE cache[AFTERLOG]

\* write_log(): one block of the transaction, from the cache to the log.
write_log(p) ==
  /\ pc[p] = "write_log" /\ tail < Len(lh)
  /\ tail' = tail + 1
  /\ IF tail + 1 \in Slots
       THEN /\ logdata' = [logdata EXCEPT ![tail + 1] = cache[lh[tail + 1]]]
            /\ UNCHANGED <<disk, cachevars>>
       ELSE /\ disk' = [disk EXCEPT ![AFTERLOG] = cache[lh[tail + 1]]]
            /\ cache' = [cache EXCEPT ![AFTERLOG] = cache[lh[tail + 1]]]
            /\ dirty' = dirty \ {AFTERLOG}
            /\ UNCHANGED logdata
  /\ UNCHANGED <<head, lh, outstanding, committing, pc, opvars, boot>>

\* Mutant: the header is written before the log blocks.
LogWritten_Early == TRUE

LogWritten == tail = Len(lh)

\* write_head(): the commit point.
write_head(p) ==
  /\ pc[p] = "write_log" /\ LogWritten
  /\ head' = lh
  /\ tail' = 0
  /\ Goto(p, "install")
  /\ UNCHANGED <<disk, logdata, cachevars, lh, outstanding, committing, opvars, boot>>

\* install_trans(): one block of the transaction, from the log to its home.
Install ==
  /\ tail < Len(lh)
  /\ tail' = tail + 1
  /\ disk' = [disk EXCEPT ![lh[tail + 1]] = ReadSlot(tail + 1)]
  /\ cache' = [cache EXCEPT ![lh[tail + 1]] = ReadSlot(tail + 1)]
  /\ dirty' = dirty \ {lh[tail + 1]}
  /\ UNCHANGED <<logdata, head, lh, outstanding, committing, pc, opvars, boot>>

install_trans(p) == pc[p] = "install" /\ Install

\* log.lh.n = 0 and write_head(): the transaction is erased from the log.
erase(p) ==
  /\ pc[p] = "install" /\ tail = Len(lh)
  /\ lh' = <<>> /\ head' = <<>> /\ tail' = 0
  /\ Goto(p, "done")
  /\ UNCHANGED <<disk, logdata, cachevars, outstanding, committing, opvars, boot>>

\* The end of end_op().
commit_done(p) ==
  /\ pc[p] = "done"
  /\ committing' = FALSE
  /\ tail' = 0
  /\ pc' = Awake([pc EXCEPT ![p] = "idle"])
  /\ UNCHANGED <<diskvars, cachevars, lh, outstanding, opvars, boot>>

-----------------------------------------------------------------------------
(* Crash and recovery.                                                     *)

\* Power fails: memory is lost, the disk stays.
Crash ==
  /\ boot' = "read"
  /\ cache' = disk /\ dirty' = {} /\ lh' = <<>>
  /\ outstanding' = 0 /\ committing' = FALSE /\ tail' = 0
  /\ pc' = [p \in Procs |-> "idle"]
  /\ buf' = [p \in Procs |-> NOBUF]
  /\ wrote' = [p \in Procs |-> {}]
  /\ UNCHANGED diskvars

\* recover_from_log(): read_head(),
recover_read ==
  /\ boot = "read"
  /\ lh' = head /\ tail' = 0 /\ boot' = "install"
  /\ UNCHANGED <<diskvars, cachevars, outstanding, committing, pc, opvars>>

\* install_trans(),
recover_install == boot = "install" /\ Install

\* Mutant: recovery erases the log without installing it.
Recovered_Early == TRUE

Recovered == tail = Len(lh)

\* and write_head() of an empty header.
recover_clear ==
  /\ boot = "install" /\ Recovered
  /\ lh' = <<>> /\ head' = <<>> /\ tail' = 0 /\ boot' = "up"
  /\ UNCHANGED <<disk, logdata, cachevars, outstanding, committing, pc, opvars>>

Next ==
  \/ \E p \in Procs :
       \/ begin_op(p) \/ log_append(p) \/ end_op(p)
       \/ write_log(p) \/ write_head(p) \/ install_trans(p) \/ erase(p) \/ commit_done(p)
       \/ \E b \in Blocks, v \in Values : log_write(p, b, v)
  \/ Crash \/ recover_read \/ recover_install \/ recover_clear

Spec == Init /\ [][Next]_vars

-----------------------------------------------------------------------------
(* Safety.                                                                 *)

\* The slot of block b in the transaction that the header on disk describes.
SlotOf(b) == CHOOSE k \in 1 .. Len(head) : head[k] = b

\* What recovery would make of the disk.
Durable == [b \in Blocks |->
  IF b \notin Entries(head) THEN disk[b]
  ELSE IF SlotOf(b) \in Slots THEN logdata[SlotOf(b)] ELSE disk[AFTERLOG]]

\* The processes between begin_op() and end_op().
Active == {p \in Procs : pc[p] \in {"op", "append", "panic"}}

\* A buffer that is not dirty and not being changed holds what the disk holds,
\* so that bget() may recycle it (log_write pins with B_DIRTY, install_trans
\* unpins).
CleanMatchesDisk ==
  \A b \in Blocks \ dirty : cache[b] # disk[b] => \E p \in Procs : buf[p] = b

Committers == {p \in Procs : pc[p] \in {"write_log", "install", "done"}}

\* While a transaction is committed no file system call is active, and only one
\* process commits (begin_op, end_op: committing).
CommitsAlone ==
  /\ committing <=> Committers # {}
  /\ \A p, q \in Committers : p = q
  /\ committing => Active = {}

\* A process asleep in begin_op() will be woken: a commit is running or a call
\* is active, and both end in wakeup(&log) (begin_op, end_op).
SleepersAwaited ==
  (\E p \in Procs : pc[p] = "sleep") => committing \/ Active # {}

\* What file system calls see; during recovery nobody looks.
Current == IF boot = "up" THEN cache ELSE Durable

Atomic == INSTANCE AtomicDisk
            WITH durable <- Durable, current <- Current, active <- Active

\* Crash atomicity: commit, recovery and a crash at any disk write make the
\* updates of whole file system calls durable at once, or not at all.
CrashAtomic == Atomic!Spec

-----------------------------------------------------------------------------
(* The inductive invariant behind these, for a log that fits its area.     *)

Distinct(s) == \A i, j \in 1 .. Len(s) : s[i] = s[j] => i = j

\* The transaction fits the log area on disk (log_write's check of log.size).
LogFits == Len(lh) <= SIZE - 1

HeadersOK == Distinct(lh) /\ Distinct(head) /\ Len(head) <= SIZE - 1

\* A process holds a buffer exactly inside log_write().
BufInv == \A p \in Procs : buf[p] # NOBUF <=> pc[p] \in {"append", "panic"}

CountInv == outstanding = Cardinality(Active)

\* Until recovery is over there are only the disk and the header read from it.
BootInv == boot # "up" =>
  /\ \A p \in Procs : pc[p] = "idle"
  /\ cache = disk /\ dirty = {} /\ ~committing
  /\ lh = IF boot = "read" THEN <<>> ELSE head
  /\ boot = "install" => tail <= Len(lh) /\ \A i \in 1 .. tail : disk[lh[i]] = logdata[i]

\* How far the committing process has come: log blocks written, header
\* written, home blocks installed.
CommitInv == boot = "up" => \A p \in Procs :
  /\ pc[p] = "write_log" => tail <= Len(lh) /\ \A i \in 1 .. tail : logdata[i] = cache[lh[i]]
  /\ pc[p] = "install" =>
       /\ head = lh /\ tail <= Len(lh)
       /\ \A i \in 1 .. Len(lh) : logdata[i] = cache[lh[i]]
       /\ \A i \in 1 .. tail : disk[lh[i]] = cache[lh[i]]
  /\ pc[p] = "done" => lh = <<>>

\* The header on disk is empty unless a committed transaction is installed, and
\* the one in memory unless there are calls to commit.
EmptyInv == boot = "up" =>
  /\ (\A p \in Procs : pc[p] # "install") => head = <<>>
  /\ ~committing /\ Active = {} => lh = <<>>

\* What differs from the disk is in the transaction or about to be.
LoggedInv == boot = "up" => \A b \in Blocks :
  cache[b] # disk[b] => b \in Entries(lh) \/ \E p \in Procs : buf[p] = b

\* The conjunction that every action of the log preserves while the transaction
\* fits the log area: headers, buffers, counters, and how far a commit or a
\* recovery has come.
IInv == /\ TypeOK /\ HeadersOK /\ BufInv /\ CountInv /\ BootInv /\ CommitInv /\ EmptyInv
        /\ LoggedInv /\ CleanMatchesDisk /\ CommitsAlone /\ SleepersAwaited

-----------------------------------------------------------------------------
(* Liveness, while the machine stays up: file system calls end and commits *)
(* go on; the scheduler runs every process.                                *)

Progress(p) ==
  \/ (pc[p] = "woken" /\ begin_op(p)) \/ log_append(p) \/ end_op(p)
  \/ write_log(p) \/ write_head(p) \/ install_trans(p) \/ erase(p) \/ commit_done(p)

FairSpec == /\ Spec
            /\ \A p \in Procs : WF_vars(Progress(p)) /\ SF_vars(end_op(p))
            /\ WF_vars(recover_read \/ recover_install \/ recover_clear)

\* A process that waits in begin_op() for log space or for a commit is woken
\* (begin_op, end_op), unless a call panics.
SleeperWoken ==
  \A p \in Procs :
    pc[p] = "sleep" ~> (pc[p] # "sleep" \/ \E q \in Procs : pc[q] = "panic")
=============================================================================
