-------------------------- MODULE BufferCacheProofs --------------------------
(***************************************************************************)
(* The buffer cache, its sleep locks and the disk driver keep an inductive *)
(* invariant, from which the properties of BufferCache follow, and the     *)
(* cache implements BlockStore: for any processes, blocks, values and      *)
(* number of buffers.  What the store has of a block is what the buffer of *)
(* the block holds if that is dirty, and what the disk holds otherwise;    *)
(* the refinement shows it from the invariant and then looks only at dirty *)
(* buffers and the disk.                                                   *)
(***************************************************************************)
EXTENDS BufferCache, FiniteSetTheorems, WellFoundedInduction, TLAPS

-----------------------------------------------------------------------------
(* The invariant, facts that its proof rests on, and the steps of a        *)
(* process that has its buffer.                                            *)

\* A process with one of these has the sleep lock of its buffer.
Working == {"start", "rw", "held"}

Users(x) == {p \in Procs : Uses(p, x)}

\* A block is in one buffer at most.
OneBlock == \A x, y \in Bufs :
  buf[x].blockno = buf[y].blockno /\ buf[x].blockno # NOBLK => x = y

\* refcnt counts who uses a buffer, and who does finds a block in it.
UseInv ==
  /\ \A x \in Bufs : buf[x].refcnt = Cardinality(Users(x))
  /\ \A p \in Procs : pc[p] # "user" => b[p] \in Bufs /\ buf[b[p]].blockno # NOBLK

\* The sleep lock of a buffer is held by the one process that works on it.
HolderInv ==
  /\ \A p \in Procs : pc[p] \in Working => owner[b[p]] = p
  /\ \A x \in Bufs, p \in Procs : owner[x] = p => b[p] = x /\ pc[p] \in Working

Queued(x) == \E i \in 1 .. Len(queue) : queue[i] = x

\* A process in iderw() sleeps exactly while its buffer is queued, and one in
\* acquiresleep() only while somebody holds the lock.
SleepInv ==
  /\ \A p \in Procs : chan[p] = "disk" <=> pc[p] = "rw" /\ Queued(b[p])
  /\ \A p \in Procs : chan[p] = "lock" => pc[p] = "lock" /\ owner[b[p]] # NOPROC

\* Each buffer is queued once, by the process that holds it.
QueueInv ==
  /\ \A x \in Bufs : Queued(x) => owner[x] # NOPROC /\ pc[owner[x]] = "rw"
  /\ \A i, j \in 1 .. Len(queue) : queue[i] = queue[j] => i = j

\* The disk has what the first of the queue is to become.
RequestInv ==
  /\ request.buf = IF queue = <<>> THEN NOBUF ELSE queue[1]
  /\ queue # <<>> /\ buf[queue[1]].dirty => request.data = buf[queue[1]].data

\* What is known of the contents of a buffer: only a block has them, a change makes
\* them differ from the disk, and a process has its buffer transferred before it holds it.
DataInv ==
  /\ \A x \in Bufs :
       /\ buf[x].dirty => buf[x].valid
       /\ buf[x].valid => buf[x].blockno # NOBLK
       /\ buf[x].valid /\ ~buf[x].dirty => buf[x].data = disk[buf[x].blockno]
  /\ \A p \in Procs :
       /\ pc[p] = "held" => buf[b[p]].valid
       /\ pc[p] = "rw" /\ chan[p] = "none" => buf[b[p]].valid /\ ~buf[b[p]].dirty

IInv ==
  /\ TypeOK /\ OneBlock /\ UseInv /\ HolderInv
  /\ SleepInv /\ QueueInv /\ RequestInv /\ DataInv

-----------------------------------------------------------------------------
(* Helpers.                                                                *)

\* Who uses a buffer is a finite set, before and after a step.
LEMMA UsersFinite ==
  ASSUME NEW x
  PROVE  IsFiniteSet(Users(x)) /\ IsFiniteSet(Users(x)')
BY Zenon, CacheAssumption, FS_Subset DEF Users

\* A nonempty set of positions of the list has a last one.
LEMMA LastPosition ==
  ASSUME NEW S, S \subseteq Bufs, S # {}
  PROVE  \E i \in S : \A j \in S : j <= i
<1> DEFINE T == {NBUF - i : i \in S}
<1>1. T \subseteq Nat /\ T # {}
  <2>1. \A i \in S : NBUF - i \in Nat
    BY SMTT(30), CacheAssumption DEF Bufs
  <2> QED BY ZenonT(30), <2>1
<1>2. PICK m \in T : \A n \in T : ~(<<n, m>> \in OpToRel(<, Nat))
  <2> HIDE DEF T
  <2> QED BY Zenon, <1>1, WFMin, NatLessThanWellFounded
<1>3. PICK i \in S : m = NBUF - i
  OBVIOUS
<1>4. ASSUME NEW j \in S PROVE j <= i
  <2>1. NBUF - j \in T /\ NBUF - j \in Nat /\ m \in Nat
    BY Zenon, <1>1
  <2>2. ~(NBUF - j < m)
    BY Zenon, <2>1, <1>2 DEF OpToRel
  <2> QED BY <2>1, <2>2, <1>3, CacheAssumption DEF Bufs
<1> QED BY Zenon, <1>4

\* bget() recycles a buffer that may be, if there is one.
LEMMA VictimRecyclable ==
  ASSUME TypeOK, NEW y \in Bufs, Recyclable(y)
  PROVE  Victim \in Bufs /\ Recyclable(Victim)
<1> DEFINE S == {i \in Bufs : Recyclable(lru[i])}
<1>1. S \subseteq Bufs /\ S # {}
  BY DEF TypeOK
<1>2. PICK i \in S : \A j \in S : j <= i
  BY Zenon, <1>1, LastPosition
<1>3. Recyclable(lru[i]) /\ \A j \in i + 1 .. NBUF : ~Recyclable(lru[j])
  BY <1>2, CacheAssumption DEF Bufs
<1> QED BY Zenon, <1>2, <1>3 DEF Victim, TypeOK

\* MoveToFront() keeps every buffer in the list.
LEMMA FrontKeepsAll ==
  ASSUME TypeOK, NEW x \in Bufs
  PROVE  /\ MoveToFront(x) \in [Bufs -> Bufs]
         /\ \A y \in Bufs : \E i \in Bufs : MoveToFront(x)[i] = y
<1> DEFINE n == CHOOSE i \in Bufs : lru[i] = x
<1>1. n \in Bufs /\ lru[n] = x
  BY Zenon DEF TypeOK
<1>2. MoveToFront(x) = [i \in Bufs |-> IF i = 1 THEN x ELSE IF i <= n THEN lru[i - 1] ELSE lru[i]]
  BY Zenon DEF MoveToFront
<1> HIDE DEF n
<1>3. MoveToFront(x) \in [Bufs -> Bufs]
  <2>1. \A i \in Bufs : i <= n /\ i # 1 => i - 1 \in Bufs
    BY <1>1, CacheAssumption DEF Bufs
  <2>2. lru \in [Bufs -> Bufs]
    BY Zenon DEF TypeOK
  <2>3. ASSUME NEW i \in Bufs
        PROVE  (IF i = 1 THEN x ELSE IF i <= n THEN lru[i - 1] ELSE lru[i]) \in Bufs
    BY Zenon, <2>1, <2>2
  <2> QED BY Zenon, <1>2, <2>3
<1>4. ASSUME NEW y \in Bufs PROVE \E i \in Bufs : MoveToFront(x)[i] = y
  <2>1. PICK i \in Bufs : lru[i] = y
    BY Zenon DEF TypeOK
  <2>2. CASE i = n
    <3>1. 1 \in Bufs /\ MoveToFront(x)[1] = y
      BY <1>1, <1>2, <2>1, <2>2, CacheAssumption DEF Bufs
    <3> QED BY Zenon, <3>1
  <2>3. CASE i < n
    <3>1. i + 1 \in Bufs /\ MoveToFront(x)[i + 1] = lru[i]
      BY <1>1, <1>2, <2>3, CacheAssumption DEF Bufs
    <3> QED BY Zenon, <3>1, <2>1
  <2>4. CASE i > n
    <3>1. MoveToFront(x)[i] = y
      BY <1>1, <1>2, <2>1, <2>4, CacheAssumption DEF Bufs
    <3> QED BY Zenon, <3>1
  <2> QED BY <2>2, <2>3, <2>4, <1>1, CacheAssumption DEF Bufs
<1> QED BY Zenon, <1>3, <1>4

\* binit(), and a machine on which nothing runs yet.
LEMMA InitIInv == Init => IInv
<1> SUFFICES ASSUME Init PROVE IInv
  OBVIOUS
<1>1. TypeOK
  <2>1. \A x \in Bufs : NBUF + 1 - x \in Bufs
    BY CacheAssumption DEF Bufs
  <2>2. lru \in [Bufs -> Bufs] /\ \A x \in Bufs : \E i \in Bufs : lru[i] = x
    <3>1. \A x \in Bufs : NBUF + 1 - (NBUF + 1 - x) = x
      BY CacheAssumption DEF Bufs
    <3> QED BY Zenon, <2>1, <3>1 DEF Init
  <2>3. Cardinality(Procs) \in Nat
    BY Zenon, CacheAssumption, FS_CardinalityType
  <2> QED BY <2>2, <2>3, CacheAssumption DEF Init, TypeOK, Idle
<1>2. \A x \in Bufs : Users(x) = {}
  BY Zenon DEF Init, Users, Uses
<1>3. UseInv
  BY Zenon, <1>2, FS_EmptySet DEF Init, UseInv
<1> QED
  BY <1>1, <1>3, CacheAssumption DEF Init, IInv, OneBlock, HolderInv, SleepInv, QueueInv,
     RequestInv, DataInv, Queued,
     Idle, Working, NOBUF

-----------------------------------------------------------------------------
(* The sleep lock and the contents of a buffer.                            *)

\* The types of what the locks and the queue are made of.
Types ==
  /\ pc \in [Procs -> {"user", "lock", "start", "rw", "held", "rel"}]
  /\ b \in [Procs -> Bufs \cup {NOBUF}]
  /\ chan \in [Procs -> {"none", "lock", "disk"}]
  /\ owner \in [Bufs -> Procs \cup {NOPROC}]
  /\ queue \in Seq(Bufs)

\* TypeOK without the cache and the disk.
LEMMA TypesOK == TypeOK => Types
BY Zenon DEF TypeOK, Types

\* Who does not begin or end its use of a buffer leaves the counts alone.
LEMMA UsersKept ==
  ASSUME Types, NEW p \in Procs, pc[p] # "user", UNCHANGED b,
         NEW l \in {"lock", "start", "rw", "held", "rel"}, Goto(p, l)
  PROVE  \A x \in Bufs : Users(x)' = Users(x)
BY Zenon DEF Types, Goto, Users, Uses

\* A buffer that a process holds is not queued.
LEMMA HeldNotQueued ==
  ASSUME IInv, NEW p \in Procs, pc[p] \in {"held", "start"}
  PROVE  b[p] \in Bufs /\ owner[b[p]] = p /\ ~Queued(b[p])
BY Zenon DEF IInv, UseInv, HolderInv, QueueInv, Working

\* acquiresleep(): the process sleeps, or holds the lock from now on.
LEMMA AcquireInv ==
  ASSUME IInv, NEW p \in Procs, acquiresleep(p)
  PROVE  IInv'
<1>t. Types /\ pc[p] = "lock" /\ chan[p] = "none"
  BY Zenon, TypesOK DEF IInv, acquiresleep
<1>1. b[p] \in Bufs
  BY Zenon, <1>t DEF IInv, UseInv
<1>2. CASE owner[b[p]] # NOPROC
  <2>1. /\ chan' = [chan EXCEPT ![p] = "lock"]
        /\ UNCHANGED <<buf, lru, owner, queue, request, disk, pc, b>>
    BY Zenon, <1>2 DEF acquiresleep, cache, driver
  <2>2. TypeOK'
    BY Zenon, <2>1 DEF IInv, TypeOK
  <2>3. OneBlock' /\ UseInv' /\ HolderInv' /\ QueueInv' /\ RequestInv'
    BY <2>1 DEF IInv, OneBlock, UseInv, HolderInv, Users, Uses, QueueInv, RequestInv, Queued
  <2>4. SleepInv'
    <3>1. SleepInv
      BY Zenon DEF IInv
    <3> QED BY Zenon, <1>t, <1>2, <2>1, <3>1 DEF SleepInv, Queued, Types
  <2>5. DataInv'
    <3>1. DataInv
      BY Zenon DEF IInv
    <3> QED BY Zenon, <1>t, <2>1, <3>1 DEF DataInv, Types
  <2> QED BY Zenon, <2>2, <2>3, <2>4, <2>5 DEF IInv
<1>3. CASE owner[b[p]] = NOPROC
  <2>1. PICK l \in {"held", "start"} : Goto(p, l) /\ (l = "held" => buf[b[p]].valid)
    BY Zenon, <1>3 DEF acquiresleep
  <2>2. /\ owner' = [owner EXCEPT ![b[p]] = p]
        /\ UNCHANGED <<buf, lru, queue, request, disk, b, chan>>
    BY Zenon, <1>3 DEF acquiresleep, cache, driver
  <2>3. TypeOK'
    BY Zenon, <1>1, <2>1, <2>2 DEF IInv, TypeOK, Goto
  <2>4. OneBlock' /\ UseInv' /\ RequestInv'
    <3>1. \A x \in Bufs : Users(x)' = Users(x)
      BY Zenon, <1>t, <2>1, <2>2, UsersKept
    <3>2. OneBlock /\ UseInv /\ RequestInv
      BY Zenon DEF IInv
    <3> QED BY Zenon, <1>t, <3>1, <3>2, <1>1, <2>1, <2>2 DEF OneBlock, UseInv, RequestInv, Goto, Types
  <2>5. HolderInv'
    <3>1. HolderInv /\ UseInv
      BY Zenon DEF IInv
    <3> QED BY <1>t, <3>1, <1>1, <1>3, <2>1, <2>2, CacheAssumption
            DEF HolderInv, UseInv, Goto, Types, Working
  <2>6. ~Queued(b[p])
    BY Zenon, <1>1, <1>3 DEF IInv, QueueInv
  <2>7. SleepInv' /\ QueueInv'
    <3>1. SleepInv /\ QueueInv /\ HolderInv
      BY Zenon DEF IInv
    <3>2. \A x \in Bufs : Queued(x)' = Queued(x)
      BY Zenon, <2>2 DEF Queued
    <3>3. SleepInv'
      BY <3>1, <1>t, <1>1, <1>3, <2>1, <2>2, <2>6, CacheAssumption DEF SleepInv, Queued, Goto, Types
    <3>4. QueueInv'
      BY Zenon, <3>1, <3>2, <1>t, <1>1, <1>3, <2>1, <2>2, <2>6, CacheAssumption DEF QueueInv, Goto, Types
    <3> QED BY Zenon, <3>3, <3>4
  <2>8. DataInv'
    <3>1. DataInv
      BY Zenon DEF IInv
    <3> QED BY Zenon, <1>t, <2>1, <2>2, <3>1 DEF DataInv, Goto, Types
  <2> QED BY Zenon, <2>3, <2>4, <2>5, <2>7, <2>8 DEF IInv
<1> QED BY Zenon, <1>2, <1>3

\* What a buffer is.
BufRec == [blockno : Blocks \cup {NOBLK}, valid : BOOLEAN, dirty : BOOLEAN,
           refcnt : 0 .. Cardinality(Procs), data : Values]

\* A step that only writes one buffer, with a record of the right type, keeps the type of buf.
LEMMA BufWritten ==
  ASSUME TypeOK, NEW x \in Bufs, NEW r \in BufRec, buf' = [buf EXCEPT ![x] = r]
  PROVE  /\ buf' \in [Bufs -> BufRec] /\ buf'[x] = r
         /\ \A y \in Bufs : y # x => buf'[y] = buf[y]
BY Zenon DEF TypeOK, BufRec

\* Both changes of a block: the buffer becomes dirty, and the process goes to l.
LEMMA ModifyInv ==
  ASSUME IInv, NEW p \in Procs, NEW v \in Values, NEW l \in {"held", "start"},
         pc[p] = "held", Goto(p, l),
         buf' = [buf EXCEPT ![b[p]].data = v, ![b[p]].dirty = TRUE],
         UNCHANGED <<lru, owner, queue, request, disk, b, chan>>
  PROVE  IInv'
<1> DEFINE x == b[p]
           r == [buf[x] EXCEPT !.data = v, !.dirty = TRUE]
<1>t. TypeOK /\ Types
  BY Zenon, TypesOK DEF IInv
<1>1. x \in Bufs /\ owner[x] = p /\ ~Queued(x)
  BY Zenon, HeldNotQueued
<1>2. buf[x] \in BufRec
  BY Zenon, <1>t, <1>1 DEF TypeOK, BufRec
<1>3. /\ r \in BufRec /\ r.dirty /\ r.data = v /\ r.valid = buf[x].valid
      /\ r.blockno = buf[x].blockno /\ r.refcnt = buf[x].refcnt
  BY Zenon, <1>2 DEF BufRec
<1>4. buf' = [buf EXCEPT ![x] = r]
  BY Zenon, <1>t DEF TypeOK
<1> HIDE DEF r
<1>5. /\ buf' \in [Bufs -> BufRec] /\ buf'[x] = r
      /\ \A y \in Bufs : y # x => buf'[y] = buf[y]
  BY Zenon, <1>t, <1>1, <1>3, <1>4, BufWritten
<1>6. \A y \in Bufs : /\ buf'[y].blockno = buf[y].blockno
                      /\ buf'[y].valid = buf[y].valid
                      /\ buf'[y].refcnt = buf[y].refcnt
  BY Zenon, <1>3, <1>5
<1>7. TypeOK'
  BY Zenon, <1>t, <1>5 DEF TypeOK, Goto, BufRec
<1>8. OneBlock' /\ UseInv'
  <2>1. \A y \in Bufs : Users(y)' = Users(y)
    BY Zenon, <1>t, UsersKept
  <2>2. OneBlock /\ UseInv
    BY Zenon DEF IInv
  <2>3. OneBlock'
    BY <2>2, <1>6 DEF OneBlock
  <2>4. \A q \in Procs : pc'[q] # "user" => pc[q] # "user"
    BY Zenon, <1>t DEF Goto, Types
  <2>5. \A y \in Bufs : buf'[y].refcnt = Cardinality(Users(y)')
    BY Zenon, <2>1, <2>2, <1>6 DEF UseInv
  <2>6. \A q \in Procs : pc'[q] # "user" => b'[q] \in Bufs /\ buf'[b'[q]].blockno # NOBLK
    <3> SUFFICES ASSUME NEW q \in Procs, pc'[q] # "user"
                 PROVE  b'[q] \in Bufs /\ buf'[b'[q]].blockno # NOBLK
      BY Zenon
    <3>1. b[q] \in Bufs /\ buf[b[q]].blockno # NOBLK
      BY Zenon, <2>2, <2>4 DEF UseInv
    <3>2. b'[q] = b[q]
      OBVIOUS
    <3> QED BY Zenon, <3>1, <3>2, <1>6
  <2> QED BY Zenon, <2>3, <2>5, <2>6 DEF UseInv
<1>9. HolderInv' /\ SleepInv' /\ QueueInv'
  <2>1. HolderInv /\ SleepInv /\ QueueInv
    BY Zenon DEF IInv
  <2>2. HolderInv'
    BY <1>t, <1>1, <2>1 DEF HolderInv, Goto, Types, Working
  <2>3. SleepInv'
    BY Zenon, <1>t, <1>1, <2>1 DEF SleepInv, Queued, Goto, Types
  <2>4. QueueInv'
    BY Zenon, <1>t, <1>1, <2>1, CacheAssumption DEF QueueInv, Queued, Goto, Types
  <2> QED BY Zenon, <2>2, <2>3, <2>4
<1>10. RequestInv'
  <2>1. queue # <<>> => queue[1] \in Bufs /\ Queued(queue[1]) /\ queue[1] # x
    BY <1>t, <1>1 DEF Queued, Types
  <2>2. RequestInv
    BY Zenon DEF IInv
  <2> QED BY Zenon, <2>1, <2>2, <1>5 DEF RequestInv
<1>11. DataInv'
  <2>1. DataInv /\ HolderInv /\ UseInv
    BY Zenon DEF IInv
  <2>2. \A q \in Procs : b[q] = x /\ pc[q] \in Working => q = p
    BY Zenon, <2>1, <1>1 DEF HolderInv
  <2>3. buf[x].valid
    BY Zenon, <2>1 DEF DataInv
  <2>4. \A y \in Bufs : y # x => buf'[y] = buf[y]
    BY Zenon, <1>5
  <2>5. \A q \in Procs \ {p} : pc'[q] = pc[q]
    BY Zenon, <1>t DEF Goto, Types
  <2>6. \A q \in Procs \ {p} : pc[q] \in Working => b[q] \in Bufs /\ b[q] # x
    BY Zenon, <2>1, <2>2 DEF UseInv, Working
  <2>7. pc'[p] \in {"held", "start"}
    BY Zenon, <1>t DEF Goto, Types
  <2>8. buf'[x].dirty /\ buf'[x].valid
    BY Zenon, <1>3, <1>5, <2>3
  <2>9. \A y \in Bufs : /\ buf'[y].dirty => buf'[y].valid
                        /\ buf'[y].valid => buf'[y].blockno # NOBLK
                        /\ buf'[y].valid /\ ~buf'[y].dirty => buf'[y].data = disk'[buf'[y].blockno]
    <3> SUFFICES ASSUME NEW y \in Bufs
                 PROVE  /\ buf'[y].dirty => buf'[y].valid
                        /\ buf'[y].valid => buf'[y].blockno # NOBLK
                        /\ buf'[y].valid /\ ~buf'[y].dirty => buf'[y].data = disk'[buf'[y].blockno]
      BY Zenon
    <3>1. CASE y = x
      BY ZenonT(30), <3>1, <1>1, <1>6, <2>1, <2>3, <2>8 DEF DataInv
    <3>2. CASE y # x
      BY ZenonT(30), <3>2, <2>1, <2>4 DEF DataInv
    <3> QED BY Zenon, <3>1, <3>2
  <2>10. ASSUME NEW q \in Procs
         PROVE  /\ pc'[q] = "held" => buf'[b'[q]].valid
                /\ pc'[q] = "rw" /\ chan'[q] = "none" => buf'[b'[q]].valid /\ ~buf'[b'[q]].dirty
    <3>1. CASE q = p
      BY Zenon, <3>1, <2>7, <2>8
    <3>2. CASE q # p
      <4>1. pc'[q] = pc[q] /\ (pc[q] \in Working => buf'[b[q]] = buf[b[q]])
        BY Zenon, <3>2, <2>4, <2>5, <2>6
      <4> QED BY Zenon, <4>1, <2>1 DEF DataInv, Working
    <3> QED BY Zenon, <3>1, <3>2
  <2> QED BY Zenon, <2>9, <2>10 DEF DataInv
<1> QED BY Zenon, <1>7, <1>8, <1>9, <1>10, <1>11 DEF IInv

\* releasesleep(): nobody holds the lock, and nobody sleeps for it.
LEMMA ReleaseInv ==
  ASSUME IInv, NEW p \in Procs, releasesleep(p)
  PROVE  IInv'
<1>t. TypeOK /\ Types /\ pc[p] = "held"
  BY Zenon, TypesOK DEF IInv, releasesleep
<1>1. b[p] \in Bufs /\ owner[b[p]] = p /\ ~Queued(b[p])
  BY Zenon, <1>t, HeldNotQueued
<1>2. /\ owner' = [owner EXCEPT ![b[p]] = NOPROC] /\ wakeup(b[p], "lock") /\ Goto(p, "rel")
      /\ UNCHANGED <<buf, lru, queue, request, disk, b>>
  BY Zenon DEF releasesleep, cache, driver
<1>i. OneBlock /\ UseInv /\ HolderInv /\ SleepInv /\ QueueInv /\ RequestInv /\ DataInv
  BY Zenon DEF IInv
<1>3. TypeOK'
  BY Zenon, <1>t, <1>1, <1>2 DEF TypeOK, Goto, wakeup
<1>4. OneBlock' /\ UseInv' /\ RequestInv'
  <2>1. \A y \in Bufs : Users(y)' = Users(y)
    BY Zenon, <1>t, <1>2, UsersKept
  <2> QED BY <1>t, <1>i, <2>1, <1>2 DEF OneBlock, UseInv, RequestInv, Goto, Types
<1>5. HolderInv'
  BY <1>t, <1>i, <1>1, <1>2, CacheAssumption DEF HolderInv, Goto, Types, Working
<1>6. SleepInv'
  BY <1>t, <1>i, <1>1, <1>2, CacheAssumption DEF SleepInv, Queued, Goto, Types, wakeup
<1>7. QueueInv'
  <2>1. \A x \in Bufs : Queued(x)' = Queued(x)
    BY Zenon, <1>2 DEF Queued
  <2> QED BY <2>1, <1>t, <1>i, <1>1, <1>2, CacheAssumption DEF QueueInv, Goto, Types
<1>8. DataInv'
  BY Zenon, <1>t, <1>i, <1>2 DEF DataInv, SleepInv, Goto, Types, wakeup
<1> QED BY Zenon, <1>3, <1>4, <1>5, <1>6, <1>7, <1>8 DEF IInv

-----------------------------------------------------------------------------
(* The disk driver.                                                        *)

\* iderw(): the buffer is queued, and the process sleeps for it.
LEMMA IderwInv ==
  ASSUME IInv, NEW p \in Procs, iderw(p)
  PROVE  IInv'
<1>t. TypeOK /\ Types /\ pc[p] = "start"
  BY Zenon, TypesOK DEF IInv, iderw
<1>i. OneBlock /\ UseInv /\ HolderInv /\ SleepInv /\ QueueInv /\ RequestInv /\ DataInv
  BY Zenon DEF IInv
<1>1. b[p] \in Bufs /\ owner[b[p]] = p /\ ~Queued(b[p])
  BY Zenon, <1>t, HeldNotQueued
<1>2. /\ queue' = Append(queue, b[p])
      /\ request' = IF queue = <<>> THEN idestart(b[p]) ELSE request
      /\ chan' = [chan EXCEPT ![p] = "disk"] /\ Goto(p, "rw")
      /\ UNCHANGED <<buf, lru, owner, disk, b>>
  BY Zenon DEF iderw, cache
<1>3. /\ Len(queue) \in Nat /\ Len(queue') = Len(queue) + 1 /\ queue'[Len(queue) + 1] = b[p]
      /\ \A i \in 1 .. Len(queue) : queue'[i] = queue[i] /\ queue[i] \in Bufs
      /\ queue' # <<>>
  BY <1>t, <1>1, <1>2 DEF Types
<1>4. \A x : Queued(x)' <=> Queued(x) \/ x = b[p]
  BY <1>3 DEF Queued
<1>5. TypeOK'
  <2>1. buf[b[p]] \in BufRec
    BY Zenon, <1>t, <1>1 DEF TypeOK, BufRec
  <2>2. idestart(b[p]) \in [buf : Bufs \cup {NOBUF}, data : Values]
    BY Zenon, <2>1, <1>1, CacheAssumption DEF idestart, BufRec
  <2>3. request' \in [buf : Bufs \cup {NOBUF}, data : Values]
    BY Zenon, <2>2, <1>2, <1>t DEF TypeOK
  <2>4. queue' \in Seq(Bufs)
    BY <1>t, <1>1, <1>2 DEF Types
  <2> QED BY Zenon, <2>3, <2>4, <1>t, <1>2 DEF TypeOK, Goto
<1>6. OneBlock' /\ UseInv'
  <2>1. \A y \in Bufs : Users(y)' = Users(y)
    BY Zenon, <1>t, <1>2, UsersKept
  <2> QED BY Zenon, <1>t, <1>i, <2>1, <1>2 DEF OneBlock, UseInv, Goto, Types
<1>7. HolderInv'
  BY <1>t, <1>i, <1>1, <1>2, CacheAssumption DEF HolderInv, Goto, Types, Working
<1>8. SleepInv'
  <2>1. \A q \in Procs \ {p} : pc[q] = "rw" => b[q] # b[p]
    BY Zenon, <1>i, <1>1 DEF HolderInv, Working
  <2>2. \A q \in Procs : (Queued(b[q]))' <=> Queued(b[q]) \/ b[q] = b[p]
    BY <1>2, <1>3 DEF Queued
  <2>3. /\ pc'[p] = "rw" /\ chan'[p] = "disk"
        /\ \A q \in Procs \ {p} : pc'[q] = pc[q] /\ chan'[q] = chan[q]
    BY Zenon, <1>t, <1>2 DEF Goto, Types
  <2>4. \A q \in Procs : chan'[q] = "disk" <=> pc'[q] = "rw" /\ (Queued(b[q]))'
    BY <2>1, <2>2, <2>3, <1>i DEF SleepInv
  <2>5. \A q \in Procs : chan'[q] = "lock" => pc'[q] = "lock" /\ owner'[b'[q]] # NOPROC
    BY <2>3, <1>2, <1>i DEF SleepInv
  <2> QED BY Zenon, <2>4, <2>5 DEF SleepInv
<1>9. QueueInv'
  <2>1. \A x \in Bufs : Queued(x)' => owner'[x] # NOPROC /\ pc'[owner'[x]] = "rw"
    BY <1>4, <1>t, <1>i, <1>1, <1>2, CacheAssumption DEF QueueInv, Goto, Types
  <2>2. ASSUME NEW i \in 1 .. Len(queue'), NEW j \in 1 .. Len(queue'), queue'[i] = queue'[j]
        PROVE  i = j
    <3>1. \A k \in 1 .. Len(queue) : queue[k] # b[p]
      BY Zenon, <1>1 DEF Queued
    <3> QED BY <3>1, <2>2, <1>3, <1>i DEF QueueInv
  <2> QED BY Zenon, <2>1, <2>2 DEF QueueInv
<1>10. RequestInv'
  <2>1. CASE queue = <<>>
    <3>1. queue'[1] = b[p] /\ request' = idestart(b[p])
      BY <2>1, <1>2, <1>3
    <3> QED BY <3>1, <1>2, <1>3 DEF RequestInv, idestart
  <2>2. CASE queue # <<>>
    <3>1. queue'[1] = queue[1] /\ request' = request
      BY <2>2, <1>t, <1>2, <1>3 DEF Types
    <3> QED BY Zenon, <3>1, <2>2, <1>2, <1>3, <1>i DEF RequestInv
  <2> QED BY Zenon, <2>1, <2>2
<1>11. DataInv'
  BY Zenon, <1>t, <1>i, <1>2 DEF DataInv, Goto, Types
<1> QED BY Zenon, <1>5, <1>6, <1>7, <1>8, <1>9, <1>10, <1>11 DEF IInv

\* The end of iderw(): a process that was woken finds its buffer transferred.
LEMMA WakeInv ==
  ASSUME IInv, NEW p \in Procs, iderw_wake(p)
  PROVE  IInv'
<1>t. TypeOK /\ Types /\ pc[p] = "rw" /\ chan[p] = "none"
  BY Zenon, TypesOK DEF IInv, iderw_wake
<1>i. OneBlock /\ UseInv /\ HolderInv /\ SleepInv /\ QueueInv /\ RequestInv /\ DataInv
  BY Zenon DEF IInv
<1>1. buf[b[p]].valid /\ ~buf[b[p]].dirty
  BY Zenon, <1>t, <1>i DEF DataInv
<1>2. Goto(p, "held") /\ UNCHANGED <<buf, lru, owner, queue, request, disk, b, chan>>
  BY Zenon, <1>1 DEF iderw_wake, Transferred, cache, driver
<1>3. b[p] \in Bufs /\ owner[b[p]] = p /\ ~Queued(b[p])
  BY Zenon, <1>t, <1>i DEF UseInv, HolderInv, SleepInv, Working
<1>4. TypeOK'
  BY Zenon, <1>t, <1>2 DEF TypeOK, Goto
<1>5. OneBlock' /\ UseInv' /\ RequestInv'
  <2>1. \A y \in Bufs : Users(y)' = Users(y)
    BY Zenon, <1>t, <1>2, UsersKept
  <2> QED BY Zenon, <1>t, <1>i, <2>1, <1>2 DEF OneBlock, UseInv, RequestInv, Goto, Types
<1>6. HolderInv'
  BY <1>t, <1>i, <1>2, CacheAssumption DEF HolderInv, Goto, Types, Working
<1>7. SleepInv'
  BY Zenon, <1>t, <1>i, <1>2, <1>3 DEF SleepInv, Queued, Goto, Types
<1>8. QueueInv'
  <2>1. \A x \in Bufs : Queued(x)' = Queued(x)
    BY Zenon, <1>2 DEF Queued
  <2> QED BY <2>1, <1>t, <1>i, <1>2, <1>3, CacheAssumption DEF QueueInv, HolderInv, Goto, Types
<1>9. DataInv'
  BY Zenon, <1>t, <1>i, <1>1, <1>2 DEF DataInv, Goto, Types
<1> QED BY Zenon, <1>4, <1>5, <1>6, <1>7, <1>8, <1>9 DEF IInv

\* ideintr(): the first of the queue is transferred, its process woken, the next one started.
LEMMA InterruptInv ==
  ASSUME IInv, ideintr
  PROVE  IInv'
<1>t. TypeOK /\ Types /\ queue # <<>>
  BY Zenon, TypesOK DEF IInv, ideintr
<1>i. OneBlock /\ UseInv /\ HolderInv /\ SleepInv /\ QueueInv /\ RequestInv /\ DataInv
  BY Zenon DEF IInv
<1>x. PICK x \in Bufs : x = queue[1] /\ x = Head(queue)
  BY <1>t DEF Types
<1>1. Queued(x) /\ 1 \in 1 .. Len(queue)
  BY <1>t, <1>x DEF Types, Queued
<1>k. PICK k \in Blocks : k = buf[x].blockno
  <2>1. owner[x] \in Procs /\ b[owner[x]] = x /\ pc[owner[x]] = "rw"
    BY <1>t, <1>i, <1>1 DEF QueueInv, HolderInv, Types
  <2>2. buf[x].blockno # NOBLK
    BY Zenon, <2>1, <1>i DEF UseInv
  <2> QED BY Zenon, <2>2, <1>t DEF TypeOK
<1>2. buf[x] \in BufRec /\ disk \in [Blocks -> Values]
  BY Zenon, <1>t DEF TypeOK, BufRec
<1> DEFINE d == IF buf[x].dirty THEN buf[x].data ELSE disk[k]
           r == [buf[x] EXCEPT !.data = d, !.valid = TRUE, !.dirty = FALSE]
<1>3. /\ disk' = IF buf[x].dirty THEN [disk EXCEPT ![k] = request.data] ELSE disk
      /\ wakeup(x, "disk") /\ queue' = Tail(queue) /\ request' = NextRequest(Tail(queue))
      /\ UNCHANGED <<lru, owner, pc, b>>
  BY Zenon, <1>x, <1>k DEF ideintr
<1>4. buf' = [buf EXCEPT ![x] = r]
  BY ZenonT(30), <1>t, <1>x, <1>k DEF ideintr, TypeOK
<1>5. /\ r \in BufRec /\ r.data = d /\ r.valid /\ ~r.dirty
      /\ r.blockno = buf[x].blockno /\ r.refcnt = buf[x].refcnt
  <2>1. d \in Values
    BY Zenon, <1>2 DEF BufRec
  <2> HIDE DEF d
  <2> QED BY Zenon, <2>1, <1>2 DEF BufRec
<1>6. disk' \in [Blocks -> Values] /\ disk'[k] = d /\ \A j \in Blocks \ {k} : disk'[j] = disk[j]
  <2>1. buf[x].dirty => request.data = buf[x].data
    BY Zenon, <1>t, <1>i, <1>x DEF RequestInv
  <2>2. request.data \in Values
    BY Zenon, <1>t DEF TypeOK
  <2> QED BY Zenon, <2>1, <2>2, <1>2, <1>3
<1> HIDE DEF r, d
<1>7. /\ buf' \in [Bufs -> BufRec] /\ buf'[x] = r
      /\ \A y \in Bufs : y # x => buf'[y] = buf[y]
  BY Zenon, <1>t, <1>4, <1>5, BufWritten
<1>8. /\ Len(queue') = Len(queue) - 1 /\ Len(queue) \in Nat \ {0} /\ queue' \in Seq(Bufs)
      /\ \A i \in 1 .. Len(queue) - 1 : queue'[i] = queue[i + 1]
  BY <1>t, <1>3 DEF Types
<1>9. \A y \in Bufs : Queued(y)' <=> Queued(y) /\ y # x
  <2> TAKE y \in Bufs
  <2>1. ASSUME Queued(y)' PROVE Queued(y) /\ y # x
    <3>1. PICK i \in 1 .. Len(queue) - 1 : queue[i + 1] = y
      BY Zenon, <2>1, <1>8 DEF Queued
    <3>2. i + 1 \in 1 .. Len(queue) /\ i + 1 # 1
      BY <1>8
    <3> QED BY Zenon, <3>1, <3>2, <1>x, <1>1, <1>i DEF Queued, QueueInv
  <2>2. ASSUME Queued(y), y # x PROVE Queued(y)'
    <3>1. PICK i \in 1 .. Len(queue) : queue[i] = y
      BY Zenon, <2>2 DEF Queued
    <3>2. i - 1 \in 1 .. Len(queue) - 1 /\ queue'[i - 1] = y
      BY <3>1, <2>2, <1>x, <1>8
    <3> QED BY Zenon, <3>2, <1>8 DEF Queued
  <2> QED BY Zenon, <2>1, <2>2
<1>10. \A q \in Procs : chan'[q] = IF b[q] = x /\ chan[q] = "disk" THEN "none" ELSE chan[q]
  BY Zenon, <1>3 DEF wakeup
<1>11. TypeOK'
  <2>1. ASSUME NEW y \in Bufs PROVE idestart(y) \in [buf : Bufs \cup {NOBUF}, data : Values]
    <3>1. buf[y] \in BufRec
      BY Zenon, <1>t DEF TypeOK, BufRec
    <3> QED BY Zenon, <3>1, CacheAssumption DEF idestart, BufRec
  <2>2. request' \in [buf : Bufs \cup {NOBUF}, data : Values]
    <3>1. CASE queue' = <<>>
      BY Zenon, <3>1, <1>3, CacheAssumption DEF NextRequest, Idle
    <3>2. CASE queue' # <<>>
      <4>1. Head(queue') \in Bufs /\ request' = idestart(Head(queue'))
        BY <3>2, <1>3, <1>8 DEF NextRequest
      <4> QED BY Zenon, <4>1, <2>1
    <3> QED BY Zenon, <3>1, <3>2
  <2>3. chan' \in [Procs -> {"none", "lock", "disk"}]
    BY Zenon, <1>t, <1>3 DEF wakeup, Types
  <2> QED BY Zenon, <2>2, <2>3, <1>t, <1>3, <1>6, <1>7, <1>8 DEF TypeOK, BufRec
<1>12. OneBlock' /\ UseInv'
  <2>1. \A y \in Bufs : buf'[y].blockno = buf[y].blockno /\ buf'[y].refcnt = buf[y].refcnt
    BY Zenon, <1>5, <1>7
  <2>2. OneBlock'
    BY Zenon, <2>1, <1>i DEF OneBlock
  <2>3. \A y \in Bufs : Users(y)' = Users(y)
    BY Zenon, <1>3 DEF Users, Uses
  <2>4. \A y \in Bufs : buf'[y].refcnt = Cardinality(Users(y)')
    BY <2>1, <2>3, <1>i DEF UseInv
  <2>5. \A q \in Procs : pc'[q] # "user" => b'[q] \in Bufs /\ buf'[b'[q]].blockno # NOBLK
    BY Zenon, <2>1, <1>3, <1>i DEF UseInv
  <2> QED BY Zenon, <2>2, <2>4, <2>5 DEF UseInv
<1>13. HolderInv'
  BY Zenon, <1>i, <1>3 DEF HolderInv
<1>14. SleepInv'
  <2>1. \A q \in Procs : pc[q] = "rw" => b[q] \in Bufs
    BY Zenon, <1>i DEF UseInv
  <2>2. ASSUME NEW q \in Procs PROVE chan'[q] = "disk" <=> pc'[q] = "rw" /\ (Queued(b[q]))'
    <3>1. CASE pc[q] # "rw"
      BY Zenon, <3>1, <1>3, <1>10, <1>i DEF SleepInv
    <3>2. CASE pc[q] = "rw"
      <4>1. PICK y \in Bufs : y = b[q]
        BY Zenon, <3>2, <2>1
      <4>2. (Queued(b[q]))' <=> Queued(y)'
        BY Zenon, <4>1, <1>3 DEF Queued
      <4>3. chan[q] = "disk" <=> Queued(y)
        BY Zenon, <4>1, <3>2, <1>i DEF SleepInv
      <4>4. Queued(y)' <=> Queued(y) /\ y # x
        BY Zenon, <1>9
      <4>5. chan'[q] = IF y = x /\ chan[q] = "disk" THEN "none" ELSE chan[q]
        BY Zenon, <4>1, <1>10
      <4> QED BY Zenon, <4>2, <4>3, <4>4, <4>5, <3>2, <1>3
    <3> QED BY Zenon, <3>1, <3>2
  <2>3. \A q \in Procs : chan'[q] = "lock" => pc'[q] = "lock" /\ owner'[b'[q]] # NOPROC
    BY Zenon, <1>3, <1>10, <1>i DEF SleepInv
  <2> QED BY Zenon, <2>2, <2>3 DEF SleepInv
<1>15. QueueInv'
  <2>1. \A y \in Bufs : Queued(y)' => owner'[y] # NOPROC /\ pc'[owner'[y]] = "rw"
    BY Zenon, <1>3, <1>9, <1>i DEF QueueInv
  <2>2. ASSUME NEW i \in 1 .. Len(queue'), NEW j \in 1 .. Len(queue'), queue'[i] = queue'[j]
        PROVE  i = j
    <3>1. i + 1 \in 1 .. Len(queue) /\ j + 1 \in 1 .. Len(queue) /\ queue[i + 1] = queue[j + 1]
      BY <2>2, <1>8
    <3>2. i + 1 = j + 1
      BY Zenon, <3>1, <1>i DEF QueueInv
    <3> QED BY <3>2, <1>8
  <2> QED BY Zenon, <2>1, <2>2 DEF QueueInv
<1>16. RequestInv'
  <2>1. CASE queue' = <<>>
    BY Zenon, <2>1, <1>3 DEF RequestInv, NextRequest, Idle
  <2>2. CASE queue' # <<>>
    <3>1. PICK y \in Bufs : y = queue'[1] /\ y = Head(queue')
      BY <2>2, <1>8
    <3>2. Queued(y)'
      BY <3>1, <2>2, <1>8 DEF Queued
    <3>3. y # x /\ buf'[y] = buf[y]
      BY Zenon, <3>2, <1>7, <1>9
    <3>4. request' = idestart(y)
      BY Zenon, <3>1, <2>2, <1>3 DEF NextRequest
    <3> QED BY Zenon, <2>2, <3>1, <3>3, <3>4 DEF RequestInv, idestart
  <2> QED BY Zenon, <2>1, <2>2
<1>17. DataInv'
  <2>1. ASSUME NEW y \in Bufs
        PROVE  /\ buf'[y].dirty => buf'[y].valid
               /\ buf'[y].valid => buf'[y].blockno # NOBLK
               /\ buf'[y].valid /\ ~buf'[y].dirty => buf'[y].data = disk'[buf'[y].blockno]
    <3>1. CASE y = x
      BY Zenon, <3>1, <1>k, <1>5, <1>6, <1>7, CacheAssumption
    <3>2. CASE y # x
      <4>1. buf'[y] = buf[y] /\ buf[y].blockno # k
        BY Zenon, <3>2, <1>k, <1>7, <1>i, CacheAssumption DEF OneBlock
      <4>2. buf[y].blockno \in Blocks \cup {NOBLK}
        BY Zenon, <1>t DEF TypeOK
      <4> QED BY <4>1, <4>2, <1>6, <1>i DEF DataInv
    <3> QED BY Zenon, <3>1, <3>2
  <2>2. ASSUME NEW q \in Procs
        PROVE  /\ pc'[q] = "held" => buf'[b'[q]].valid
               /\ pc'[q] = "rw" /\ chan'[q] = "none" => buf'[b'[q]].valid /\ ~buf'[b'[q]].dirty
    <3>1. pc[q] # "user" => b[q] \in Bufs
      BY Zenon, <1>i DEF UseInv
    <3>2. CASE b[q] = x
      BY Zenon, <3>2, <1>3, <1>5, <1>7
    <3>3. CASE b[q] # x
      BY Zenon, <3>1, <3>3, <1>3, <1>7, <1>10, <1>i DEF DataInv
    <3> QED BY Zenon, <3>2, <3>3
  <2> QED BY Zenon, <2>1, <2>2 DEF DataInv
<1> QED BY Zenon, <1>11, <1>12, <1>13, <1>14, <1>15, <1>16, <1>17 DEF IInv

-----------------------------------------------------------------------------
(* bget(), brelse() and the theorems.                                      *)

\* brelse(): the process gives up its use of the buffer.
LEMMA BrelseInv ==
  ASSUME IInv, NEW p \in Procs, brelse(p)
  PROVE  IInv'
<1>t. TypeOK /\ Types /\ pc[p] = "rel"
  BY Zenon, TypesOK DEF IInv, brelse
<1>i. OneBlock /\ UseInv /\ HolderInv /\ SleepInv /\ QueueInv /\ RequestInv /\ DataInv
  BY Zenon DEF IInv
<1>x. PICK x \in Bufs : x = b[p]
  BY Zenon, <1>t, <1>i DEF UseInv
<1> DEFINE r == [buf[x] EXCEPT !.refcnt = buf[x].refcnt - 1]
<1>1. chan[p] = "none" /\ (\A y \in Bufs : owner[y] # p)
  BY <1>t, <1>i DEF SleepInv, HolderInv, Types, Working
<1>2. /\ b' = [b EXCEPT ![p] = NOBUF] /\ Goto(p, "user")
      /\ UNCHANGED <<owner, queue, request, disk, chan>>
  BY Zenon DEF brelse, driver
<1>3. /\ pc'[p] = "user" /\ b'[p] = NOBUF
      /\ \A q \in Procs \ {p} : pc'[q] = pc[q] /\ b'[q] = b[q]
  BY Zenon, <1>t, <1>2 DEF Goto, Types
<1>4. /\ \A y \in Bufs \ {x} : Users(y)' = Users(y)
      /\ Users(x)' = Users(x) \ {p} /\ p \in Users(x)
  BY Zenon, <1>t, <1>x, <1>3 DEF Users, Uses, NOBUF, Bufs
<1>5. /\ Cardinality(Users(x)') = Cardinality(Users(x)) - 1
      /\ Cardinality(Users(x)') \in Nat /\ Cardinality(Users(x)) \in Nat
  BY <1>4, UsersFinite, FS_RemoveElement, FS_CardinalityType
<1>6. buf[x] \in BufRec /\ buf[x].refcnt = Cardinality(Users(x))
  BY Zenon, <1>t, <1>i, <1>1 DEF TypeOK, BufRec, UseInv
<1>7. /\ r \in BufRec /\ r.dirty = buf[x].dirty /\ r.data = buf[x].data /\ r.valid = buf[x].valid
      /\ r.blockno = buf[x].blockno /\ r.refcnt = Cardinality(Users(x)')
  <2>1. buf[x].refcnt - 1 \in 0 .. Cardinality(Procs)
    BY <1>5, <1>6, CacheAssumption, FS_CardinalityType DEF BufRec
  <2> QED BY Zenon, <2>1, <1>5, <1>6 DEF BufRec
<1>8. buf' = [buf EXCEPT ![x] = r]
  BY Zenon, <1>t, <1>x DEF brelse, Unref, TypeOK
<1> HIDE DEF r
<1>9. /\ buf' \in [Bufs -> BufRec] /\ buf'[x] = r
      /\ \A y \in Bufs : y # x => buf'[y] = buf[y]
  BY Zenon, <1>t, <1>1, <1>7, <1>8, BufWritten
<1>10. \A y \in Bufs : /\ buf'[y].blockno = buf[y].blockno /\ buf'[y].valid = buf[y].valid
                       /\ buf'[y].dirty = buf[y].dirty /\ buf'[y].data = buf[y].data
  BY Zenon, <1>7, <1>9
<1>11. TypeOK'
  <2>1. lru' \in [Bufs -> Bufs] /\ \A y \in Bufs : \E i \in Bufs : lru'[i] = y
    <3>1. lru' = MoveToFront(x) \/ lru' = lru
      BY Zenon, <1>x DEF brelse
    <3>2. lru \in [Bufs -> Bufs] /\ \A y \in Bufs : \E i \in Bufs : lru[i] = y
      BY Zenon, <1>t DEF TypeOK
    <3>3. MoveToFront(x) \in [Bufs -> Bufs] /\ \A y \in Bufs : \E i \in Bufs : MoveToFront(x)[i] = y
      BY Zenon, <1>t, FrontKeepsAll
    <3>4. CASE lru' = MoveToFront(x)
      BY Zenon, <3>3, <3>4
    <3>5. CASE lru' = lru
      BY Zenon, <3>2, <3>5
    <3> QED BY Zenon, <3>1, <3>4, <3>5
  <2> QED BY Zenon, <1>t, <2>1, <1>9, <1>2 DEF TypeOK, Goto, BufRec
<1>12. OneBlock' /\ UseInv'
  <2>1. OneBlock'
    BY <1>i, <1>10 DEF OneBlock
  <2>2. \A y \in Bufs : buf'[y].refcnt = Cardinality(Users(y)')
    <3> TAKE y \in Bufs
    <3>1. CASE y = x
      BY Zenon, <3>1, <1>7, <1>9
    <3>2. CASE y # x
      BY Zenon, <3>2, <1>i, <1>4, <1>9 DEF UseInv
    <3> QED BY Zenon, <3>1, <3>2
  <2>3. \A q \in Procs : pc'[q] # "user" => b'[q] \in Bufs /\ buf'[b'[q]].blockno # NOBLK
    BY <1>i, <1>3, <1>10 DEF UseInv
  <2> QED BY Zenon, <2>1, <2>2, <2>3 DEF UseInv
<1>13. HolderInv'
  BY <1>i, <1>1, <1>2, <1>3, CacheAssumption DEF HolderInv, Working
<1>14. SleepInv'
  BY <1>i, <1>1, <1>2, <1>3 DEF SleepInv, Queued
<1>15. QueueInv'
  <2>1. \A y \in Bufs : Queued(y)' = Queued(y)
    BY Zenon, <1>2 DEF Queued
  <2> QED BY <2>1, <1>t, <1>i, <1>1, <1>2, <1>3 DEF QueueInv, Types
<1>16. RequestInv'
  <2>1. queue # <<>> => queue[1] \in Bufs
    BY <1>t DEF Types
  <2> QED BY Zenon, <2>1, <1>i, <1>2, <1>10 DEF RequestInv
<1>17. DataInv'
  <2>1. \A q \in Procs : pc[q] \in Working => b[q] \in Bufs
    BY Zenon, <1>i DEF UseInv, Working
  <2>2. ASSUME NEW y \in Bufs
        PROVE  /\ buf'[y].dirty => buf'[y].valid
               /\ buf'[y].valid => buf'[y].blockno # NOBLK
               /\ buf'[y].valid /\ ~buf'[y].dirty => buf'[y].data = disk'[buf'[y].blockno]
    BY <1>i, <1>2, <1>10 DEF DataInv
  <2>3. ASSUME NEW q \in Procs
        PROVE  /\ pc'[q] = "held" => buf'[b'[q]].valid
               /\ pc'[q] = "rw" /\ chan'[q] = "none" => buf'[b'[q]].valid /\ ~buf'[b'[q]].dirty
    BY <2>1, <1>i, <1>2, <1>3, <1>10 DEF DataInv, Working
  <2> QED BY Zenon, <2>2, <2>3 DEF DataInv
<1> QED BY Zenon, <1>11, <1>12, <1>13, <1>14, <1>15, <1>16, <1>17 DEF IInv

\* A process that begins to use x is counted, and changes nothing of the locks and the queue.
LEMMA UseBegins ==
  ASSUME IInv, NEW p \in Procs, NEW x \in Bufs, pc[p] = "user", Goto(p, "lock"),
         b' = [b EXCEPT ![p] = x], UNCHANGED <<owner, queue, chan>>
  PROVE  /\ Users(x)' = Users(x) \cup {p}
         /\ Cardinality(Users(x)') = Cardinality(Users(x)) + 1
         /\ Cardinality(Users(x)') \in 0 .. Cardinality(Procs)
         /\ \A y \in Bufs \ {x} : Users(y)' = Users(y)
         /\ pc'[p] = "lock" /\ b'[p] = x
         /\ \A q \in Procs \ {p} : pc'[q] = pc[q] /\ b'[q] = b[q]
         /\ HolderInv' /\ SleepInv' /\ QueueInv'
<1>t. TypeOK /\ Types
  BY Zenon, TypesOK DEF IInv
<1>i. UseInv /\ HolderInv /\ SleepInv /\ QueueInv
  BY Zenon DEF IInv
<1>1. /\ pc'[p] = "lock" /\ b'[p] = x
      /\ \A q \in Procs \ {p} : pc'[q] = pc[q] /\ b'[q] = b[q]
  BY Zenon, <1>t DEF Goto, Types
<1>2. chan[p] = "none" /\ (\A y \in Bufs : owner[y] # p)
  BY <1>t, <1>i DEF SleepInv, HolderInv, Types, Working
<1>3. /\ Users(x)' = Users(x) \cup {p} /\ p \notin Users(x)
      /\ \A y \in Bufs \ {x} : Users(y)' = Users(y)
  BY Zenon, <1>1 DEF Users, Uses
<1>4. Cardinality(Users(x)') = Cardinality(Users(x)) + 1
  BY ZenonT(30), <1>3, UsersFinite, FS_AddElement
<1>5. Cardinality(Users(x)') \in 0 .. Cardinality(Procs)
  <2>1. Users(x)' \subseteq Procs
    BY Zenon DEF Users
  <2>2. Cardinality(Users(x)') <= Cardinality(Procs) /\ Cardinality(Users(x)') \in Nat
    BY Zenon, <2>1, CacheAssumption, FS_Subset, FS_CardinalityType
  <2> QED BY <2>2, CacheAssumption, FS_CardinalityType
<1>6. HolderInv'
  BY <1>i, <1>1, <1>2, CacheAssumption DEF HolderInv, Working
<1>7. SleepInv'
  BY <1>i, <1>1, <1>2 DEF SleepInv, Queued
<1>8. QueueInv'
  <2>1. \A y \in Bufs : Queued(y)' = Queued(y)
    BY Zenon DEF Queued
  <2> QED BY <2>1, <1>t, <1>i, <1>1, <1>2 DEF QueueInv, Types
<1> QED BY Zenon, <1>1, <1>3, <1>4, <1>5, <1>6, <1>7, <1>8

\* bget(): the block is found, or gets a buffer that nobody uses and the log does not need.
LEMMA BgetInv ==
  ASSUME IInv, NEW p \in Procs, NEW k \in Blocks, bget(p, k)
  PROVE  IInv'
<1>t. TypeOK /\ Types /\ pc[p] = "user"
  BY Zenon, TypesOK DEF IInv, bget
<1>i. OneBlock /\ UseInv /\ HolderInv /\ SleepInv /\ QueueInv /\ RequestInv /\ DataInv
  BY Zenon DEF IInv
<1>1. Goto(p, "lock") /\ UNCHANGED <<lru, owner, queue, request, disk, chan>>
  BY Zenon DEF bget, driver
<1>k. k # NOBLK
  BY Zenon, CacheAssumption
<1>2. ASSUME NEW x \in Bufs, buf[x].blockno = k, b' = [b EXCEPT ![p] = x],
             buf' = [buf EXCEPT ![x].refcnt = @ + 1]
      PROVE  IInv'
  <2> DEFINE r == [buf[x] EXCEPT !.refcnt = buf[x].refcnt + 1]
  <2>u. /\ Cardinality(Users(x)') = Cardinality(Users(x)) + 1
        /\ Cardinality(Users(x)') \in 0 .. Cardinality(Procs)
        /\ \A y \in Bufs \ {x} : Users(y)' = Users(y)
        /\ pc'[p] = "lock" /\ b'[p] = x
        /\ \A q \in Procs \ {p} : pc'[q] = pc[q] /\ b'[q] = b[q]
        /\ HolderInv' /\ SleepInv' /\ QueueInv'
    BY Zenon, <1>t, <1>1, <1>2, UseBegins
  <2>1. buf[x] \in BufRec /\ buf[x].refcnt = Cardinality(Users(x))
    BY Zenon, <1>t, <1>i DEF TypeOK, BufRec, UseInv
  <2>2. /\ r \in BufRec /\ r.dirty = buf[x].dirty /\ r.data = buf[x].data /\ r.valid = buf[x].valid
        /\ r.blockno = buf[x].blockno /\ r.refcnt = Cardinality(Users(x)')
    BY Zenon, <2>u, <2>1 DEF BufRec
  <2>3. buf' = [buf EXCEPT ![x] = r]
    BY Zenon, <1>t, <1>2 DEF TypeOK
  <2> HIDE DEF r
  <2>4. /\ buf' \in [Bufs -> BufRec] /\ buf'[x] = r
        /\ \A y \in Bufs : y # x => buf'[y] = buf[y]
    BY Zenon, <1>t, <2>2, <2>3, BufWritten
  <2>5. \A y \in Bufs : /\ buf'[y].blockno = buf[y].blockno /\ buf'[y].valid = buf[y].valid
                        /\ buf'[y].dirty = buf[y].dirty /\ buf'[y].data = buf[y].data
    BY Zenon, <2>2, <2>4
  <2>6. TypeOK'
    BY Zenon, <1>t, <1>1, <1>2, <2>4 DEF TypeOK, Goto, BufRec
  <2>7. OneBlock'
    BY <1>i, <2>5 DEF OneBlock
  <2>8. UseInv'
    <3>1. \A y \in Bufs : buf'[y].refcnt = Cardinality(Users(y)')
      <4> TAKE y \in Bufs
      <4>1. CASE y = x
        BY Zenon, <4>1, <2>2, <2>4
      <4>2. CASE y # x
        BY ZenonT(30), <4>2, <1>i, <2>u, <2>4 DEF UseInv
      <4> QED BY Zenon, <4>1, <4>2
    <3>2. \A q \in Procs : pc'[q] # "user" => b'[q] \in Bufs /\ buf'[b'[q]].blockno # NOBLK
      BY <1>i, <1>k, <1>2, <2>u, <2>5 DEF UseInv
    <3> QED BY Zenon, <3>1, <3>2 DEF UseInv
  <2>9. RequestInv'
    <3>1. queue # <<>> => queue[1] \in Bufs
      BY <1>t DEF Types
    <3> QED BY Zenon, <3>1, <1>i, <1>1, <2>5 DEF RequestInv
  <2>10. DataInv'
    <3>1. \A q \in Procs : pc[q] \in Working => b[q] \in Bufs
      BY Zenon, <1>i DEF UseInv, Working
    <3>2. ASSUME NEW y \in Bufs
          PROVE  /\ buf'[y].dirty => buf'[y].valid
                 /\ buf'[y].valid => buf'[y].blockno # NOBLK
                 /\ buf'[y].valid /\ ~buf'[y].dirty => buf'[y].data = disk'[buf'[y].blockno]
      BY <1>i, <1>1, <2>5 DEF DataInv
    <3>3. ASSUME NEW q \in Procs
          PROVE  /\ pc'[q] = "held" => buf'[b'[q]].valid
                 /\ pc'[q] = "rw" /\ chan'[q] = "none" => buf'[b'[q]].valid /\ ~buf'[b'[q]].dirty
      BY <3>1, <1>i, <1>1, <2>u, <2>5 DEF DataInv, Working
    <3> QED BY ZenonT(30), <3>2, <3>3 DEF DataInv
  <2> QED BY Zenon, <2>u, <2>6, <2>7, <2>8, <2>9, <2>10 DEF IInv
<1>3. ASSUME NEW x \in Bufs, Recyclable(x), Cached(k) = {}, b' = [b EXCEPT ![p] = x],
             buf' = [buf EXCEPT ![x] = Recycled(x, k)]
      PROVE  IInv'
  <2> DEFINE r == Recycled(x, k)
  <2>u. /\ Cardinality(Users(x)') = Cardinality(Users(x)) + 1
        /\ Cardinality(Users(x)') \in 0 .. Cardinality(Procs)
        /\ \A y \in Bufs \ {x} : Users(y)' = Users(y)
        /\ pc'[p] = "lock" /\ b'[p] = x
        /\ \A q \in Procs \ {p} : pc'[q] = pc[q] /\ b'[q] = b[q]
        /\ HolderInv' /\ SleepInv' /\ QueueInv'
    BY Zenon, <1>t, <1>1, <1>3, UseBegins
  <2>1. buf[x] \in BufRec /\ Cardinality(Users(x)) = 0
    BY Zenon, <1>t, <1>i, <1>3 DEF TypeOK, BufRec, UseInv, Recyclable
  <2>2. \A q \in Procs : pc[q] # "user" => b[q] # x
    <3>1. Users(x) = {}
      BY Zenon, <2>1, UsersFinite, FS_EmptySet
    <3> QED BY Zenon, <3>1 DEF Users, Uses
  <2>3. /\ r \in BufRec /\ ~r.dirty /\ ~r.valid /\ r.blockno = k
        /\ r.refcnt = Cardinality(Users(x)')
    <3>1. Cardinality(Users(x)') = 1 /\ 1 \in 0 .. Cardinality(Procs)
      BY <2>u, <2>1
    <3>2. r = [buf[x] EXCEPT !.blockno = k, !.refcnt = 1, !.valid = FALSE, !.dirty = FALSE]
      BY Zenon DEF Recycled
    <3> HIDE DEF r
    <3> QED BY Zenon, <3>1, <3>2, <2>1 DEF BufRec
  <2>4. /\ buf' \in [Bufs -> BufRec] /\ buf'[x] = r
        /\ \A y \in Bufs : y # x => buf'[y] = buf[y]
    BY Zenon, <1>t, <1>3, <2>3, BufWritten
  <2> HIDE DEF r
  <2>6. TypeOK'
    BY Zenon, <1>t, <1>1, <1>3, <2>4 DEF TypeOK, Goto, BufRec
  <2>7. OneBlock'
    BY <1>i, <1>3, <2>3, <2>4 DEF OneBlock, Cached
  <2>8. UseInv'
    <3>1. \A y \in Bufs : buf'[y].refcnt = Cardinality(Users(y)')
      <4> TAKE y \in Bufs
      <4>1. CASE y = x
        BY Zenon, <4>1, <2>3, <2>4
      <4>2. CASE y # x
        BY Zenon, <4>2, <1>i, <2>u, <2>4 DEF UseInv
      <4> QED BY Zenon, <4>1, <4>2
    <3>2. \A q \in Procs : pc'[q] # "user" => b'[q] \in Bufs /\ buf'[b'[q]].blockno # NOBLK
      BY <1>i, <1>k, <1>3, <2>u, <2>2, <2>3, <2>4 DEF UseInv
    <3> QED BY Zenon, <3>1, <3>2 DEF UseInv
  <2>9. RequestInv'
    <3>1. \A y \in Bufs : Queued(y) => y # x
      <4>1. ASSUME Queued(x) PROVE FALSE
        <5>1. owner[x] # NOPROC /\ pc[owner[x]] = "rw"
          BY Zenon, <4>1, <1>i DEF QueueInv
        <5>2. owner[x] \in Procs /\ b[owner[x]] = x
          BY <5>1, <1>t, <1>i DEF Types, HolderInv
        <5> QED BY Zenon, <5>1, <5>2, <2>2
      <4> QED BY Zenon, <4>1
    <3>2. queue # <<>> => queue[1] \in Bufs /\ Queued(queue[1])
      BY <1>t DEF Types, Queued
    <3> QED BY Zenon, <3>1, <3>2, <1>i, <1>1, <2>4 DEF RequestInv
  <2>10. DataInv'
    <3>1. \A q \in Procs : pc[q] \in Working => b[q] \in Bufs /\ b[q] # x
      BY ZenonT(30), <1>i, <2>2 DEF UseInv, Working
    <3>2. ASSUME NEW y \in Bufs
          PROVE  /\ buf'[y].dirty => buf'[y].valid
                 /\ buf'[y].valid => buf'[y].blockno # NOBLK
                 /\ buf'[y].valid /\ ~buf'[y].dirty => buf'[y].data = disk'[buf'[y].blockno]
      <4>1. CASE y = x
        BY Zenon, <4>1, <2>3, <2>4
      <4>2. CASE y # x
        BY ZenonT(30), <4>2, <1>i, <1>1, <2>4 DEF DataInv
      <4> QED BY Zenon, <4>1, <4>2
    <3>3. ASSUME NEW q \in Procs
          PROVE  /\ pc'[q] = "held" => buf'[b'[q]].valid
                 /\ pc'[q] = "rw" /\ chan'[q] = "none" => buf'[b'[q]].valid /\ ~buf'[b'[q]].dirty
      <4>1. CASE q = p
        BY Zenon, <4>1, <2>u
      <4>2. CASE q # p
        <5>1. pc'[q] = pc[q] /\ b'[q] = b[q] /\ chan'[q] = chan[q]
          BY Zenon, <4>2, <2>u, <1>1
        <5>2. pc[q] \in Working => buf'[b[q]] = buf[b[q]]
          BY Zenon, <3>1, <2>4
        <5> QED BY Zenon, <5>1, <5>2, <1>i DEF DataInv, Working
      <4> QED BY ZenonT(30), <4>1, <4>2
    <3> QED BY Zenon, <3>2, <3>3 DEF DataInv
  <2> QED BY Zenon, <2>u, <2>6, <2>7, <2>8, <2>9, <2>10 DEF IInv
<1>4. CASE \E x \in Cached(k) : /\ buf' = [buf EXCEPT ![x].refcnt = @ + 1]
                                /\ b' = [b EXCEPT ![p] = x]
  BY Zenon, <1>2, <1>4 DEF Cached
<1>5. CASE /\ Cached(k) = {} /\ \E x \in Bufs : Recyclable(x)
           /\ buf' = [buf EXCEPT ![Victim] = Recycled(Victim, k)]
           /\ b' = [b EXCEPT ![p] = Victim]
  <2>1. PICK x \in Bufs : x = Victim /\ Recyclable(x)
    BY Zenon, <1>t, <1>5, VictimRecyclable
  <2> QED BY Zenon, <2>1, <1>3, <1>5
<1> QED BY Zenon, <1>4, <1>5 DEF bget

-----------------------------------------------------------------------------
(* The theorems.                                                           *)

\* Every step keeps the invariant.
LEMMA NextIInv == IInv /\ [Next]_vars => IInv'
<1> SUFFICES ASSUME IInv, [Next]_vars PROVE IInv'
  OBVIOUS
<1>1. CASE ideintr
  BY Zenon, <1>1, InterruptInv
<1>2. CASE \E p \in Procs : Kernel(p)
  BY Zenon, <1>2, AcquireInv, IderwInv, WakeInv, BrelseInv DEF Kernel
<1>3. CASE \E p \in Procs : releasesleep(p)
  BY Zenon, <1>3, ReleaseInv
<1>4. CASE \E p \in Procs, k \in Blocks : bget(p, k)
  BY Zenon, <1>4, BgetInv
<1>5. CASE \E p \in Procs, v \in Values : log_write(p, v)
  <2>1. PICK p \in Procs, v \in Values : log_write(p, v)
    BY Zenon, <1>5
  <2>2. Types /\ pc[p] = "held"
    BY Zenon, <2>1, TypesOK DEF IInv, log_write
  <2>3. Goto(p, "held")
    BY Zenon, <2>1, <2>2 DEF log_write, local, Goto, Types
  <2>4. /\ buf' = [buf EXCEPT ![b[p]].data = v, ![b[p]].dirty = TRUE]
        /\ UNCHANGED <<lru, owner, queue, request, disk, b, chan>>
    BY Zenon, <2>1 DEF log_write, local, driver
  <2> QED BY Zenon, <2>2, <2>3, <2>4, ModifyInv
<1>6. CASE \E p \in Procs, v \in Values : bwrite(p, v)
  <2>1. PICK p \in Procs, v \in Values : bwrite(p, v)
    BY Zenon, <1>6
  <2>2. /\ pc[p] = "held" /\ Goto(p, "start")
        /\ buf' = [buf EXCEPT ![b[p]].data = v, ![b[p]].dirty = TRUE]
        /\ UNCHANGED <<lru, owner, queue, request, disk, b, chan>>
    BY Zenon, <2>1 DEF bwrite, driver
  <2> QED BY Zenon, <2>2, ModifyInv
<1>7. CASE UNCHANGED vars
  <2>1. UNCHANGED <<buf, lru, owner, queue, request, disk, pc, b, chan>>
    BY Zenon, <1>7 DEF vars
  <2>2. TypeOK'
    BY Zenon, <2>1 DEF IInv, TypeOK
  <2>3. OneBlock' /\ UseInv'
    <3>1. \A x \in Bufs : Users(x)' = Users(x)
      BY Zenon, <2>1 DEF Users, Uses
    <3>2. OneBlock'
      BY Zenon, <2>1 DEF IInv, OneBlock
    <3>3. UseInv'
      BY Zenon, <2>1, <3>1 DEF IInv, UseInv
    <3> QED BY Zenon, <3>2, <3>3
  <2>4. HolderInv' /\ SleepInv' /\ QueueInv'
    BY <2>1 DEF IInv, HolderInv, SleepInv, QueueInv, Queued
  <2>5. RequestInv' /\ DataInv'
    BY Zenon, <2>1 DEF IInv, RequestInv, DataInv
  <2> QED BY Zenon, <2>2, <2>3, <2>4, <2>5 DEF IInv
<1> QED BY Zenon, <1>1, <1>2, <1>3, <1>4, <1>5, <1>6, <1>7 DEF Next

\* The inductive invariant of the cache, the sleep locks and the driver.
THEOREM CacheInvariance == Spec => []IInv
BY InitIInv, NextIInv, PTL DEF Spec

\* Every variable keeps its type; the list that bget() and brelse() work on holds every buffer.
THEOREM CacheTypeCorrect == Spec => []TypeOK
<1>1. IInv => TypeOK
  BY Zenon DEF IInv
<1> QED BY <1>1, CacheInvariance, PTL

\* A block is in one buffer at most, and refcnt counts the processes between bget() and the end
\* of brelse().
THEOREM BlocksUnique == Spec => []OneBuffer
<1>1. IInv => OneBuffer
  <2> SUFFICES ASSUME IInv PROVE OneBuffer
    OBVIOUS
  <2>1. ASSUME NEW k \in Blocks PROVE Cardinality(Cached(k)) <= 1
    <3>1. \A x, y \in Cached(k) : x = y
      BY Zenon, CacheAssumption DEF IInv, OneBlock, Cached
    <3>2. Cached(k) = {} \/ \E x : Cached(k) = {x}
      BY Zenon, <3>1
    <3>3. Cardinality(Cached(k)) = 0 \/ Cardinality(Cached(k)) = 1
      <4>1. CASE Cached(k) = {}
        BY Zenon, <4>1, FS_EmptySet
      <4>2. CASE \E x : Cached(k) = {x}
        BY ZenonT(30), <4>2, FS_Singleton
      <4> QED BY Zenon, <3>2, <4>1, <4>2
    <3> QED BY <3>3
  <2>2. \A x \in Bufs : Users(x) = {p \in Procs : Uses(p, x)}
    BY Zenon DEF Users
  <2> QED BY Zenon, <2>1, <2>2 DEF OneBuffer, IInv, UseInv
<1> QED BY <1>1, CacheInvariance, PTL

\* No process sleeps for a lock that is free or for a transfer that nobody asked for, and the
\* disk works whenever something is queued.
THEOREM NoWakeupLost == Spec => []NoLostWakeup
<1>1. IInv => NoLostWakeup
  <2> SUFFICES ASSUME IInv PROVE NoLostWakeup
    OBVIOUS
  <2>1. Types
    BY Zenon, TypesOK DEF IInv
  <2>2. \A x : x \in Range(queue) <=> Queued(x)
    BY <2>1 DEF Range, Queued, Types
  <2>3. \A p \in Procs : chan[p] = "lock" => owner[b[p]] # NOPROC
    BY Zenon DEF IInv, SleepInv
  <2>4. \A p \in Procs : chan[p] = "disk" => b[p] \in Range(queue)
    BY Zenon, <2>2 DEF IInv, SleepInv
  <2>5. request.buf = IF queue = <<>> THEN NOBUF ELSE Head(queue)
    BY <2>1 DEF IInv, RequestInv, Types
  <2>6. IsInjective(queue)
    BY <2>1 DEF IInv, QueueInv, IsInjective, Types
  <2> QED BY Zenon, <2>3, <2>4, <2>5, <2>6 DEF NoLostWakeup
<1> QED BY <1>1, CacheInvariance, PTL

\* Only its holder has a buffer transferred, and a valid buffer that is not dirty is as on disk.
THEOREM CacheCoherent == Spec => []Coherent
<1>1. IInv => Coherent
  <2> SUFFICES ASSUME IInv, NEW x \in Bufs
               PROVE  /\ x \in Range(queue) => \E p \in Procs : owner[x] = p /\ b[p] = x /\ pc[p] = "rw"
                      /\ buf[x].valid /\ ~buf[x].dirty => buf[x].data = disk[buf[x].blockno]
    BY Zenon DEF Coherent
  <2>1. Types
    BY Zenon, TypesOK DEF IInv
  <2>2. x \in Range(queue) => Queued(x)
    BY <2>1 DEF Range, Queued, Types
  <2>3. Queued(x) => owner[x] \in Procs /\ pc[owner[x]] = "rw" /\ b[owner[x]] = x
    BY <2>1 DEF IInv, QueueInv, HolderInv, Types
  <2>4. buf[x].valid /\ ~buf[x].dirty => buf[x].data = disk[buf[x].blockno]
    BY Zenon DEF IInv, DataInv
  <2> QED BY Zenon, <2>2, <2>3, <2>4
<1> QED BY <1>1, CacheInvariance, PTL

-----------------------------------------------------------------------------
(* The refinement of BlockStore.                                           *)

\* What Memory() says of the buffers f and the disk d.
Content(f, d, k) ==
  LET C == {x \in Bufs : f[x].blockno = k} IN
  IF \E x \in C : f[x].valid \/ f[x].dirty THEN f[CHOOSE x \in C : TRUE].data ELSE d[k]

\* The part of the invariant that Content() depends on.
ContentInv(f, d) ==
  /\ \A x, y \in Bufs : f[x].blockno = f[y].blockno /\ f[x].blockno # NOBLK => x = y
  /\ \A x \in Bufs : f[x].valid /\ ~f[x].dirty => f[x].data = d[f[x].blockno]

\* A block is what its buffer holds if that is dirty, and what the disk holds otherwise.
LEMMA ContentIs ==
  ASSUME NEW f, NEW d, ContentInv(f, d), NEW k \in Blocks
  PROVE  /\ \A x \in Bufs : f[x].blockno = k /\ f[x].dirty => Content(f, d, k) = f[x].data
         /\ (\A x \in Bufs : f[x].blockno = k => ~f[x].dirty) => Content(f, d, k) = d[k]
<1> DEFINE C == {x \in Bufs : f[x].blockno = k}
           z == CHOOSE x \in C : TRUE
<1>1. ASSUME NEW x \in Bufs, f[x].blockno = k, f[x].valid \/ f[x].dirty
      PROVE  Content(f, d, k) = f[x].data
  <2>1. x \in C
    BY Zenon, <1>1
  <2>2. z \in C
    BY Zenon, <2>1
  <2>3. z = x
    BY Zenon, <2>1, <2>2, CacheAssumption DEF ContentInv
  <2>4. Content(f, d, k) = f[z].data
    BY Zenon, <2>1, <1>1 DEF Content
  <2> HIDE DEF z
  <2> QED BY Zenon, <2>3, <2>4
<1>2. ASSUME \A x \in Bufs : f[x].blockno = k => ~f[x].dirty
      PROVE  Content(f, d, k) = d[k]
  <2>1. CASE \E x \in C : f[x].valid
    <3>1. PICK x \in Bufs : f[x].blockno = k /\ f[x].valid /\ ~f[x].dirty
      BY Zenon, <1>2, <2>1
    <3> QED BY Zenon, <3>1, <1>1 DEF ContentInv
  <2>2. CASE ~ \E x \in C : f[x].valid
    BY Zenon, <1>2, <2>2 DEF Content
  <2> QED BY Zenon, <2>1, <2>2
<1> QED BY Zenon, <1>1, <1>2

\* The invariant gives it before and after a step.
LEMMA MemoryIs ==
  ASSUME IInv, IInv', NEW k \in Blocks
  PROVE  /\ Memory(k) = Content(buf, disk, k) /\ ContentInv(buf, disk)
         /\ Memory(k)' = Content(buf', disk', k) /\ ContentInv(buf', disk')
BY Zenon DEF Memory, Cached, Content, ContentInv, IInv, OneBlock, DataInv

\* Short for the variables of BlockStore.
Mem == [k \in Blocks |-> Memory(k)]
Pins == {k \in Blocks : \E x \in Cached(k) : buf[x].dirty}

\* The same for what the store has of a block that is dirty, ...
LEMMA DirtyIs ==
  ASSUME IInv, IInv', NEW k \in Blocks, NEW x \in Bufs
  PROVE  /\ buf[x].blockno = k /\ buf[x].dirty => Memory(k) = buf[x].data /\ k \in Pins
         /\ buf'[x].blockno = k /\ buf'[x].dirty => Memory(k)' = buf'[x].data /\ k \in Pins'
<1>1. buf[x].blockno = k /\ buf[x].dirty => Memory(k) = buf[x].data
  BY MemoryIs, ContentIs
<1>2. buf'[x].blockno = k /\ buf'[x].dirty => Memory(k)' = buf'[x].data
  BY MemoryIs, ContentIs
<1> QED BY Zenon, <1>1, <1>2 DEF Pins, Cached

\* ... and of one that is not.
LEMMA CleanIs ==
  ASSUME IInv, IInv', NEW k \in Blocks
  PROVE  /\ (\A x \in Bufs : buf[x].blockno = k => ~buf[x].dirty) => Memory(k) = disk[k] /\ k \notin Pins
         /\ (\A x \in Bufs : buf'[x].blockno = k => ~buf'[x].dirty) => Memory(k)' = disk'[k] /\ k \notin Pins'
<1>1. (\A x \in Bufs : buf[x].blockno = k => ~buf[x].dirty) => Memory(k) = disk[k]
  BY MemoryIs, ContentIs
<1>2. (\A x \in Bufs : buf'[x].blockno = k => ~buf'[x].dirty) => Memory(k)' = disk'[k]
  BY MemoryIs, ContentIs
<1> QED BY Zenon, <1>1, <1>2 DEF Pins, Cached

\* A step that leaves alone a block on disk and in a dirty buffer is not seen of that block.
LEMMA BlockKept ==
  ASSUME IInv, IInv', NEW k \in Blocks, disk'[k] = disk[k],
         \A x \in Bufs : /\ buf'[x].blockno = k /\ buf'[x].dirty <=> buf[x].blockno = k /\ buf[x].dirty
                         /\ buf[x].blockno = k /\ buf[x].dirty => buf'[x].data = buf[x].data
  PROVE  Memory(k)' = Memory(k) /\ (k \in Pins' <=> k \in Pins)
<1>1. CASE \E x \in Bufs : buf[x].blockno = k /\ buf[x].dirty
  BY <1>1, DirtyIs
<1>2. CASE \A x \in Bufs : buf[x].blockno = k => ~buf[x].dirty
  BY Zenon, <1>2, CleanIs
<1> QED BY Zenon, <1>1, <1>2

\* A step that leaves the disk and the dirty buffers alone is not seen.
LEMMA Unseen ==
  ASSUME IInv, IInv', disk' = disk,
         \A x \in Bufs : /\ buf'[x].dirty <=> buf[x].dirty
                         /\ buf[x].dirty => buf'[x].blockno = buf[x].blockno /\ buf'[x].data = buf[x].data
  PROVE  UNCHANGED <<Mem, disk, Pins>>
<1>1. \A k \in Blocks : Memory(k)' = Memory(k) /\ (k \in Pins' <=> k \in Pins)
  BY Zenon, BlockKept
<1>2. Mem' = Mem
  BY Zenon, <1>1 DEF Mem
<1>3. Pins' = Pins
  BY Zenon, <1>1 DEF Pins
<1> QED BY Zenon, <1>2, <1>3

\* brelse() and the other steps that leave disk and contents alone are stutters.
LEMMA QuietSteps ==
  ASSUME IInv, IInv', NEW p \in Procs, Kernel(p) \/ releasesleep(p)
  PROVE  UNCHANGED <<Mem, disk, Pins>>
<1>1. disk' = disk
  BY Zenon DEF Kernel, acquiresleep, iderw, iderw_wake, brelse, releasesleep, driver
<1>2. CASE ~brelse(p)
  <2>1. buf' = buf
    BY Zenon, <1>2 DEF Kernel, acquiresleep, iderw, iderw_wake, releasesleep, cache
  <2> QED BY Zenon, <1>1, <2>1, Unseen
<1>3. CASE brelse(p)
  <2>1. ASSUME NEW x \in Bufs
        PROVE  /\ buf'[x].dirty = buf[x].dirty /\ buf'[x].blockno = buf[x].blockno
               /\ buf'[x].data = buf[x].data
    <3>1. buf \in [Bufs -> BufRec]
      BY Zenon DEF IInv, TypeOK, BufRec
    <3>2. buf' = [buf EXCEPT ![b[p]].refcnt = Unref(b[p])]
      BY Zenon, <1>3 DEF brelse
    <3>3. CASE x = b[p]
      <4>1. buf[x] \in BufRec /\ buf'[x] = [buf[x] EXCEPT !.refcnt = Unref(x)]
        BY Zenon, <3>1, <3>2, <3>3
      <4> QED BY Zenon, <4>1 DEF BufRec
    <3>4. CASE x # b[p]
      <4>1. buf'[x] = buf[x]
        BY Zenon, <3>1, <3>2, <3>4
      <4> QED BY Zenon, <4>1
    <3> QED BY Zenon, <3>3, <3>4
  <2> QED BY ZenonT(30), <1>1, <2>1, Unseen
<1> QED BY Zenon, <1>2, <1>3

\* bget() changes no block: it recycles only what is not dirty.
LEMMA BgetUnseen ==
  ASSUME IInv, IInv', NEW p \in Procs, NEW k \in Blocks, bget(p, k)
  PROVE  UNCHANGED <<Mem, disk, Pins>>
<1>1. TypeOK /\ disk' = disk
  BY Zenon DEF IInv, bget, driver
<1>2. ASSUME NEW x \in Bufs, buf' = [buf EXCEPT ![x].refcnt = @ + 1]
      PROVE  UNCHANGED <<Mem, disk, Pins>>
  <2>1. ASSUME NEW y \in Bufs
        PROVE  /\ buf'[y].dirty = buf[y].dirty /\ buf'[y].blockno = buf[y].blockno
               /\ buf'[y].data = buf[y].data
    <3>1. /\ buf[y] \in BufRec
          /\ buf'[y] = IF y = x THEN [buf[y] EXCEPT !.refcnt = buf[y].refcnt + 1] ELSE buf[y]
      BY Zenon, <1>1, <1>2 DEF TypeOK, BufRec
    <3> QED BY Zenon, <3>1 DEF BufRec
  <2> QED BY Zenon, <1>1, <2>1, Unseen
<1>3. ASSUME NEW x \in Bufs, Recyclable(x), buf' = [buf EXCEPT ![x] = Recycled(x, k)]
      PROVE  UNCHANGED <<Mem, disk, Pins>>
  <2>1. buf[x] \in BufRec /\ ~buf[x].dirty
    BY Zenon, <1>1, <1>3 DEF TypeOK, BufRec, Recyclable
  <2>2. ~Recycled(x, k).dirty
    BY Zenon, <2>1 DEF BufRec, Recycled
  <2>3. buf'[x] = Recycled(x, k) /\ \A y \in Bufs \ {x} : buf'[y] = buf[y]
    BY Zenon, <1>1, <1>3 DEF TypeOK
  <2>4. ASSUME NEW y \in Bufs
        PROVE  /\ buf'[y].dirty <=> buf[y].dirty
               /\ buf[y].dirty => buf'[y].blockno = buf[y].blockno /\ buf'[y].data = buf[y].data
    <3>1. CASE y = x
      BY Zenon, <3>1, <2>1, <2>2, <2>3
    <3>2. CASE y # x
      BY Zenon, <3>2, <2>3
    <3> QED BY Zenon, <3>1, <3>2
  <2> QED BY Zenon, <1>1, <2>4, Unseen
<1>4. CASE \E x \in Cached(k) : buf' = [buf EXCEPT ![x].refcnt = @ + 1]
  BY Zenon, <1>2, <1>4 DEF Cached
<1>5. CASE (\E x \in Bufs : Recyclable(x)) /\ buf' = [buf EXCEPT ![Victim] = Recycled(Victim, k)]
  <2>1. PICK x \in Bufs : x = Victim /\ Recyclable(x)
    BY Zenon, <1>1, <1>5, VictimRecyclable
  <2> QED BY ZenonT(30), <2>1, <1>3, <1>5
<1> QED BY Zenon, <1>4, <1>5 DEF bget

\* A change of the buffer of a block is a change of that block alone, and pins it.
LEMMA ModifySeen ==
  ASSUME IInv, IInv', NEW x \in Bufs, NEW k \in Blocks, NEW v \in Values, disk' = disk,
         buf[x].blockno = k, buf'[x].blockno = k, buf'[x].dirty, buf'[x].data = v,
         \A y \in Bufs : y # x => buf'[y] = buf[y]
  PROVE  Mem' = [Mem EXCEPT ![k] = v] /\ Pins' = Pins \cup {k}
<1>1. Memory(k)' = v /\ k \in Pins'
  BY Zenon, DirtyIs
<1>2. ASSUME NEW j \in Blocks, j # k
      PROVE  Memory(j)' = Memory(j) /\ (j \in Pins' <=> j \in Pins)
  BY Zenon, <1>2, BlockKept
<1>3. Pins' \subseteq Blocks /\ Pins \subseteq Blocks
  BY Zenon DEF Pins
<1>4. Mem' = [Mem EXCEPT ![k] = v]
  BY ZenonT(30), <1>1, <1>2 DEF Mem
<1> QED BY Zenon, <1>1, <1>2, <1>3, <1>4

\* A transfer of a dirty buffer writes what bread() returns, and only unpins that block.
LEMMA WriteSeen ==
  ASSUME IInv, IInv', NEW x \in Bufs, NEW k \in Blocks, buf[x].blockno = k, buf[x].dirty,
         disk' = [disk EXCEPT ![k] = buf[x].data], ~buf'[x].dirty,
         \A y \in Bufs : y # x => buf'[y] = buf[y]
  PROVE  /\ k \in Pins /\ disk' = [disk EXCEPT ![k] = Mem[k]]
         /\ Pins' = Pins \ {k} /\ Mem' = Mem
<1>1. disk \in [Blocks -> Values]
  BY Zenon DEF IInv, TypeOK
<1>2. Memory(k) = buf[x].data /\ k \in Pins
  BY Zenon, DirtyIs
<1>3. \A y \in Bufs : buf'[y].blockno = k => ~buf'[y].dirty
  BY Zenon, CacheAssumption DEF IInv, OneBlock
<1>4. Memory(k)' = buf[x].data /\ k \notin Pins'
  BY Zenon, <1>1, <1>3, CleanIs
<1>5. ASSUME NEW j \in Blocks, j # k
      PROVE  Memory(j)' = Memory(j) /\ (j \in Pins' <=> j \in Pins)
  BY Zenon, <1>1, <1>5, BlockKept
<1>6. Pins' \subseteq Blocks /\ Pins \subseteq Blocks
  BY Zenon DEF Pins
<1>7. Mem' = Mem
  BY Zenon, <1>2, <1>4, <1>5 DEF Mem
<1>8. Mem[k] = buf[x].data
  BY Zenon, <1>2 DEF Mem
<1> QED BY Zenon, <1>2, <1>4, <1>5, <1>6, <1>7, <1>8

\* log_write() and bwrite() change the block of the buffer that the process holds.
LEMMA StoreModifies ==
  ASSUME IInv, IInv', NEW p \in Procs, NEW v \in Values, log_write(p, v) \/ bwrite(p, v)
  PROVE  \E k \in Blocks : Mem' = [Mem EXCEPT ![k] = v] /\ disk' = disk /\ Pins' = Pins \cup {k}
<1>1. /\ pc[p] = "held" /\ disk' = disk
      /\ buf' = [buf EXCEPT ![b[p]].data = v, ![b[p]].dirty = TRUE]
  BY Zenon DEF log_write, bwrite, driver
<1>x. PICK x \in Bufs : x = b[p] /\ buf[x].blockno # NOBLK
  BY Zenon, <1>1 DEF IInv, UseInv
<1>2. buf[x] \in BufRec
  BY Zenon DEF IInv, TypeOK, BufRec
<1>k. PICK k \in Blocks : k = buf[x].blockno
  BY Zenon, <1>x, <1>2 DEF BufRec
<1>3. /\ buf'[x] = [buf[x] EXCEPT !.data = v, !.dirty = TRUE]
      /\ \A y \in Bufs : y # x => buf'[y] = buf[y]
  BY <1>x, <1>1 DEF IInv, TypeOK
<1>4. buf'[x].data = v /\ buf'[x].dirty /\ buf'[x].blockno = k
  <2>1. k = buf[x].blockno
    BY Zenon, <1>k
  <2> QED BY Zenon, <1>2, <1>3, <2>1 DEF BufRec
<1> QED BY Zenon, <1>1, <1>k, <1>3, <1>4, ModifySeen

\* ideintr() writes the block, or has only read it.
LEMMA StoreTransfers ==
  ASSUME IInv, IInv', ideintr
  PROVE  \/ UNCHANGED <<Mem, disk, Pins>>
         \/ \E k \in Blocks : /\ k \in Pins /\ disk' = [disk EXCEPT ![k] = Mem[k]]
                              /\ Pins' = Pins \ {k} /\ Mem' = Mem
<1>t. Types /\ queue # <<>>
  BY Zenon, TypesOK DEF IInv, ideintr
<1>x. PICK x \in Bufs : x = queue[1] /\ x = Head(queue)
  BY <1>t DEF Types
<1>1. buf[x] \in BufRec
  BY Zenon DEF IInv, TypeOK, BufRec
<1> DEFINE r == [buf[x] EXCEPT !.data = IF buf[x].dirty THEN buf[x].data ELSE disk[buf[x].blockno],
                               !.valid = TRUE, !.dirty = FALSE]
<1>2. buf'[x] = r /\ \A y \in Bufs : y # x => buf'[y] = buf[y]
  <2>1. buf \in [Bufs -> BufRec]
    BY Zenon DEF IInv, TypeOK, BufRec
  <2>2. buf' = [buf EXCEPT ![x] = r]
    BY Zenon, <2>1, <1>x DEF ideintr
  <2> HIDE DEF r
  <2> QED BY Zenon, <2>1, <2>2
<1>3. ~buf'[x].dirty /\ buf'[x].blockno = buf[x].blockno
  BY Zenon, <1>1, <1>2 DEF BufRec
<1>4. CASE ~buf[x].dirty
  <2>1. disk' = disk
    BY Zenon, <1>x, <1>4 DEF ideintr
  <2>2. ASSUME NEW y \in Bufs
        PROVE  /\ buf'[y].dirty <=> buf[y].dirty
               /\ buf[y].dirty => buf'[y].blockno = buf[y].blockno /\ buf'[y].data = buf[y].data
    <3>1. CASE y = x
      BY Zenon, <3>1, <1>3, <1>4
    <3>2. CASE y # x
      BY Zenon, <3>2, <1>2
    <3> QED BY Zenon, <3>1, <3>2
  <2> QED BY Zenon, <2>1, <2>2, Unseen
<1>5. CASE buf[x].dirty
  <2>1. request.data = buf[x].data
    BY Zenon, <1>t, <1>x, <1>5 DEF IInv, RequestInv
  <2>k. PICK k \in Blocks : k = buf[x].blockno
    BY Zenon, <1>1, <1>5 DEF IInv, DataInv, BufRec
  <2>2. disk' = [disk EXCEPT ![k] = buf[x].data]
    BY Zenon, <1>x, <1>5, <2>1, <2>k DEF ideintr
  <2>3. /\ k \in Pins /\ disk' = [disk EXCEPT ![k] = Mem[k]]
        /\ Pins' = Pins \ {k} /\ Mem' = Mem
    BY Zenon, <1>2, <1>3, <1>5, <2>k, <2>2, WriteSeen
  <2> QED BY ZenonT(30), <2>3
<1> QED BY Zenon, <1>4, <1>5

\* The cache implements the store: every step is one of BlockStore or is not seen, whatever is
\* recycled, queued and transferred in between.
THEOREM CacheIsStore == Spec => KeepsBlocks
<1>1. Init => Store!Init
  <2> SUFFICES ASSUME Init PROVE Store!Init
    OBVIOUS
  <2>1. \A k \in Blocks : Cached(k) = {}
    BY Zenon, CacheAssumption DEF Init, Cached
  <2> QED BY Zenon, <2>1 DEF Init, Store!Init, Memory
<1>2. IInv /\ IInv' /\ [Next]_vars => [Store!Next]_<<Mem, disk, Pins>>
  <2> SUFFICES ASSUME IInv, IInv', [Next]_vars PROVE [Store!Next]_<<Mem, disk, Pins>>
    OBVIOUS
  <2>1. ASSUME NEW k \in Blocks, NEW v \in Values,
               Mem' = [Mem EXCEPT ![k] = v] /\ disk' = disk /\ Pins' = Pins \cup {k}
        PROVE  Store!Next
    BY Zenon, <2>1 DEF Store!Next, Store!Modify, Mem, Pins
  <2>2. ASSUME NEW k \in Blocks, k \in Pins, disk' = [disk EXCEPT ![k] = Mem[k]],
               Pins' = Pins \ {k}, Mem' = Mem
        PROVE  Store!Next
    BY Zenon, <2>2 DEF Store!Next, Store!Written, Mem, Pins
  <2>3. CASE ideintr
    BY Zenon, <2>3, <2>2, StoreTransfers
  <2>4. CASE \E p \in Procs : Kernel(p) \/ releasesleep(p)
    BY Zenon, <2>4, QuietSteps
  <2>5. CASE \E p \in Procs, k \in Blocks : bget(p, k)
    BY Zenon, <2>5, BgetUnseen
  <2>6. CASE \E p \in Procs, v \in Values : log_write(p, v) \/ bwrite(p, v)
    BY Zenon, <2>6, <2>1, StoreModifies
  <2>7. CASE UNCHANGED vars
    <3>1. buf' = buf /\ disk' = disk
      BY Zenon, <2>7 DEF vars
    <3> QED BY Zenon, <3>1, Unseen
  <2> QED BY Zenon, <2>3, <2>4, <2>5, <2>6, <2>7 DEF Next
<1>3. IInv /\ IInv' /\ [Next]_vars
        => [Store!Next]_<<[k \in Blocks |-> Memory(k)], disk,
                          {k \in Blocks : \E x \in Cached(k) : buf[x].dirty}>>
  BY Zenon, <1>2 DEF Mem, Pins
<1> QED BY <1>1, <1>3, CacheInvariance, PTL DEF Spec, KeepsBlocks, Store!Spec
=============================================================================
