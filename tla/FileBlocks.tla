----------------------------- MODULE FileBlocks -----------------------------
(***************************************************************************)
(* The blocks of files: the file system that mkfs makes, the free map      *)
(* (balloc, bfree), the block numbers in inodes and in their indirect      *)
(* blocks (bmap, itrunc), reading and writing (readi, writei, filewrite).  *)
(*                                                                         *)
(* A block is a sequence of cells, which hold bytes or, in an indirect     *)
(* block, block numbers.  A process that works on an inode has it locked;  *)
(* processes that work on two files meet in the free map, whose buffer is  *)
(* locked from the search for a block to the change of its bit, and not    *)
(* while bzero() clears the block.                                         *)
(***************************************************************************)
EXTENDS Integers, FiniteSets, FiniteSetsExt, Sequences, SequencesExt

CONSTANTS Procs,
          NOPROC,
          Files,        \* inode numbers; the root directory is 1
          Image,        \* the contents of the files of mkfs, of the root
                        \* directory its entries
          NMETA,        \* blocks before the data blocks
          FSSIZE,       \* blocks of the file system
          NDIRECT,
          NINDIRECT,
          BSIZE,        \* bytes in a block
          MAXOPBLOCKS,  \* blocks that an operation may log
          Byte,         \* the byte that is written to each file
          Writes        \* bound: how many bytes write() writes, from the start
                        \* or the end of a file

ROOTINO == 1
MAXFILE == NDIRECT + NINDIRECT

ASSUME FileBlocksAssumption ==
  /\ NOPROC \notin Procs
  /\ ROOTINO \in Files
  /\ Image \in [Files -> Seq(Nat)]
  /\ NMETA \in Nat \ {0}
  /\ FSSIZE \in Nat
  /\ NDIRECT \in Nat /\ NINDIRECT \in Nat /\ BSIZE \in Nat \ {0}
  /\ MAXOPBLOCKS >= 6
  /\ Byte \in [Files -> Nat]
  /\ Writes \subseteq Nat \ {0}
  /\ Len(Image[ROOTINO]) % BSIZE # 0

Blocks == 0 .. FSSIZE - 1
Cells == 0 .. (IF BSIZE > NINDIRECT THEN BSIZE ELSE NINDIRECT) - 1
Zeroes == [k \in Cells |-> 0]
NOB == 0    \* no block

VARIABLES
  used,     \* the free map: blocks in use
  data,     \* contents of blocks
  inode,    \* in the cache: addrs and size
  dinode,   \* the same on disk
  owner,    \* who has an inode locked
  pc,
  f, off,   \* of filewrite: the file and the offset in it
  left,     \* bytes yet to write
  todo,     \* those of them that this writei() is to write
  b,        \* block of balloc() yet to be cleared
  slot,     \* of itrunc: the block number that it is at
  logged,   \* blocks that the operation has logged
  text      \* history: what is written to the files

local == <<f, off, left, todo, b, slot, logged>>
vars == <<used, data, inode, dinode, owner, pc, local, text>>

\* The block of the free map, among those that are logged; there is one.
BITMAP == 0 - 1

Inode == [addrs : [0 .. NDIRECT -> Blocks], size : 0 .. MAXFILE * BSIZE]

TypeOK ==
  /\ used \subseteq Blocks
  /\ data \in [Blocks -> [Cells -> Nat]]
  /\ inode \in [Files -> Inode]
  /\ dinode \in [Files -> Inode]
  /\ owner \in [Files -> Procs \cup {NOPROC}]
  /\ pc \in [Procs -> {"user", "filewrite", "writei", "bzero", "itrunc"}]
  /\ f \in [Procs -> Files]
  /\ off \in [Procs -> 0 .. MAXFILE * BSIZE]
  /\ left \in [Procs -> Nat]
  /\ todo \in [Procs -> Nat]
  /\ b \in [Procs -> Blocks]
  /\ slot \in [Procs -> 0 .. MAXFILE + 1]
  /\ logged \in [Procs -> SUBSET (Blocks \cup {BITMAP})]
  /\ text \in [Files -> Seq(Nat)]

-----------------------------------------------------------------------------
\* Slots 0 .. MAXFILE - 1 of an inode are its blocks, in order; slot MAXFILE is
\* its indirect block.

\* The block number in slot s of the inode n, with blocks d, or NOB.
Slot(n, d, s) ==
  IF s < NDIRECT THEN n.addrs[s]
  ELSE IF s = MAXFILE THEN n.addrs[NDIRECT]
  ELSE IF n.addrs[NDIRECT] = NOB THEN NOB
  ELSE d[n.addrs[NDIRECT]][s - NDIRECT]

\* The slot that bmap() is to fill next for block bn, or -1: an indirect block
\* comes before what it points to.
Missing(n, d, bn) ==
  IF bn >= NDIRECT /\ Slot(n, d, MAXFILE) = NOB THEN MAXFILE
  ELSE IF Slot(n, d, bn) = NOB THEN bn
  ELSE 0 - 1

\* The inode and the blocks when slot s is the block x.
FillInode(n, s, x) ==
  IF s < NDIRECT THEN [n EXCEPT !.addrs[s] = x]
  ELSE IF s = MAXFILE THEN [n EXCEPT !.addrs[NDIRECT] = x]
  ELSE n

FillData(n, d, s, x) ==
  IF s \in NDIRECT .. MAXFILE - 1
    THEN [d EXCEPT ![n.addrs[NDIRECT]][s - NDIRECT] = x]
    ELSE d

-----------------------------------------------------------------------------
\* mkfs.

\* The next free block goes to a slot that bmap() would fill.
Given(st, i, s) ==
  IF s = 0 - 1 THEN st
  ELSE [st EXCEPT !.inode[i] = FillInode(@, s, st.freeblock),
                  !.data = FillData(st.inode[i], @, s, st.freeblock),
                  !.freeblock = @ + 1]

\* iappend(): one byte at the end of file i.
iappend(st, i, x) ==
  LET o == st.inode[i].size
      bn == o \div BSIZE
      one == Given(st, i, Missing(st.inode[i], st.data, bn))
      two == Given(one, i, Missing(one.inode[i], one.data, bn))
  IN [two EXCEPT !.data[Slot(two.inode[i], two.data, bn)][o % BSIZE] = x,
                 !.inode[i].size = @ + 1]

\* A file system without contents: ialloc() of every file.
Blank ==
  [freeblock |-> NMETA,
   data |-> [x \in Blocks |-> Zeroes],
   inode |-> [i \in Files |-> [addrs |-> [s \in 0 .. NDIRECT |-> NOB], size |-> 0]]]

\* The files one after the other.
Appended ==
  FoldLeft(LAMBDA st, i : FoldLeft(LAMBDA t, x : iappend(t, i, x), st, Image[i]),
           Blank, SetToSortSeq(Files, <))

\* The size of the root directory is rounded up to a whole block.
Rounded(n) == (n \div BSIZE + 1) * BSIZE

mkfs == [Appended EXCEPT !.inode[ROOTINO].size = Rounded(@)]

\* What is to be read in file i of the image.
ImageText(i) ==
  IF i = ROOTINO
    THEN [k \in 1 .. (Len(Image[i]) \div BSIZE + 1) * BSIZE |->
            IF k <= Len(Image[i]) THEN Image[i][k] ELSE 0]
    ELSE Image[i]

Init ==
  /\ used = 0 .. mkfs.freeblock - 1
  /\ data = mkfs.data
  /\ inode = mkfs.inode
  /\ dinode = mkfs.inode
  /\ owner = [i \in Files |-> NOPROC]
  /\ pc = [p \in Procs |-> "user"]
  /\ f = [p \in Procs |-> ROOTINO]
  /\ off = [p \in Procs |-> 0]
  /\ left = [p \in Procs |-> 0]
  /\ todo = [p \in Procs |-> 0]
  /\ b = [p \in Procs |-> NOB]
  /\ slot = [p \in Procs |-> 0]
  /\ logged = [p \in Procs |-> {}]
  /\ text = [i \in Files |-> ImageText(i)]

-----------------------------------------------------------------------------
\* write().

Goto(p, l) == pc' = [pc EXCEPT ![p] = l]
Log(p, xs) == logged' = [logged EXCEPT ![p] = @ \cup xs]

\* A process calls write() on a file that it has open.
sys_write(p) ==
  /\ pc[p] = "user"
  /\ \E i \in Files, n \in Writes, o \in {0, 1} :
       /\ f' = [f EXCEPT ![p] = i]
       /\ left' = [left EXCEPT ![p] = n]
       /\ off' = [off EXCEPT ![p] = o * inode[i].size]
  /\ Goto(p, "filewrite")
  /\ UNCHANGED <<used, data, inode, dinode, owner, todo, b, slot, logged, text>>

MaxChunk_Whole == MAXOPBLOCKS * BSIZE

\* How much filewrite() writes in one operation.
MaxChunk == ((MAXOPBLOCKS - 1 - 1 - 2) \div 2) * BSIZE

\* filewrite(): an operation begins, and writei() locks the inode, or fails if
\* the file would be too large, and the call with it.
filewrite(p) ==
  LET n1 == IF left[p] > MaxChunk THEN MaxChunk ELSE left[p]
      i == f[p]
  IN /\ pc[p] = "filewrite"
     /\ owner[i] = NOPROC
     /\ IF off[p] > inode[i].size \/ off[p] + n1 > MAXFILE * BSIZE
          THEN /\ left' = [left EXCEPT ![p] = 0]
               /\ off' = [off EXCEPT ![p] = 0]
               /\ f' = [f EXCEPT ![p] = ROOTINO]
               /\ Goto(p, "user")
               /\ UNCHANGED <<owner, todo>>
          ELSE /\ owner' = [owner EXCEPT ![i] = p]
               /\ todo' = [todo EXCEPT ![p] = n1]
               /\ Goto(p, "writei")
               /\ UNCHANGED <<left, off, f>>
     /\ UNCHANGED <<used, data, inode, dinode, b, slot, logged, text>>

\* The slot without which writei() cannot go on, or -1.
Needs(p) == Missing(inode[f[p]], data, off[p] \div BSIZE)

\* Blocks that balloc() may take.
Free == Blocks \ used

\* bmap() has to call balloc(): the first free block is marked in the free map.
\* Without one the system panics.
balloc(p) ==
  /\ pc[p] = "writei"
  /\ todo[p] > 0
  /\ Needs(p) # 0 - 1
  /\ Free # {}
  /\ b' = [b EXCEPT ![p] = Min(Free)]
  /\ used' = used \cup {Min(Free)}
  /\ Log(p, {BITMAP})
  /\ Goto(p, "bzero")
  /\ UNCHANGED <<data, inode, dinode, owner, f, off, left, todo, slot, text>>

Cleared_Not(x) == data

\* bzero().
Cleared(x) == [data EXCEPT ![x] = Zeroes]

\* The block is cleared, and bmap() puts it where it was missing.
bmap(p) ==
  LET n == inode[f[p]]
      s == Needs(p)
  IN /\ pc[p] = "bzero"
     /\ data' = FillData(n, Cleared(b[p]), s, b[p])
     /\ inode' = [inode EXCEPT ![f[p]] = FillInode(n, s, b[p])]
     /\ Log(p, {b[p]} \cup IF s \in NDIRECT .. MAXFILE - 1 THEN {n.addrs[NDIRECT]} ELSE {})
     /\ b' = [b EXCEPT ![p] = NOB]
     /\ Goto(p, "writei")
     /\ UNCHANGED <<used, dinode, owner, f, off, left, todo, slot, text>>

\* The block x with m bytes v in it, where offset o is.
Copied(x, o, m, v) ==
  [data EXCEPT ![x] = [k \in Cells |-> IF k - (o % BSIZE) \in 0 .. m - 1 THEN v ELSE data[x][k]]]

\* What s is after n bytes v have been written to it at offset o.
Overwritten(s, o, n, v) ==
  [k \in 1 .. (IF Len(s) > o + n THEN Len(s) ELSE o + n) |->
     IF k > o /\ k <= o + n THEN v ELSE s[k]]

Updated_Early(i) == inode[i]

\* What iupdate() writes to disk when writei() has changed the inode.
Updated(i) == inode'[i]

\* writei() fills one block, or the rest of it.
writei(p) ==
  LET i == f[p]
      o == off[p]
      room == BSIZE - (o % BSIZE)
      m == IF todo[p] < room THEN todo[p] ELSE room
      x == Slot(inode[i], data, o \div BSIZE)
  IN /\ pc[p] = "writei"
     /\ todo[p] > 0
     /\ Needs(p) = 0 - 1
     /\ data' = Copied(x, o, m, Byte[i])
     /\ text' = [text EXCEPT ![i] = Overwritten(@, o, m, Byte[i])]
     /\ off' = [off EXCEPT ![p] = o + m]
     /\ todo' = [todo EXCEPT ![p] = @ - m]
     /\ left' = [left EXCEPT ![p] = @ - m]
     /\ Log(p, {x})
     /\ UNCHANGED <<used, inode, dinode, owner, pc, f, b, slot>>

\* It is done: a file that has grown gets its size, on disk too.  The operation
\* ends, and filewrite() goes on with the rest.
writei_end(p) ==
  LET i == f[p]
      grows == off[p] > inode[i].size
  IN /\ pc[p] = "writei"
     /\ todo[p] = 0
     /\ inode' = [inode EXCEPT ![i].size = IF grows THEN off[p] ELSE @]
     /\ dinode' = IF grows THEN [dinode EXCEPT ![i] = Updated(i)] ELSE dinode
     /\ owner' = [owner EXCEPT ![i] = NOPROC]
     /\ logged' = [logged EXCEPT ![p] = {}]
     /\ IF left[p] = 0
          THEN /\ Goto(p, "user")
               /\ off' = [off EXCEPT ![p] = 0]
               /\ f' = [f EXCEPT ![p] = ROOTINO]
          ELSE Goto(p, "filewrite") /\ UNCHANGED <<off, f>>
     /\ UNCHANGED <<used, data, left, todo, b, slot, text>>

-----------------------------------------------------------------------------
\* itrunc(), of an inode that iput() is to free.

\* It is called when no process has the inode open.
itrunc(p) ==
  /\ pc[p] = "user"
  /\ \E i \in Files \ {ROOTINO} :
       /\ owner[i] = NOPROC
       /\ \A q \in Procs : pc[q] # "user" => f[q] # i
       /\ inode[i].size > 0
       /\ f' = [f EXCEPT ![p] = i]
       /\ owner' = [owner EXCEPT ![i] = p]
  /\ Goto(p, "itrunc")
  /\ UNCHANGED <<used, data, inode, dinode, off, left, todo, b, slot, logged, text>>

\* The slots that itrunc() has yet to free, in order: the indirect block is last.
Rest(p) == {s \in slot[p] .. MAXFILE : Slot(inode[f[p]], data, s) # NOB}

\* bfree() of the block in the next one; a block that is free is a panic.
itrunc_free(p) ==
  LET x == Slot(inode[f[p]], data, Min(Rest(p))) IN
  /\ pc[p] = "itrunc"
  /\ Rest(p) # {}
  /\ x \in used
  /\ used' = used \ {x}
  /\ slot' = [slot EXCEPT ![p] = Min(Rest(p)) + 1]
  /\ UNCHANGED <<data, inode, dinode, owner, pc, f, off, left, todo, b, logged, text>>

\* The inode has no blocks left, on disk too.
itrunc_end(p) ==
  /\ pc[p] = "itrunc"
  /\ Rest(p) = {}
  /\ inode' = [inode EXCEPT ![f[p]] = Blank.inode[f[p]]]
  /\ dinode' = [dinode EXCEPT ![f[p]] = Updated(f[p])]
  /\ text' = [text EXCEPT ![f[p]] = <<>>]
  /\ owner' = [owner EXCEPT ![f[p]] = NOPROC]
  /\ slot' = [slot EXCEPT ![p] = 0]
  /\ f' = [f EXCEPT ![p] = ROOTINO]
  /\ Goto(p, "user")
  /\ UNCHANGED <<used, data, off, left, todo, b, logged>>

-----------------------------------------------------------------------------
Next ==
  \E p \in Procs :
    \/ sys_write(p) \/ filewrite(p) \/ balloc(p) \/ bmap(p) \/ writei(p) \/ writei_end(p)
    \/ itrunc(p) \/ itrunc_free(p) \/ itrunc_end(p)

Spec == Init /\ [][Next]_vars

-----------------------------------------------------------------------------
\* Properties.

\* The slots of file i that hold a block, those aside that itrunc() is past.
Taken(i) ==
  {s \in 0 .. MAXFILE :
     /\ Slot(inode[i], data, s) # NOB
     /\ \A p \in Procs : pc[p] = "itrunc" /\ f[p] = i => s >= slot[p]}

\* Types are kept, and the blocks in use are those before the data blocks, those of the files and
\* those that balloc() has marked and bmap() has not yet entered, each of them
\* once: no block is in two files or at two places in one, none is lost, and
\* bfree() never frees a free one.  mkfs leaves the free map and the inodes so.
BlocksExact ==
  LET new == {p \in Procs : b[p] # NOB}
      blocks(i) == {Slot(inode[i], data, s) : s \in Taken(i)}
  IN /\ TypeOK
     /\ used = (0 .. NMETA - 1) \cup {b[p] : p \in new} \cup UNION {blocks(i) : i \in Files}
     /\ Cardinality(used) = NMETA + Cardinality(new)
                              + MapThenSumSet(LAMBDA i : Cardinality(Taken(i)), Files)

\* readi() of a whole file.
readi(i) ==
  [k \in 1 .. inode[i].size |->
     data[Slot(inode[i], data, (k - 1) \div BSIZE)][(k - 1) % BSIZE]]

\* A process that gets the lock of a file reads in it what was last written
\* there, by mkfs or by any process, whatever other files' writes and
\* truncations did meanwhile; and every block that it reads is there, so that
\* readi() never makes bmap() allocate, outside of an operation.
ReadsWritten ==
  \A i \in Files : owner[i] = NOPROC =>
    /\ \A k \in 0 .. inode[i].size - 1 : Slot(inode[i], data, k \div BSIZE) # NOB
    /\ readi(i) = text[i]

\* The inode on disk is up to date when the lock is given up, though writei()
\* writes it only when the file has grown, and bmap() never: when the inode goes
\* from the cache its new blocks are not forgotten.
InodeWritten ==
  \A i \in Files : owner[i] = NOPROC => dinode[i] = inode[i]

\* What was written is there, for who reads it now (readi) and for who gets the inode
\* from disk later (writei, iupdate).
FilesKept == ReadsWritten /\ InodeWritten

\* An operation of filewrite() logs no more blocks than the log has room for,
\* with its inode, which is logged last: whatever the alignment of the write and
\* the blocks that it allocates, the indirect block and the free map included.
WriteFits ==
  \A p \in Procs : Cardinality(logged[p]) + 1 <= MAXOPBLOCKS
=============================================================================
