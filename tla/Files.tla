-------------------------------- MODULE Files --------------------------------
(***************************************************************************)
(* The open files of the kernel (file.c), the descriptors of processes     *)
(* (sysfile.c, and fork() and exit() in proc.c) and pipes (pipe.c).        *)
(*                                                                         *)
(* A critical section of ftable.lock is one action.  So is one of a pipe's *)
(* lock, unless the process goes to sleep: then `lock' is held between the *)
(* check of `killed' and sleep(), because kill() takes another lock.       *)
(* Of the files of inodes there is one at most, say the console, which only *)
(* exit() closes: what that does to the inode cache is not modelled here.  *)
(*                                                                         *)
(* The slot of a process is free again when exit() has closed its files;   *)
(* the zombie that wait() frees has none.                                  *)
(***************************************************************************)
EXTENDS Integers, FiniteSets, SequencesExt

CONSTANTS Procs,     \* slots of the process table
          NOPROC,
          NFILE,     \* files of the system
          NOFILE,    \* descriptors of a process
          Pipes,     \* the pages that kalloc() has for pipes
          PIPESIZE,
          UINTS,     \* how many values a uint has
          Bytes,
          Writes,    \* the buffers that processes write
          Reads      \* the sizes of the buffers they read into

ASSUME FilesAssumption ==
  /\ NOPROC \notin Procs
  /\ NFILE \in Nat \ {0} /\ NOFILE \in Nat \ {0}
  /\ PIPESIZE \in Nat \ {0}
  /\ UINTS \in Nat /\ UINTS > PIPESIZE /\ UINTS % PIPESIZE = 0
  /\ Writes \subseteq Seq(Bytes) \ {<<>>}
  /\ Reads \subseteq Nat \ {0}

Fds == 0 .. (NOFILE - 1)
File == 1 .. NFILE       \* in the order of ftable.file
NOF == 0                 \* no file

VARIABLES
  file,     \* ftable.file: ref, type, writable, pipe
  ofile,    \* the descriptors of every process
  pipe,     \* the struct pipe in every page
  pages,    \* the pages that kalloc() can give
  lock,     \* who holds the lock of a pipe between two actions
  cut,      \* history: a write() failed half-way since readers were last woken
  pc,       \* where a process is: see TypeOK
  chan,     \* the counter it sleeps on, of the pipe pp, or "none"
  killed,
  pp,       \* the pipe its call works on; one of Pipes
  buf,      \* what pipewrite() has left to write; what piperead() has read
  n,        \* the size of the buffer of piperead()
  todo,     \* the files that it holds outside its descriptors
  exiting,  \* whether it is in exit()
  child     \* the process that its fork() builds

table == <<file, ofile>>
pipes == <<pipe, pages, lock, cut>>
sleeping == <<chan, killed>>
call == <<pp, buf, n>>
local == <<todo, exiting, child>>
vars == <<file, ofile, pipe, pages, lock, cut, pc, chan, killed, pp, buf, n, todo, exiting, child>>

\* pipe: in pipealloc; close: closes the files of todo;
\* closeread, closewrite: about to close that end of the pipe pp; exit, fork;
\* read, write: about to take the pipe's lock; readsleep, writesleep: about to
\* sleep with it; ret: returns from a read that did not fail
Pc == {"unused", "embryo", "user", "pipe", "close", "closeread", "closewrite",
       "exit", "fork", "read", "readsleep", "write", "writesleep", "ret"}

TypeOK ==
  /\ file \in [File -> [ref : 0 .. Cardinality(Procs) * NOFILE + 1, type : {"NONE", "PIPE", "INODE"},
                        writable : BOOLEAN, pipe : Pipes]]
  /\ ofile \in [Procs -> [Fds -> File \cup {NOF}]]
  /\ pipe \in [Pipes -> [nread : 0 .. UINTS - 1, nwrite : 0 .. UINTS - 1,
                         readopen : BOOLEAN, writeopen : BOOLEAN,
                         data : [0 .. PIPESIZE - 1 -> Bytes]]]
  /\ pages \subseteq Pipes
  /\ lock \in [Pipes -> Procs \cup {NOPROC}]
  /\ cut \in [Pipes -> BOOLEAN]
  /\ pc \in [Procs -> Pc]
  /\ chan \in [Procs -> {"none", "nread", "nwrite"}]
  /\ killed \in [Procs -> BOOLEAN]
  /\ pp \in [Procs -> Pipes]
  /\ buf \in [Procs -> Seq(Bytes)]
  /\ n \in [Procs -> Reads \cup {0}]
  /\ todo \in [Procs -> Seq(File)]
  /\ exiting \in [Procs -> BOOLEAN]
  /\ child \in [Procs -> Procs \cup {NOPROC}]

APipe == CHOOSE i \in Pipes : TRUE
AByte == CHOOSE b \in Bytes : TRUE

\* The other fields of a file without references are never read.
FreeFile == [ref |-> 0, type |-> "NONE", writable |-> FALSE, pipe |-> APipe]

\* A page that kfree() has filled with the same byte; the counters and flags of
\* the pipe are dead.
FreePage == [nread |-> 0, nwrite |-> 0, readopen |-> FALSE, writeopen |-> FALSE,
             data |-> [k \in 0 .. PIPESIZE - 1 |-> AByte]]

\* One process runs, which has nothing open or the file of an inode.
Init ==
  /\ pipe = [i \in Pipes |-> FreePage]
  /\ pages = Pipes
  /\ lock = [i \in Pipes |-> NOPROC]
  /\ cut = [i \in Pipes |-> FALSE]
  /\ \E p \in Procs :
       /\ pc = [q \in Procs |-> IF q = p THEN "user" ELSE "unused"]
       /\ LET none == [q \in Procs |-> [d \in Fds |-> NOF]]
              free == [f \in File |-> FreeFile]
          IN  \/ ofile = none /\ file = free
              \/ /\ ofile = [none EXCEPT ![p][0] = 1]
                 /\ file = [free EXCEPT ![1].ref = 1, ![1].type = "INODE"]
  /\ chan = [p \in Procs |-> "none"]
  /\ killed = [p \in Procs |-> FALSE]
  /\ pp = [p \in Procs |-> APipe]
  /\ buf = [p \in Procs |-> <<>>]
  /\ n = [p \in Procs |-> 0]
  /\ todo = [p \in Procs |-> <<>>]
  /\ exiting = [p \in Procs |-> FALSE]
  /\ child = [p \in Procs |-> NOPROC]

Goto(p, l) == pc' = [pc EXCEPT ![p] = l]

\* A new call of a process that runs in user space.
Calls(p) == pc[p] = "user"

-----------------------------------------------------------------------------
(* Files and descriptors.                                                  *)

FreeFiles == {f \in File : file[f].ref = 0}
FreeFds(p) == {d \in Fds : ofile[p][d] = NOF}
OpenFds(p) == Fds \ FreeFds(p)

\* Where process p continues when it has closed a file.
Back(p, rest) == IF exiting[p] THEN "exit" ELSE IF rest # <<>> THEN "close" ELSE "user"

\* Mutant: the type stays, for the next filealloc() to find.
Closed_Typed(f) == [file[f] EXCEPT !.ref = @ - 1]

\* What fileclose() makes of the file.
Closed(f) == IF file[f].ref > 1 THEN [file[f] EXCEPT !.ref = @ - 1]
                                ELSE FreeFile

\* Whether fileclose() of f calls pipeclose() after it releases ftable.lock.
LastOfEnd(f) == file[f].ref = 1 /\ file[f].type = "PIPE"

\* fileclose(f) by process p, which has the files of `rest' left to close.
fileclose(p, f, rest) ==
  /\ file' = [file EXCEPT ![f] = Closed(f)]
  /\ todo' = [todo EXCEPT ![p] = rest]
  /\ IF LastOfEnd(f)
       THEN /\ Goto(p, IF file[f].writable THEN "closewrite" ELSE "closeread")
            /\ pp' = [pp EXCEPT ![p] = file[f].pipe]
       ELSE Goto(p, Back(p, rest)) /\ UNCHANGED pp

Dup(f) == [file EXCEPT ![f].ref = @ + 1]

sys_dup(p, d) ==
  /\ Calls(p) /\ d \in OpenFds(p) /\ FreeFds(p) # {}
  /\ ofile' = [ofile EXCEPT ![p][Min(FreeFds(p))] = ofile[p][d]]
  /\ file' = Dup(ofile[p][d])
  /\ UNCHANGED <<pipes, pc, sleeping, call, local>>

sys_close(p, d) ==
  /\ Calls(p) /\ d \in OpenFds(p) /\ file[ofile[p][d]].type = "PIPE"
  /\ ofile' = [ofile EXCEPT ![p][d] = NOF]
  /\ fileclose(p, ofile[p][d], <<>>)
  /\ UNCHANGED <<pipes, sleeping, buf, n, exiting, child>>

\* A call that fails closes the files that it has, one after the other.
close_next(p) ==
  /\ pc[p] = "close"
  /\ fileclose(p, Head(todo[p]), Tail(todo[p]))
  /\ UNCHANGED <<ofile, pipes, sleeping, buf, n, exiting, child>>

fork(p, c) ==
  /\ Calls(p) /\ pc[c] = "unused"
  /\ pc' = [pc EXCEPT ![p] = "fork", ![c] = "embryo"]
  /\ child' = [child EXCEPT ![p] = c]
  /\ UNCHANGED <<table, pipes, sleeping, call, todo, exiting>>

Uncopied(p) == {d \in OpenFds(p) : ofile[child[p]][d] = NOF}

\* One turn of the loop of fork() over the descriptors.
fork_dup(p) ==
  /\ pc[p] = "fork" /\ Uncopied(p) # {}
  /\ LET d == Min(Uncopied(p)) IN
       /\ file' = Dup(ofile[p][d])
       /\ ofile' = [ofile EXCEPT ![child[p]][d] = ofile[p][d]]
  /\ UNCHANGED <<pipes, pc, sleeping, call, local>>

fork_done(p) ==
  /\ pc[p] = "fork" /\ Uncopied(p) = {}
  /\ pc' = [pc EXCEPT ![p] = "user", ![child[p]] = "user"]
  /\ child' = [child EXCEPT ![p] = NOPROC]
  /\ UNCHANGED <<table, pipes, sleeping, call, todo, exiting>>

exit(p) ==
  /\ pc[p] = "user"
  /\ Goto(p, "exit")
  /\ exiting' = [exiting EXCEPT ![p] = TRUE]
  /\ UNCHANGED <<table, pipes, sleeping, call, todo, child>>

\* One turn of the loop of exit(); nobody else sees when the descriptor is
\* cleared.
exit_close(p) ==
  /\ pc[p] = "exit" /\ OpenFds(p) # {}
  /\ LET d == Min(OpenFds(p)) IN
       /\ fileclose(p, ofile[p][d], <<>>)
       /\ ofile' = [ofile EXCEPT ![p][d] = NOF]
  /\ UNCHANGED <<pipes, sleeping, buf, n, exiting, child>>

exit_done(p) ==
  /\ pc[p] = "exit" /\ OpenFds(p) = {}
  /\ Goto(p, "unused")
  /\ exiting' = [exiting EXCEPT ![p] = FALSE]
  /\ UNCHANGED <<table, pipes, sleeping, call, todo, child>>

\* kill() of a process in a call on a pipe, which it wakes.  Elsewhere a killed
\* process just takes the exit() that it may take anyway.
kill(p) ==
  /\ pc[p] \in {"read", "readsleep", "write", "writesleep"} /\ ~killed[p]
  /\ killed' = [killed EXCEPT ![p] = TRUE]
  /\ chan' = [chan EXCEPT ![p] = "none"]
  /\ UNCHANGED <<table, pipes, pc, call, local>>

-----------------------------------------------------------------------------
(* Pipes.                                                                  *)

\* filealloc() for the ends of a pipe.
filealloc(p) ==
  /\ FreeFiles # {}
  /\ LET f == Min(FreeFiles) IN
       /\ file' = [file EXCEPT ![f].ref = 1]
       /\ todo' = [todo EXCEPT ![p] = Append(@, f)]

\* sys_pipe() with the first filealloc() of pipealloc(), and the second one: if
\* there is no file for it, the first is closed again.
sys_pipe(p) ==
  /\ Calls(p)
  /\ filealloc(p)
  /\ Goto(p, "pipe")
  /\ UNCHANGED <<ofile, pipes, sleeping, call, exiting, child>>

pipe_file(p) ==
  /\ pc[p] = "pipe" /\ Len(todo[p]) = 1
  /\ \/ filealloc(p) /\ UNCHANGED pc
     \/ FreeFiles = {} /\ Goto(p, "close") /\ UNCHANGED <<file, todo>>
  /\ UNCHANGED <<ofile, pipes, sleeping, call, exiting, child>>

End(w, i) == [ref |-> 1, type |-> "PIPE", writable |-> w, pipe |-> i]

\* kalloc(), the rest of pipealloc(), and the two fdalloc() of sys_pipe(); if
\* there is no page or too few descriptors, the files are closed.
pipealloc(p, i) ==
  /\ pc[p] = "pipe" /\ Len(todo[p]) = 2
  /\ i \in pages
  /\ pages' = pages \ {i}
  /\ cut' = [cut EXCEPT ![i] = FALSE]
  /\ pipe' = [pipe EXCEPT ![i] = [@ EXCEPT !.nread = 0, !.nwrite = 0,
                                            !.readopen = TRUE, !.writeopen = TRUE]]
  /\ file' = [file EXCEPT ![todo[p][1]] = End(FALSE, i), ![todo[p][2]] = End(TRUE, i)]
  /\ IF Cardinality(FreeFds(p)) < 2
       THEN Goto(p, "close") /\ UNCHANGED <<ofile, todo>>
       ELSE LET d0 == Min(FreeFds(p))
                d1 == Min(FreeFds(p) \ {d0})
            IN  /\ ofile' = [ofile EXCEPT ![p][d0] = todo[p][1], ![p][d1] = todo[p][2]]
                /\ todo' = [todo EXCEPT ![p] = <<>>]
                /\ Goto(p, "user")
  /\ UNCHANGED <<lock, sleeping, call, exiting, child>>

pipealloc_bad(p) ==
  /\ pc[p] = "pipe" /\ Len(todo[p]) = 2
  /\ pages = {}
  /\ Goto(p, "close")
  /\ UNCHANGED <<table, pipes, sleeping, call, local>>

\* wakeup() of the processes that sleep on a counter of the pipe i.
Woken(i, c) == [q \in Procs |-> IF pp[q] = i /\ chan[q] = c THEN "none" ELSE chan[q]]
wakeup(i, c) ==
  /\ chan' = Woken(i, c)
  /\ cut' = [cut EXCEPT ![i] = @ /\ c # "nread"]

\* Mutant: the end that is closed wakes its own side.
Blocked_Own(w) == IF w THEN "nwrite" ELSE "nread"

\* What those sleep on who may wait for an end that is being closed.
Blocked(w) == IF w THEN "nread" ELSE "nwrite"

\* Both ends are closed, and pipeclose() frees the page.
Unused(r) == ~r.readopen /\ ~r.writeopen

\* Mutant: the page is freed with the first end.
kfree_Early(i, r) == pages \cup {i}

kfree(i, r) == IF Unused(r) THEN pages \cup {i} ELSE pages

pipeclose(p) ==
  LET i == pp[p]
      w == pc[p] = "closewrite"
      after == IF w THEN [pipe[i] EXCEPT !.writeopen = FALSE]
                    ELSE [pipe[i] EXCEPT !.readopen = FALSE]
  IN  /\ pc[p] \in {"closeread", "closewrite"}
      /\ lock[i] = NOPROC
      /\ pipe' = [pipe EXCEPT ![i] = IF Unused(after) THEN FreePage ELSE after]
      /\ wakeup(i, Blocked(w))
      /\ pages' = kfree(i, after)
      /\ Goto(p, Back(p, todo[p]))
      /\ pp' = [pp EXCEPT ![p] = APipe]
      /\ UNCHANGED <<table, lock, killed, buf, n, local>>

\* sys_read() and sys_write() of an end that allows it.
sys_read(p, d, k) ==
  /\ Calls(p) /\ d \in OpenFds(p) /\ file[ofile[p][d]].type = "PIPE" /\ ~file[ofile[p][d]].writable
  /\ pp' = [pp EXCEPT ![p] = file[ofile[p][d]].pipe]
  /\ n' = [n EXCEPT ![p] = k]
  /\ Goto(p, "read")
  /\ UNCHANGED <<table, pipes, sleeping, buf, local>>

sys_write(p, d, s) ==
  /\ Calls(p) /\ d \in OpenFds(p) /\ file[ofile[p][d]].type = "PIPE" /\ file[ofile[p][d]].writable
  /\ pp' = [pp EXCEPT ![p] = file[ofile[p][d]].pipe]
  /\ buf' = [buf EXCEPT ![p] = s]
  /\ Goto(p, "write")
  /\ UNCHANGED <<table, pipes, sleeping, n, local>>

\* A process that is awake and gets the lock of its pipe.
Enters(p, l) == pc[p] = l /\ chan[p] = "none" /\ lock[pp[p]] = NOPROC

\* Process p leaves the call and forgets what it was about; trap() sends it to
\* exit() if it has been killed.
Leave(p) ==
  /\ Goto(p, IF killed[p] THEN "exit" ELSE "user")
  /\ exiting' = [exiting EXCEPT ![p] = killed[p]]
  /\ killed' = [killed EXCEPT ![p] = FALSE]
  /\ pp' = [pp EXCEPT ![p] = APipe]
  /\ buf' = [buf EXCEPT ![p] = <<>>]
  /\ n' = [n EXCEPT ![p] = 0]

\* Mutant: off by one.
FullAfter_Over(r, k) == (r.nwrite + k) % UINTS = (r.nread + PIPESIZE + 1) % UINTS

\* The condition of the loop of pipewrite() after it has added k bytes.
FullAfter(r, k) == (r.nwrite + k) % UINTS = (r.nread + PIPESIZE) % UINTS

\* How many bytes the loop of pipewrite() adds before the pipe is full.
Room(r) == Min({k \in 0 .. UINTS - 1 : FullAfter(r, k)})

\* p->data[p->nwrite++ % PIPESIZE] = b
PutByte(r, b) ==
  [r EXCEPT !.data[r.nwrite % PIPESIZE] = b, !.nwrite = (@ + 1) % UINTS]
Put(r, s) == FoldLeft(PutByte, r, s)

\* pipewrite() from taking the lock to the end of the call, or to the next
\* sleep(), which needs the check of `killed' to be over.
pipewrite(p) ==
  LET i == pp[p]
      k == Min({Len(buf[p]), Room(pipe[i])})
  IN  /\ Enters(p, "write")
      /\ pipe' = [pipe EXCEPT ![i] = Put(@, SubSeq(buf[p], 1, k))]
      /\ \/ /\ k = Len(buf[p])
            /\ wakeup(i, "nread")
            /\ Leave(p)
            /\ UNCHANGED lock
         \/ /\ k < Len(buf[p])
            /\ ~pipe[i].readopen \/ killed[p]
            /\ cut' = [cut EXCEPT ![i] = TRUE]
            /\ Leave(p)
            /\ UNCHANGED <<lock, chan>>
         \/ /\ k < Len(buf[p])
            /\ pipe[i].readopen /\ ~killed[p]
            /\ buf' = [buf EXCEPT ![p] = SubSeq(@, k + 1, Len(@))]
            /\ lock' = [lock EXCEPT ![i] = p]
            /\ Goto(p, "writesleep")
            /\ UNCHANGED <<cut, sleeping, pp, n, exiting>>
      /\ UNCHANGED <<table, pages, todo, child>>

\* wakeup(&p->nread) and sleep(&p->nwrite, &p->lock).
writesleep(p) ==
  /\ pc[p] = "writesleep"
  /\ chan' = [Woken(pp[p], "nread") EXCEPT ![p] = "nwrite"]
  /\ cut' = [cut EXCEPT ![pp[p]] = FALSE]
  /\ lock' = [lock EXCEPT ![pp[p]] = NOPROC]
  /\ Goto(p, "write")
  /\ UNCHANGED <<table, pipe, pages, killed, call, local>>

Used(r) == (r.nwrite - r.nread) % UINTS
Contents(r) == [k \in 1 .. Used(r) |-> r.data[((r.nread + k - 1) % UINTS) % PIPESIZE]]

piperead(p) ==
  LET i == pp[p]
      r == pipe[i]
      k == Min({n[p], Used(r)})
      empty == r.nread = r.nwrite /\ r.writeopen
  IN  /\ Enters(p, "read")
      /\ \/ /\ empty /\ killed[p]
            /\ Leave(p)
            /\ UNCHANGED <<pipe, lock, cut, chan>>
         \/ /\ empty /\ ~killed[p]
            /\ lock' = [lock EXCEPT ![i] = p]
            /\ Goto(p, "readsleep")
            /\ UNCHANGED <<pipe, cut, sleeping, call, exiting>>
         \/ /\ ~empty
            /\ buf' = [buf EXCEPT ![p] = SubSeq(Contents(r), 1, k)]
            /\ pipe' = [pipe EXCEPT ![i].nread = (@ + k) % UINTS]
            /\ wakeup(i, "nwrite")
            /\ Goto(p, "ret")
            /\ UNCHANGED <<lock, killed, pp, n, exiting>>
      /\ UNCHANGED <<table, pages, todo, child>>

readsleep(p) ==
  /\ pc[p] = "readsleep"
  /\ chan' = [chan EXCEPT ![p] = "nread"]
  /\ lock' = [lock EXCEPT ![pp[p]] = NOPROC]
  /\ Goto(p, "read")
  /\ UNCHANGED <<table, pipe, pages, cut, killed, call, local>>

ret(p) ==
  /\ pc[p] = "ret"
  /\ Leave(p)
  /\ UNCHANGED <<table, pipes, chan, todo, child>>

-----------------------------------------------------------------------------

Next == \E p \in Procs :
  \/ sys_pipe(p) \/ pipe_file(p) \/ pipealloc_bad(p) \/ \E i \in Pipes : pipealloc(p, i)
  \/ close_next(p) \/ pipeclose(p)
  \/ pipewrite(p) \/ writesleep(p) \/ piperead(p) \/ readsleep(p) \/ ret(p)
  \/ fork_dup(p) \/ fork_done(p)
  \/ exit(p) \/ exit_close(p) \/ exit_done(p) \/ kill(p)
  \/ \E c \in Procs : fork(p, c)
  \/ \E d \in Fds :
       \/ sys_dup(p, d) \/ sys_close(p, d)
       \/ \E k \in Reads : sys_read(p, d, k)
       \/ \E s \in Writes : sys_write(p, d, s)

Spec == Init /\ [][Next]_vars

-----------------------------------------------------------------------------
(* Properties.                                                             *)

\* The count of a file is the number of descriptors of all processes that
\* refer to it and of references that calls hold: fork(), dup(), close(), exit()
\* and a failing pipe() of several processes at once neither lose nor add one.
RefsExact == \A f \in File :
  file[f].ref = Cardinality({x \in Procs \X Fds : ofile[x[1]][x[2]] = f})
                + Cardinality({p \in Procs : \E k \in DOMAIN todo[p] : todo[p][k] = f})

\* The files and the closing processes that stand for an end of a pipe.
Owners(i, w) ==
  {<<"file", f>> : f \in {g \in File : /\ file[g].ref > 0 /\ file[g].type = "PIPE"
                                       /\ file[g].writable = w /\ file[g].pipe = i}}
  \cup {<<"proc", p>> : p \in {q \in Procs : /\ pc[q] = (IF w THEN "closewrite" ELSE "closeread")
                                            /\ pp[q] = i}}

\* An end of a pipe is open exactly as long as one file stands for it or
\* one process is on the way from fileclose() to pipeclose(): no close of
\* another file, old contents of a recycled file included, closes it early or
\* twice, and the last close is never forgotten.
EndsMatch == \A i \in Pipes, w \in BOOLEAN :
  Cardinality(Owners(i, w)) =
    IF IF w THEN pipe[i].writeopen ELSE pipe[i].readopen THEN 1 ELSE 0

\* Types are kept, and both kinds of counts are exact: descriptors of a file, and
\* files of an end of a pipe (filedup, fileclose, pipealloc, pipeclose).
CountsExact == TypeOK /\ RefsExact /\ EndsMatch

InPipe(p) == pc[p] \in {"closeread", "closewrite", "read", "readsleep", "write", "writesleep"}

\* pipeclose() frees the page of a pipe only when no open file refers to it, no
\* process is in a call on it, asleep or spinning for its lock, and nobody
\* holds its lock.
NotFreedInUse == \A i \in pages :
  /\ lock[i] = NOPROC
  /\ \A f \in File : file[f].ref > 0 /\ file[f].type = "PIPE" => file[f].pipe # i
  /\ \A p \in Procs : InPipe(p) => pp[p] # i

\* When the lock of a pipe is free, a reader sleeps only while the pipe is
\* empty and can be written to, a writer only while it is full and can be
\* read: no wakeup() of pipewrite(), piperead() and pipeclose() is missed.
\* There is one exception: pipewrite() fails without a wakeup() when it finds
\* the pipe full and its process killed, though it may have just filled it.
NoLostWakeup == \A p \in Procs : LET r == pipe[pp[p]] IN
  chan[p] # "none" /\ lock[pp[p]] = NOPROC =>
    IF chan[p] = "nread" THEN (r.nread = r.nwrite \/ cut[pp[p]]) /\ r.writeopen
                         ELSE FullAfter(r, 0) /\ r.readopen

Ends(r) == (IF r.readopen THEN {"read"} ELSE {}) \cup (IF r.writeopen THEN {"write"} ELSE {})

Stream == INSTANCE ByteStream WITH
  NONE <- NOPROC,
  queue <- [i \in Pipes |-> IF i \in pages THEN <<>> ELSE Contents(pipe[i])],
  ends <- [i \in Pipes |-> Ends(pipe[i])],
  got <- [p \in Procs |-> IF pc[p] = "ret" THEN buf[p] ELSE NOPROC]

\* The ring buffer with its wrapping counters is a stream: bytes come out once
\* and in the order they went in, whoever reads and writes, and read() returns
\* nothing only at the end of it.
StreamInOrder == Stream!Spec
=============================================================================
