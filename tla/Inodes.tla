------------------------------- MODULE Inodes -------------------------------
(***************************************************************************)
(* The inode cache, directories and path names (fs.c) and the system calls *)
(* on them (sysfile.c).                                                    *)
(*                                                                         *)
(* A directory is a function from names to inode numbers; in which entries *)
(* of its file they are is not modelled, nor are files' contents.  An      *)
(* entry of icache is known by the number of its inode: iget() looks for   *)
(* it under icache.lock before it takes a free one.                        *)
(*                                                                         *)
(* What a process does between ilock() and iunlock() of one inode is one   *)
(* action, when it looks at the rest of the system once in between; where  *)
(* it keeps a lock for longer, `lock' says so.                             *)
(***************************************************************************)
EXTENDS Integers, FiniteSets, FiniteSetsExt, Sequences

CONSTANTS Procs,
          NOPROC,
          NINODES,   \* inodes on disk; the root directory is inode 1
          Names,     \* names of directory entries, ".." not among them
          Does,      \* bound: the system calls that each process makes, with
                     \* their path names
          MAXLINK    \* bound: no link() to an inode with so many links

Inums == 1 .. NINODES
ROOTINO == 1
NOI == 0          \* no inode
Elems == Names \cup {".."}

\* A path name: where namex() starts on it, and the names in it.
Path == [from : {"/", "cwd"}, elems : Seq(Elems) \ {<<>>}]
NOPATH == [from |-> "cwd", elems |-> <<>>]

ASSUME InodesAssumption ==
  /\ NOPROC \notin Procs
  /\ NINODES \in Nat \ {0}
  /\ ".." \notin Names
  /\ \A p \in Procs : \A c \in Does[p] :
       /\ c.call \in {"open", "creat", "mkdir", "mknod", "link", "unlink", "chdir"}
       /\ c.path \in Path
       /\ c.new \in IF c.call = "link" THEN Path ELSE {NOPATH}
  /\ MAXLINK \in Nat

VARIABLES
  dinode,   \* on disk: type, nlink
  entry,    \* on disk: the entries of directories
  inode,    \* icache: ref, valid, type, nlink
  lock,     \* who holds the lock of an inode between two actions
  cwd,      \* current directories
  file,     \* the inode that a process has open, or NOI
  pc,
  call,     \* the system call that a process is in
  path,     \* what namex() has left of its path name
  new,      \* the second path name of link()
  at,       \* the inode that namex() has reached
  ip, dp,   \* the variables of create() and the system calls
  puts,     \* the inodes to iput() before it goes on at `next'
  next,
  lost,     \* history: inodes linked to in a directory already removed
  gone,     \* history: directories, removed but in use, whose ".." was freed
  astray    \* history: a look-up has followed such a "..", or one to a
            \* directory that is itself removed

disk == <<dinode, entry>>
refs == <<cwd, file>>
names == <<call, path, new>>
history == <<lost, gone, astray>>
vars == <<dinode, entry, inode, lock, cwd, file, pc, call, path, new, at, ip, dp, puts, next, lost, gone, astray>>

Types == {"none", "DIR", "FILE", "DEV"}
Calls == {"none", "open", "creat", "mkdir", "mknod", "link", "unlink", "chdir"}

\* walk: in namex; put, free, unref: in iput; found, create, ialloc, iget, init:
\* in create; unlockdp: about to give up dp; fail, done: about to return;
\* the rest: after namex in the call of that name, in the order of the numbers
Pc == {"user", "walk", "put", "free", "unref", "found", "create", "ialloc", "iget", "init",
       "open", "chdir", "link1", "link2", "linkbad", "unlink1", "unlink2", "unlink3",
       "unlockdp", "finish", "done"}

TypeOK ==
  /\ dinode \in [Inums -> [type : Types, nlink : 0 .. MAXLINK + NINODES]]
  /\ entry \in [Inums -> [Elems -> Inums \cup {NOI}]]
  /\ inode \in [Inums -> [ref : Nat, valid : BOOLEAN, type : Types,
                          nlink : 0 .. MAXLINK + NINODES]]
  /\ \A i \in Inums : inode[i].valid => inode[i].type # "none"
  /\ lock \in [Inums -> Procs \cup {NOPROC}]
  /\ cwd \in [Procs -> Inums]
  /\ file \in [Procs -> Inums \cup {NOI}]
  /\ pc \in [Procs -> Pc]
  /\ call \in [Procs -> Calls]
  /\ path \in [Procs -> Seq(Elems)]
  /\ new \in [Procs -> Path \cup {NOPATH}]
  /\ at \in [Procs -> Inums \cup {NOI}]
  /\ ip \in [Procs -> Inums \cup {NOI}]
  /\ dp \in [Procs -> Inums \cup {NOI}]
  /\ puts \in [Procs -> Seq(Inums)]
  /\ next \in [Procs -> Pc]
  /\ lost \subseteq Inums
  /\ gone \subseteq Inums
  /\ astray \in BOOLEAN

\* An entry of icache without references, of which iget() uses nothing.
NoInode == [ref |-> 0, valid |-> FALSE, type |-> "none", nlink |-> 0]

NoEntries == [n \in Elems |-> NOI]

\* The file system that mkfs makes, without files, and processes that are at
\* its root.
Init ==
  /\ dinode = [i \in Inums |-> IF i = ROOTINO THEN [type |-> "DIR", nlink |-> 1]
                                              ELSE [type |-> "none", nlink |-> 0]]
  /\ entry = [i \in Inums |-> IF i = ROOTINO THEN [NoEntries EXCEPT ![".."] = ROOTINO]
                                             ELSE NoEntries]
  /\ inode = [i \in Inums |-> IF i = ROOTINO THEN [NoInode EXCEPT !.ref = Cardinality(Procs)]
                                             ELSE NoInode]
  /\ lock = [i \in Inums |-> NOPROC]
  /\ cwd = [p \in Procs |-> ROOTINO]
  /\ file = [p \in Procs |-> NOI]
  /\ pc = [p \in Procs |-> "user"]
  /\ call = [p \in Procs |-> "none"]
  /\ path = [p \in Procs |-> <<>>]
  /\ new = [p \in Procs |-> NOPATH]
  /\ at = [p \in Procs |-> NOI]
  /\ ip = [p \in Procs |-> NOI]
  /\ dp = [p \in Procs |-> NOI]
  /\ puts = [p \in Procs |-> <<>>]
  /\ next = [p \in Procs |-> "user"]
  /\ lost = {}
  /\ gone = {}
  /\ astray = FALSE

\* Directory entries that name i.
Entries(i) ==
  {e \in Inums \X Names : entry[e[1]][e[2]] = i}

\* `lost' when d gets an entry of i.
Lost(d, i) ==
  IF d # ROOTINO /\ Entries(d) = {} THEN lost \cup {i} ELSE lost

Goto(p, l) == pc' = [pc EXCEPT ![p] = l]
Set(x, p, v) == [x EXCEPT ![p] = v]

\* Out of the system call.
Return(p) ==
  /\ call' = Set(call, p, "none")
  /\ path' = Set(path, p, <<>>)
  /\ new' = Set(new, p, NOPATH)
  /\ Goto(p, "user")

\* iput() of a sequence of inodes, then on to l.
Puts(p, s, l) ==
  /\ puts' = [puts EXCEPT ![p] = s]
  /\ next' = [next EXCEPT ![p] = l]
  /\ Goto(p, "put")

-----------------------------------------------------------------------------
\* The inode cache.

\* iget() and idup(): one more reference, to an entry that is invalid if it is
\* taken anew (a free entry is NoInode already).
iget(c, i) ==
  [c EXCEPT ![i].ref = @ + 1]

\* The entry of i once ilock() has read it, if it had to.
Loaded(i) ==
  IF inode[i].valid THEN inode[i]
  ELSE [inode[i] EXCEPT !.valid = TRUE, !.type = dinode[i].type, !.nlink = dinode[i].nlink]

\* ilock() does not wait, and does not panic for want of a type.
ilock(i) ==
  /\ lock[i] = NOPROC
  /\ inode[i].valid \/ dinode[i].type # "none"

\* iupdate(): the inode on disk is as the one in the cache c.
iupdate(d, c, i) ==
  [d EXCEPT ![i] = [type |-> c[i].type, nlink |-> c[i].nlink]]

Frees_Shared(i) ==
  /\ inode[i].valid
  /\ inode[i].nlink = 0

\* iput() frees i.
Frees(i) ==
  /\ inode[i].valid
  /\ inode[i].nlink = 0
  /\ inode[i].ref = 1

\* iput(): it has the lock of the inode, and has seen whether it is to free it.
iput(p) ==
  /\ pc[p] = "put"
  /\ puts[p] # <<>>
  /\ LET i == Head(puts[p]) IN
     /\ lock[i] = NOPROC
     /\ IF Frees(i) THEN lock' = Set(lock, i, p) /\ Goto(p, "free")
                    ELSE lock' = lock /\ Goto(p, "unref")
  /\ UNCHANGED <<disk, inode, refs, names, at, ip, dp, puts, next, history>>

\* What iput() leaves in the cache when it has freed i.
Freed(c, i) ==
  [c EXCEPT ![i].type = "none", ![i].valid = FALSE]

\* It truncates the inode and frees it on disk.
iput_free(p) ==
  /\ pc[p] = "free"
  /\ LET i == Head(puts[p]) IN
     /\ entry' = [entry EXCEPT ![i] = NoEntries]
     /\ inode' = Freed(inode, i)
     /\ dinode' = iupdate(dinode, inode', i)
     /\ lock' = Set(lock, i, NOPROC)
     /\ lost' = lost \ {i}
     /\ gone' = (gone \cup {d \in Inums : entry[d][".."] = i}) \ {i}
  /\ Goto(p, "unref")
  /\ UNCHANGED <<refs, names, at, ip, dp, puts, next, astray>>

iput_unref(p) ==
  /\ pc[p] = "unref"
  /\ inode' = [inode EXCEPT ![Head(puts[p])] = IF @.ref = 1 THEN NoInode
                                               ELSE [@ EXCEPT !.ref = @ - 1]]
  /\ puts' = Set(puts, p, Tail(puts[p]))
  /\ IF Len(puts[p]) > 1
       THEN Goto(p, "put") /\ UNCHANGED <<next, names>>
       ELSE /\ next' = Set(next, p, "user")
            /\ IF next[p] = "done" THEN Return(p)
                                   ELSE Goto(p, next[p]) /\ UNCHANGED names
  /\ UNCHANGED <<disk, lock, refs, at, ip, dp, history>>

-----------------------------------------------------------------------------
\* Path names.

\* The inode at which namex() starts on the path t.
Start(p, t) == IF t.from = "/" THEN ROOTINO ELSE cwd[p]

\* The calls that look up the directory of their path name, and not the path
\* name itself; link() does so with the second one.
Parent(p) ==
  \/ call[p] \in {"creat", "mkdir", "mknod", "unlink"}
  \/ call[p] = "link" /\ ip[p] # NOI

\* Where the call is when namex() has found what it looked up, and when not.
Found(p) ==
  CASE call[p] \in {"creat", "mkdir", "mknod"} -> "create"
    [] call[p] = "unlink" -> "unlink1"
    [] call[p] = "link"   -> IF ip[p] # NOI THEN "link2" ELSE "link1"
    [] OTHER              -> call[p]

NotFound(p) == IF call[p] = "link" /\ ip[p] # NOI THEN "linkbad" ELSE "done"

\* namex(): one element of the path, which is not the last one of nameiparent().
namex(p) ==
  /\ pc[p] = "walk"
  /\ ~(Parent(p) /\ Len(path[p]) = 1)
  /\ ilock(at[p])
  /\ LET i == at[p]
         j == entry[i][Head(path[p])]
         found == Loaded(i).type = "DIR" /\ j # NOI
         last == Len(path[p]) = 1
         c == [inode EXCEPT ![i] = Loaded(i)]
     IN /\ inode' = IF found THEN iget(c, j) ELSE c
        /\ at' = Set(at, p, IF found /\ ~last THEN j ELSE NOI)
        /\ ip' = Set(ip, p, IF found /\ last THEN j ELSE ip[p])
        /\ path' = Set(path, p, IF found THEN Tail(path[p]) ELSE <<>>)
        /\ Puts(p, <<i>>, CASE ~found -> NotFound(p)
                            [] found /\ last -> Found(p)
                            [] OTHER -> "walk")
        /\ astray' = (astray \/ (found /\ Head(path[p]) = ".." /\
                                 (i \in gone \/ dinode[j].nlink = 0)))
  /\ UNCHANGED <<disk, lock, refs, call, new, dp, lost, gone>>

\* nameiparent() stops one level early.
nameiparent(p) ==
  /\ pc[p] = "walk"
  /\ Parent(p)
  /\ Len(path[p]) = 1
  /\ ilock(at[p])
  /\ inode' = [inode EXCEPT ![at[p]] = Loaded(at[p])]
  /\ at' = Set(at, p, NOI)
  /\ IF Loaded(at[p]).type = "DIR"
       THEN /\ dp' = Set(dp, p, at[p])
            /\ Goto(p, Found(p))
            /\ UNCHANGED <<path, puts, next>>
       ELSE /\ path' = Set(path, p, <<>>)
            /\ Puts(p, <<at[p]>>, NotFound(p))
            /\ UNCHANGED dp
  /\ UNCHANGED <<disk, lock, refs, call, new, ip, history>>

\* A process enters sys_open, with O_CREATE or without, sys_mkdir, sys_mknod,
\* sys_unlink, sys_chdir or sys_link.  It opens one file at a time.
syscall(p) ==
  \E c \in Does[p] :
    /\ pc[p] = "user"
    /\ c.call \in {"open", "creat"} => file[p] = NOI
    /\ call' = Set(call, p, c.call)
    /\ path' = Set(path, p, c.path.elems)
    /\ new' = Set(new, p, c.new)
    /\ at' = Set(at, p, Start(p, c.path))
    /\ inode' = iget(inode, Start(p, c.path))
    /\ Goto(p, "walk")
    /\ UNCHANGED <<disk, lock, refs, ip, dp, puts, next, history>>

\* fileclose() of the last descriptor of a file.
sys_close(p) ==
  /\ pc[p] = "user"
  /\ file[p] # NOI
  /\ file' = Set(file, p, NOI)
  /\ Puts(p, <<file[p]>>, "done")
  /\ UNCHANGED <<disk, inode, lock, cwd, names, at, ip, dp, history>>

-----------------------------------------------------------------------------
\* sys_open and sys_chdir, after namei().

\* There is a file structure and a descriptor for the inode, or there is not.
sys_open(p) ==
  /\ pc[p] = "open"
  /\ ilock(ip[p])
  /\ inode' = [inode EXCEPT ![ip[p]] = Loaded(ip[p])]
  /\ ip' = Set(ip, p, NOI)
  /\ \/ /\ file' = Set(file, p, ip[p])
        /\ Return(p)
        /\ UNCHANGED <<puts, next>>
     \/ /\ Puts(p, <<ip[p]>>, "done")
        /\ UNCHANGED <<file, names>>
  /\ UNCHANGED <<disk, lock, cwd, at, dp, history>>

sys_chdir(p) ==
  /\ pc[p] = "chdir"
  /\ ilock(ip[p])
  /\ inode' = [inode EXCEPT ![ip[p]] = Loaded(ip[p])]
  /\ ip' = Set(ip, p, NOI)
  /\ IF Loaded(ip[p]).type = "DIR"
       THEN cwd' = Set(cwd, p, ip[p]) /\ Puts(p, <<cwd[p]>>, "done")
       ELSE cwd' = cwd /\ Puts(p, <<ip[p]>>, "done")
  /\ UNCHANGED <<disk, lock, file, names, at, dp, history>>

-----------------------------------------------------------------------------
\* create(), of sys_open, sys_mkdir and sys_mknod.

\* What it creates.
Type(p) ==
  CASE call[p] = "mkdir" -> "DIR"
    [] call[p] = "mknod" -> "DEV"
    [] OTHER             -> "FILE"

Handed_Both(p, d, i) == [lock EXCEPT ![i] = p]

\* The locks when a call that had the directory d locked has i locked instead.
Handed(p, d, i) == [lock EXCEPT ![i] = p, ![d] = NOPROC]

\* It has looked for the name in the directory dp, which it keeps locked if the
\* name is not there.
create(p) ==
  /\ pc[p] = "create"
  /\ ilock(dp[p])
  /\ LET j == entry[dp[p]][Head(path[p])]
         c == [inode EXCEPT ![dp[p]] = Loaded(dp[p])]
     IN IF j # NOI
          THEN /\ inode' = iget(c, j)
               /\ ip' = Set(ip, p, j)
               /\ dp' = Set(dp, p, NOI)
               /\ Puts(p, <<dp[p]>>, "found")
               /\ UNCHANGED lock
          ELSE /\ inode' = c
               /\ lock' = Set(lock, dp[p], p)
               /\ Goto(p, "ialloc")
               /\ UNCHANGED <<ip, dp, puts, next>>
  /\ UNCHANGED <<disk, refs, names, at, history>>

\* The name is there: only a file will do, and only for sys_open.
create_found(p) ==
  /\ pc[p] = "found"
  /\ ilock(ip[p])
  /\ inode' = [inode EXCEPT ![ip[p]] = Loaded(ip[p])]
  /\ ip' = Set(ip, p, NOI)
  /\ \/ /\ Type(p) = "FILE"
        /\ Loaded(ip[p]).type = "FILE"
        /\ file' = Set(file, p, ip[p])
        /\ Return(p)
        /\ UNCHANGED <<puts, next>>
     \/ /\ Puts(p, <<ip[p]>>, "done")
        /\ UNCHANGED <<file, names>>
  /\ UNCHANGED <<disk, lock, cwd, at, dp, history>>

Allocated_Cleared(p, i) ==
  [dinode EXCEPT ![i] = [type |-> "none", nlink |-> 0]]

\* The inode i is cleared on disk and then has a type.
Allocated(p, i) ==
  [dinode EXCEPT ![i] = [type |-> Type(p), nlink |-> 0]]

\* ialloc(): the first inode that is free on disk.
ialloc(p) ==
  /\ pc[p] = "ialloc"
  /\ \E i \in Inums : dinode[i].type = "none"
  /\ LET i == Min({j \in Inums : dinode[j].type = "none"}) IN
     /\ dinode' = Allocated(p, i)
     /\ at' = Set(at, p, i)
  /\ Goto(p, "iget")
  /\ UNCHANGED <<entry, inode, lock, refs, names, ip, dp, puts, next, history>>

ialloc_iget(p) ==
  /\ pc[p] = "iget"
  /\ inode' = iget(inode, at[p])
  /\ ip' = Set(ip, p, at[p])
  /\ at' = Set(at, p, NOI)
  /\ Goto(p, "init")
  /\ UNCHANGED <<disk, lock, refs, names, dp, puts, next, history>>

\* The new inode, locked, gets its link, and dp its entry; a directory's ".."
\* is a link to dp.
create_init(p) ==
  /\ pc[p] = "init"
  /\ ilock(ip[p])
  /\ LET i == ip[p]
         d == dp[p]
         dir == Type(p) = "DIR"
         c == [inode EXCEPT ![i] = [Loaded(i) EXCEPT !.nlink = 1],
                            ![d].nlink = @ + IF dir THEN 1 ELSE 0]
     IN /\ inode' = c
        /\ dinode' = iupdate(iupdate(dinode, c, i), c, d)
        /\ entry' = [entry EXCEPT ![i][".."] = IF dir THEN d ELSE NOI,
                                  ![d][Head(path[p])] = i]
        /\ lock' = Handed(p, d, i)
        /\ lost' = Lost(d, i)
  /\ dp' = Set(dp, p, NOI)
  /\ Puts(p, <<dp[p]>>, "finish")
  /\ UNCHANGED <<refs, names, at, ip, gone, astray>>

\* Back from create() with the new inode.
create_finish(p) ==
  /\ pc[p] = "finish"
  /\ lock' = Set(lock, ip[p], NOPROC)
  /\ ip' = Set(ip, p, NOI)
  /\ \/ /\ Type(p) = "FILE"
        /\ file' = Set(file, p, ip[p])
        /\ Return(p)
        /\ UNCHANGED <<puts, next>>
     \/ /\ Puts(p, <<ip[p]>>, "done")
        /\ UNCHANGED <<file, names>>
  /\ UNCHANGED <<disk, inode, cwd, at, dp, history>>

-----------------------------------------------------------------------------
\* sys_unlink.

\* The directory is locked, and the inode of the name is looked up in it.
sys_unlink(p) ==
  /\ pc[p] = "unlink1"
  /\ ilock(dp[p])
  /\ LET d == dp[p]
         n == Head(path[p])
         c == [inode EXCEPT ![d] = Loaded(d)]
     IN IF n # ".." /\ entry[d][n] # NOI
          THEN /\ inode' = iget(c, entry[d][n])
               /\ ip' = Set(ip, p, entry[d][n])
               /\ lock' = Set(lock, d, p)
               /\ Goto(p, "unlink2")
               /\ UNCHANGED <<dp, puts, next>>
          ELSE /\ inode' = c
               /\ dp' = Set(dp, p, NOI)
               /\ Puts(p, <<d>>, "done")
               /\ UNCHANGED <<ip, lock>>
  /\ UNCHANGED <<disk, refs, names, at, history>>

isdirempty_Any(i) == TRUE

isdirempty(i) == \A n \in Names : entry[i][n] = NOI

\* The inode is locked too: a directory has to be empty.  The entry goes, and
\* with a directory the link of its "..".
sys_unlink_entry(p) ==
  /\ pc[p] = "unlink2"
  /\ ilock(ip[p])
  /\ LET i == ip[p]
         d == dp[p]
         dir == Loaded(i).type = "DIR"
         c == [inode EXCEPT ![i] = Loaded(i)]
     IN IF dir /\ ~isdirempty(i)
          THEN /\ inode' = c
               /\ ip' = Set(ip, p, NOI)
               /\ Puts(p, <<i>>, "unlockdp")
               /\ UNCHANGED <<disk, lock, dp>>
          ELSE /\ Loaded(i).nlink > 0
               /\ inode' = [c EXCEPT ![d].nlink = @ - IF dir THEN 1 ELSE 0]
               /\ dinode' = iupdate(dinode, inode', d)
               /\ entry' = [entry EXCEPT ![d][Head(path[p])] = NOI]
               /\ lock' = Handed(p, d, i)
               /\ dp' = Set(dp, p, NOI)
               /\ Puts(p, <<d>>, "unlink3")
               /\ UNCHANGED ip
  /\ UNCHANGED <<refs, names, at, history>>

sys_unlink_drop(p) ==
  /\ pc[p] = "unlink3"
  /\ inode' = [inode EXCEPT ![ip[p]].nlink = @ - 1]
  /\ dinode' = iupdate(dinode, inode', ip[p])
  /\ lock' = Set(lock, ip[p], NOPROC)
  /\ ip' = Set(ip, p, NOI)
  /\ Puts(p, <<ip[p]>>, "done")
  /\ UNCHANGED <<entry, refs, names, at, dp, history>>

\* A call that has failed gives up the directory that it has locked.
unlockdp(p) ==
  /\ pc[p] = "unlockdp"
  /\ lock' = Set(lock, dp[p], NOPROC)
  /\ dp' = Set(dp, p, NOI)
  /\ Puts(p, <<dp[p]>>, NotFound(p))
  /\ UNCHANGED <<disk, inode, refs, names, at, ip, history>>

-----------------------------------------------------------------------------
\* sys_link, after namei() of the old path name.

\* The link is counted before there is an entry for it, and the look-up of the
\* new path name begins.
sys_link_count(p) ==
  /\ pc[p] = "link1"
  /\ ilock(ip[p])
  /\ LET i == ip[p]
         c == [inode EXCEPT ![i] = Loaded(i)]
     IN IF Loaded(i).type = "DIR"
          THEN /\ inode' = c
               /\ ip' = Set(ip, p, NOI)
               /\ Puts(p, <<i>>, "done")
               /\ UNCHANGED <<dinode, path, at>>
          ELSE /\ Loaded(i).nlink < MAXLINK
               /\ inode' = iget([c EXCEPT ![i].nlink = @ + 1], Start(p, new[p]))
               /\ dinode' = iupdate(dinode, inode', i)
               /\ path' = Set(path, p, new[p].elems)
               /\ at' = Set(at, p, Start(p, new[p]))
               /\ Goto(p, "walk")
               /\ UNCHANGED <<ip, puts, next>>
  /\ UNCHANGED <<entry, lock, refs, call, new, dp, history>>

\* dirlink() of the new name, which fails if the name is there.
sys_link_entry(p) ==
  /\ pc[p] = "link2"
  /\ ilock(dp[p])
  /\ LET d == dp[p]
         n == Head(path[p])
         j == entry[d][n]
         c == [inode EXCEPT ![d] = Loaded(d)]
     IN IF j # NOI
          THEN /\ inode' = iget(c, j)
               /\ lock' = Set(lock, d, p)
               /\ Puts(p, <<j>>, "unlockdp")
               /\ UNCHANGED <<entry, ip, dp, lost>>
          ELSE /\ inode' = c
               /\ entry' = [entry EXCEPT ![d][n] = ip[p]]
               /\ lost' = Lost(d, ip[p])
               /\ ip' = Set(ip, p, NOI)
               /\ dp' = Set(dp, p, NOI)
               /\ Puts(p, <<d, ip[p]>>, "done")
               /\ UNCHANGED lock
  /\ UNCHANGED <<dinode, refs, names, at, gone, astray>>

\* The link that was not made is no longer counted.
sys_link_bad(p) ==
  /\ pc[p] = "linkbad"
  /\ ilock(ip[p])
  /\ inode' = [inode EXCEPT ![ip[p]] = [Loaded(ip[p]) EXCEPT !.nlink = @ - 1]]
  /\ dinode' = iupdate(dinode, inode', ip[p])
  /\ ip' = Set(ip, p, NOI)
  /\ Puts(p, <<ip[p]>>, "done")
  /\ UNCHANGED <<entry, lock, refs, names, at, dp, history>>

-----------------------------------------------------------------------------
Next ==
  \E p \in Procs :
    \/ syscall(p) \/ sys_close(p)
    \/ namex(p) \/ nameiparent(p)
    \/ iput(p) \/ iput_free(p) \/ iput_unref(p)
    \/ sys_open(p) \/ sys_chdir(p)
    \/ create(p) \/ create_found(p) \/ ialloc(p) \/ ialloc_iget(p)
    \/ create_init(p) \/ create_finish(p)
    \/ sys_unlink(p) \/ sys_unlink_entry(p) \/ sys_unlink_drop(p) \/ unlockdp(p)
    \/ sys_link_count(p) \/ sys_link_entry(p) \/ sys_link_bad(p)

Spec == Init /\ [][Next]_vars

-----------------------------------------------------------------------------
\* Properties.

\* The references that a process has to the inode i.
Held(p, i) ==
  Cardinality({k \in 1 .. Len(puts[p]) : puts[p][k] = i})
    + Cardinality({k \in 1 .. 5 : <<cwd[p], file[p], ip[p], dp[p],
                                    IF pc[p] = "iget" THEN NOI ELSE at[p]>>[k] = i})

\* An entry of icache counts the pointers that processes have to it: no call,
\* on any of its paths out, forgets one or drops one twice (iget, idup, iput).
RefsExact ==
  \A i \in Inums : inode[i].ref = MapThenSumSet(LAMBDA p : Held(p, i), Procs)

\* Calls that have taken out an entry of i and not yet its link, or have counted
\* a link to it that has no entry yet.
Pending(i) ==
  {p \in Procs : /\ ip[p] = i
                 /\ \/ call[p] = "unlink" /\ lock[i] = p
                    \/ call[p] = "link" /\ "link1" \notin {pc[p], next[p]}}

\* On disk nlink is the number of the inode's entries, one more for each
\* subdirectory of a directory and one for the root directory, up to the calls
\* that are under way.  The exception is an inode that create() or sys_link puts
\* in a directory that was removed after the look-up of its path name: its link
\* stays when that directory is freed.
LinksExact ==
  \A i \in Inums \ lost :
    dinode[i].nlink =
      Cardinality(Entries(i)) + Cardinality(Pending(i))
        + Cardinality({n \in Names : entry[i][n] # NOI /\ dinode[entry[i][n]].type = "DIR"})
        + (IF i = ROOTINO THEN 1 ELSE 0)

\* Types are kept, and the counts of references in memory and of links on disk are
\* exact (iget, iput, create, sys_link, sys_unlink).
CountsExact == TypeOK /\ RefsExact /\ LinksExact

\* What a directory names, a process has open or is in, is an inode in use: iput()
\* frees an inode when it has neither links nor other references, although
\* look-ups, and ialloc() on the same inode, go on meanwhile.
NotFreedInUse ==
  /\ \A d \in Inums, n \in Names : entry[d][n] # NOI => dinode[entry[d][n]].type # "none"
  /\ \A p \in Procs :
       /\ dinode[cwd[p]].type = "DIR"
       /\ file[p] # NOI => dinode[file[p]].type # "none"

\* The inode whose lock a process is to take next.
Wants(p) ==
  CASE pc[p] = "walk" -> at[p]
    [] pc[p] \in {"create", "unlink1", "link2"} -> dp[p]
    [] pc[p] \in {"found", "init", "open", "chdir", "link1", "linkbad", "unlink2"} -> ip[p]
    [] pc[p] = "put" -> Head(puts[p])
    [] OTHER -> NOI

\* No process gets an inode that is free ("ilock: no type"), nor finds an inode
\* by its name that has no links ("unlink: nlink < 1"), until a look-up goes
\* through the ".." of a directory that was removed, and its parent after it,
\* while a process was in it.
NoPanic ==
  ~astray =>
    \A p \in Procs :
      LET i == Wants(p) IN
      i # NOI /\ lock[i] = NOPROC =>
        /\ pc[p] # "put" => inode[i].valid \/ dinode[i].type # "none"
        /\ pc[p] = "unlink2" => Loaded(i).nlink > 0

\* Inode locks are taken from a directory to what is in it.  So processes wait
\* for one another only if one of them is in the iput() of the directory that
\* create() and sys_unlink() do with the inode in it locked: that iput() takes
\* the directory's lock again.  No process waits for itself.
LocksOrdered ==
  \A p, q \in Procs :
    /\ Wants(p) # NOI /\ lock[Wants(p)] = q
    /\ Wants(q) # NOI /\ lock[Wants(q)] = p
    => /\ p # q
       /\ \E r \in {p, q} : pc[r] = "put" /\ next[r] \in {"finish", "unlink3"}

\* Bound: what a look-up that has gone astray leads to is not explored.
NotAstray == ~astray
=============================================================================
