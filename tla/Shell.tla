-------------------------------- MODULE Shell --------------------------------
(***************************************************************************)
(* The shell (user/sh.c) and the processes that a command line makes, down *)
(* to the programs that they run, with init (user/init.c).                 *)
(*                                                                         *)
(* A line is a sequence of tokens, as gettoken() finds them: words are "w" *)
(* and are known by their position.  The kernel is there as the system     *)
(* calls of these programs see it: descriptors, open files and processes   *)
(* as Files and ProcTable have them in detail.                             *)
(***************************************************************************)
EXTENDS Integers, FiniteSets, FiniteSetsExt, Sequences, SequencesExt

CONSTANTS NPROC,     \* slots of the process table; init has the first
          NOFILE,    \* descriptors of a process
          MAXARGS,
          Scripts    \* bound: the lines that are typed

Tokens == {"w", "<", ">", ">>", "|", "&", ";", "(", ")"}

ASSUME ShellAssumption ==
  /\ NPROC \in Nat /\ NPROC >= 3
  /\ NOFILE \in Nat /\ NOFILE >= 3
  /\ MAXARGS \in Nat \ {0}
  /\ \A s \in Scripts : \A k \in DOMAIN s : s[k] \in Seq(Tokens)

VARIABLES
  script,   \* lines yet to be typed
  line,     \* buf of main()
  shell,    \* the process of the shell, or NOPROC: init is about to start it
  state,    \* of processes: free, run, zombie
  parent,
  todo,     \* what a process does from here on: see Run
  ofile,    \* descriptors: what is open, or NOF
  p,        \* the descriptors of the two ends of the pipe that runcmd() made
  bg,       \* history: processes that a "&" has put into the background
  forkfail  \* history: a fork() has failed

vars == <<script, line, shell, state, parent, todo, ofile, p, bg, forkfail>>

Procs == 1 .. NPROC
INIT == 1
NOPROC == 0
Fds == 0 .. NOFILE - 1
NOF == <<>>
Console == <<"console">>

-----------------------------------------------------------------------------
\* The parser.  A function of it returns the set of a command and the position after
\* it, or the empty set if it panics: then the process exits.

execcmd(argv) == <<"EXEC", argv>>
redircmd(c, k, fd) == <<"REDIR", c, k, fd>>
pipecmd(l, r) == <<"PIPE", l, r>>
listcmd(l, r) == <<"LIST", l, r>>
backcmd(c) == <<"BACK", c>>

Ok(c, i) == {[cmd |-> c, at |-> i]}
panic == {}

\* The token at position i of the line.
gettoken(i) == IF i <= Len(line) THEN line[i] ELSE "end"

peek(i, toks) == gettoken(i) \in toks

RECURSIVE parseline(_), parsepipe(_), parseredirs(_, _), parseargs(_, _, _), Backs(_, _)

\* Redirections are a sequence of positions of file names with descriptors.
parseredirs(rs, i) ==
  IF ~peek(i, {"<", ">", ">>"}) THEN Ok(rs, i)
  ELSE IF ~peek(i + 1, {"w"}) THEN panic
  ELSE parseredirs(Append(rs, <<i + 1, IF peek(i, {"<"}) THEN 0 ELSE 1>>), i + 2)

\* A command with its redirections, the last of them outermost.
Redirected(c, rs) == FoldLeft(LAMBDA d, x : redircmd(d, x[1], x[2]), c, rs)

\* The loop of parseexec().
parseargs(argv, rs, i) ==
  IF peek(i, {"|", ")", "&", ";", "end"}) THEN Ok(Redirected(execcmd(argv), rs), i)
  ELSE IF ~peek(i, {"w"}) \/ Len(argv) + 1 >= MAXARGS THEN panic
  ELSE UNION {parseargs(Append(argv, i), r.cmd, r.at) : r \in parseredirs(rs, i + 1)}

parseblock(i) ==
  UNION {UNION {Ok(Redirected(c.cmd, r.cmd), r.at) : r \in parseredirs(<<>>, c.at + 1)} :
         c \in {x \in parseline(i + 1) : peek(x.at, {")"})}}

parseexec(i) ==
  IF peek(i, {"("}) THEN parseblock(i)
  ELSE UNION {parseargs(<<>>, r.cmd, r.at) : r \in parseredirs(<<>>, i)}

parsepipe_Once(i) ==
  UNION {IF peek(l.at, {"|"})
           THEN UNION {Ok(pipecmd(l.cmd, r.cmd), r.at) : r \in parseexec(l.at + 1)}
           ELSE {l} : l \in parseexec(i)}

parsepipe(i) ==
  UNION {IF peek(l.at, {"|"})
           THEN UNION {Ok(pipecmd(l.cmd, r.cmd), r.at) : r \in parsepipe(l.at + 1)}
           ELSE {l} : l \in parseexec(i)}

\* The loop of parseline() over "&".
Backs(c, i) == IF peek(i, {"&"}) THEN Backs(backcmd(c), i + 1) ELSE Ok(c, i)

parseline(i) ==
  UNION {IF peek(l.at, {";"})
           THEN UNION {Ok(listcmd(l.cmd, r.cmd), r.at) : r \in parseline(l.at + 1)}
           ELSE {l} : l \in UNION {Backs(c.cmd, c.at) : c \in parsepipe(i)}}

\* The command of the line; what is left over is a syntax error.
parsecmd == {r.cmd : r \in {x \in parseline(1) : x.at = Len(line) + 1}}

-----------------------------------------------------------------------------
\* What runcmd() does with a command, as the sequence of steps of the process that
\* runs it: system calls, and the code that a child runs after fork1().  name tells
\* the pipes of a line apart; in and out say what descriptors 0 and 1 are meant to be
\* where a program is executed.

Step(o) == <<[op |-> o]>>
fork1(code, back) == <<[op |-> "fork", code |-> code, back |-> back]>>
close(d) == <<[op |-> "close", fd |-> d]>>
closep(k) == <<[op |-> "closep", end |-> k]>>
dup(k) == <<[op |-> "dup", end |-> k]>>
open(f) == <<[op |-> "open", file |-> f]>>

\* The child on the left of a pipe before it runs its command: its standard output
\* becomes the end to write, p[1].
LeftEnd_Keep == close(1) \o dup(2) \o closep(2)

LeftEnd == close(1) \o dup(2) \o closep(1) \o closep(2)

\* The child on the right: its standard input becomes p[0].
RightEnd == close(0) \o dup(1) \o closep(1) \o closep(2)

\* The parent lets go of both ends and waits for both children.
ParentCloses_Read == closep(1)

ParentCloses == closep(1) \o closep(2)

ParentWaits_Once == Step("wait")

ParentWaits == Step("wait") \o Step("wait")

RECURSIVE runcmd(_, _, _, _)

runcmd(c, name, in, out) ==
  CASE c[1] = "EXEC" ->
         IF c[2] = <<>> THEN Step("exit") ELSE <<[op |-> "exec", in |-> in, out |-> out]>>
    [] c[1] = "REDIR" ->
         LET f == <<"file", c[3]>> IN
         close(c[4]) \o open(f)
           \o runcmd(c[2], name, IF c[4] = 0 THEN f ELSE in, IF c[4] = 1 THEN f ELSE out)
    [] c[1] = "LIST" ->
         fork1(runcmd(c[2], Append(name, 1), in, out), FALSE)
           \o Step("wait") \o runcmd(c[3], Append(name, 2), in, out)
    [] c[1] = "PIPE" ->
         <<[op |-> "pipe", name |-> name]>>
           \o fork1(LeftEnd \o runcmd(c[2], Append(name, 1), in, <<"write", name>>), FALSE)
           \o fork1(RightEnd \o runcmd(c[3], Append(name, 2), <<"read", name>>, out), FALSE)
           \o ParentCloses \o ParentWaits \o Step("exit")
    [] c[1] = "BACK" ->
         fork1(runcmd(c[2], Append(name, 1), in, out), TRUE) \o Step("exit")

\* The loop of main(): read a line, have a child parse and run it, wait.
main == Step("getcmd") \o fork1(Step("parse"), FALSE) \o Step("wait")

-----------------------------------------------------------------------------
\* init has started the shell, and both have the console as descriptors 0, 1 and 2.
Consoles == [d \in Fds |-> IF d < 3 THEN Console ELSE NOF]

Init ==
  /\ script \in Scripts
  /\ line = <<>>
  /\ shell = 2
  /\ state = [q \in Procs |-> IF q <= 2 THEN "run" ELSE "free"]
  /\ parent = [q \in Procs |-> IF q = 2 THEN INIT ELSE NOPROC]
  /\ todo = [q \in Procs |-> IF q = 2 THEN main ELSE IF q = INIT THEN Step("init") ELSE <<>>]
  /\ ofile = [q \in Procs |-> IF q <= 2 THEN Consoles ELSE [d \in Fds |-> NOF]]
  /\ p = [q \in Procs |-> <<0, 0>>]
  /\ bg = {}
  /\ forkfail = FALSE

\* Process q runs, and its next step is o.
At(q, o) == state[q] = "run" /\ Head(todo[q]).op = o

\* The rest of the steps; main() begins again.
Rest(q) == IF Tail(todo[q]) = <<>> THEN main ELSE Tail(todo[q])
Continue(q) == todo' = [todo EXCEPT ![q] = Rest(q)]

FreeFds(q) == {d \in Fds : ofile[q][d] = NOF}

\* exit(): everything is closed, children become init's, the parent may reap it.
exit(q) ==
  /\ state' = [state EXCEPT ![q] = "zombie"]
  /\ parent' = [c \in Procs |-> IF parent[c] = q THEN INIT ELSE parent[c]]
  /\ todo' = [todo EXCEPT ![q] = <<>>]
  /\ ofile' = [ofile EXCEPT ![q] = [d \in Fds |-> NOF]]

\* fork() makes a child with the same descriptors, in the first free slot.
Forked(q, c, code) ==
  /\ state' = [state EXCEPT ![c] = "run"]
  /\ parent' = [parent EXCEPT ![c] = q]
  /\ ofile' = [ofile EXCEPT ![c] = ofile[q]]
  /\ p' = [p EXCEPT ![c] = p[q]]
  /\ todo' = [todo EXCEPT ![c] = code, ![q] = Rest(q)]

FreeSlots == {c \in Procs : state[c] = "free"}

\* The line is read.
getcmd ==
  /\ shell # NOPROC
  /\ At(shell, "getcmd")
  /\ script # <<>>
  /\ line' = Head(script)
  /\ script' = Tail(script)
  /\ Continue(shell)
  /\ UNCHANGED <<shell, state, parent, ofile, p, bg, forkfail>>

\* The child of main() parses the line: runcmd(parsecmd(buf)), or it panics.
parse(q) ==
  /\ At(q, "parse")
  /\ todo' = [todo EXCEPT ![q] =
       IF parsecmd = {} THEN Step("exit")
       ELSE runcmd(CHOOSE c \in parsecmd : TRUE, <<Len(script)>>, Console, Console)]
  /\ UNCHANGED <<script, line, shell, state, parent, ofile, p, bg, forkfail>>

\* fork1() panics if fork() fails, here for want of a slot; want of memory would end
\* the same way.
fork(q) ==
  /\ At(q, "fork")
  /\ \/ /\ FreeSlots = {}
        /\ exit(q)
        /\ forkfail' = TRUE
        /\ UNCHANGED <<p, bg>>
     \/ /\ FreeSlots # {}
        /\ LET c == Min(FreeSlots)
               s == Head(todo[q])
           IN /\ Forked(q, c, s.code)
              /\ bg' = IF s.back \/ q \in bg THEN bg \cup {c} ELSE bg \ {c}
        /\ UNCHANGED forkfail
  /\ UNCHANGED <<script, line, shell>>

Zombies(q) == {c \in Procs : parent[c] = q /\ state[c] = "zombie"}

Reap(c) ==
  /\ state' = [state EXCEPT ![c] = "free"]
  /\ parent' = [parent EXCEPT ![c] = NOPROC]

\* wait() reaps the first child that has exited.  The steps of these programs never
\* call it without a child.
wait(q) ==
  /\ At(q, "wait")
  /\ Zombies(q) # {}
  /\ Reap(Min(Zombies(q)))
  /\ Continue(q)
  /\ UNCHANGED <<script, line, shell, ofile, p, bg, forkfail>>

\* close(), of a descriptor or of an end of the pipe.
closes(q) ==
  /\ At(q, "close") \/ At(q, "closep")
  /\ LET s == Head(todo[q])
         d == IF s.op = "close" THEN s.fd ELSE p[q][s.end]
     IN ofile' = [ofile EXCEPT ![q][d] = NOF]
  /\ Continue(q)
  /\ UNCHANGED <<script, line, shell, state, parent, p, bg, forkfail>>

\* dup() of an end of the pipe takes the first free descriptor.
dups(q) ==
  /\ At(q, "dup")
  /\ ofile' = [ofile EXCEPT ![q][Min(FreeFds(q))] = ofile[q][p[q][Head(todo[q]).end]]]
  /\ Continue(q)
  /\ UNCHANGED <<script, line, shell, state, parent, p, bg, forkfail>>

\* open() takes the first free descriptor, or fails, and the process exits.
opens(q) ==
  /\ At(q, "open")
  /\ \/ /\ ofile' = [ofile EXCEPT ![q][Min(FreeFds(q))] = Head(todo[q]).file]
        /\ Continue(q)
        /\ UNCHANGED <<state, parent>>
     \/ exit(q)
  /\ UNCHANGED <<script, line, shell, p, bg, forkfail>>

\* pipe() takes the first two free descriptors, or fails, and the process panics.
pipe(q) ==
  /\ At(q, "pipe")
  /\ \/ LET r == Min(FreeFds(q))
            w == Min(FreeFds(q) \ {r})
            name == Head(todo[q]).name
        IN /\ Cardinality(FreeFds(q)) >= 2
           /\ p' = [p EXCEPT ![q] = <<r, w>>]
           /\ ofile' = [ofile EXCEPT ![q][r] = <<"read", name>>, ![q][w] = <<"write", name>>]
           /\ Continue(q)
           /\ UNCHANGED <<state, parent>>
     \/ exit(q) /\ UNCHANGED p
  /\ UNCHANGED <<script, line, shell, bg, forkfail>>

\* exec(): the program reads its input to the end while it writes its output.  It may
\* also exit without having read it, as the process does if exec() fails.
exec(q) ==
  /\ At(q, "exec")
  /\ \E o \in {"program", "exit"} : todo' = [todo EXCEPT ![q] = Step(o)]
  /\ UNCHANGED <<script, line, shell, state, parent, ofile, p, bg, forkfail>>

Holds(q, f) == \E d \in Fds : ofile[q][d] = f

\* read() returns 0: no write end of the pipe is open.
AtEof(q) ==
  LET f == ofile[q][0] IN
  f[1] = "read" => \A r \in Procs : ~Holds(r, <<"write", f[2]>>)

\* write() does not block for ever: a program reads the pipe, or no read end is open
\* and it fails.
Drained(q) ==
  LET f == ofile[q][1]
      e == <<"read", f[2]>>
  IN f[1] = "write" => \/ \A r \in Procs : ~Holds(r, e)
                       \/ \E r \in Procs : At(r, "program") /\ ofile[r][0] = e

\* A program has read and written all, or a process has nothing more to do.
exits(q) ==
  /\ At(q, "exit") \/ (At(q, "program") /\ AtEof(q) /\ Drained(q))
  /\ exit(q)
  /\ UNCHANGED <<script, line, shell, p, bg, forkfail>>

\* The loop of init: it reaps what has become its child.  When that is the shell it
\* starts another, and exits if fork() fails: the kernel panics.
init ==
  \/ /\ At(INIT, "init")
     /\ Zombies(INIT) # {}
     /\ LET c == Min(Zombies(INIT)) IN
        /\ Reap(c)
        /\ IF c = shell
             THEN shell' = NOPROC /\ todo' = [todo EXCEPT ![INIT] = Step("start")]
             ELSE UNCHANGED <<shell, todo>>
     /\ UNCHANGED <<ofile, p, bg>>
  \/ /\ At(INIT, "start")
     /\ FreeSlots # {}
     /\ LET c == Min(FreeSlots) IN
        /\ shell' = c
        /\ bg' = bg \ {c}
        /\ state' = [state EXCEPT ![c] = "run"]
        /\ parent' = [parent EXCEPT ![c] = INIT]
        /\ ofile' = [ofile EXCEPT ![c] = Consoles]
        /\ p' = [p EXCEPT ![c] = p[INIT]]
        /\ todo' = [todo EXCEPT ![c] = main, ![INIT] = Step("init")]
  \/ /\ At(INIT, "start")
     /\ FreeSlots = {}
     /\ state' = [state EXCEPT ![INIT] = "panic"]
     /\ UNCHANGED <<shell, parent, todo, ofile, p, bg>>

Panicked == state[INIT] = "panic"

\* A step of a process that does not wait for the user.
Steps(q) ==
  /\ ~Panicked
  /\ \/ parse(q) \/ fork(q) \/ wait(q) \/ closes(q) \/ dups(q) \/ opens(q)
     \/ pipe(q) \/ exec(q) \/ exits(q)

InitSteps == init /\ UNCHANGED <<script, line, forkfail>>

Next ==
  \/ ~Panicked /\ getcmd
  \/ InitSteps
  \/ \E q \in Procs : Steps(q)

Spec == Init /\ [][Next]_vars

\* The scheduler runs every process that can run (module ProcTable), and programs end.
FairSpec == Spec /\ WF_vars(InitSteps) /\ \A q \in Procs : WF_vars(Steps(q))

-----------------------------------------------------------------------------
\* The grammar: the trees of the tokens from i up to j, j excluded, each by how the
\* tokens can be split and not by a scan from the left.

RedirOps == {"<", ">", ">>"}

\* Words and redirections in any order: an operator takes the word after it.
Ops(i, j) == {k \in i .. j - 1 : line[k] \in RedirOps}
Args(i, j) == {k \in i .. j - 1 : line[k] = "w" /\ k - 1 \notin Ops(i, j)}

IsSimple(i, j) ==
  /\ \A k \in i .. j - 1 : line[k] \in RedirOps \cup {"w"}
  /\ \A k \in Ops(i, j) : k + 1 < j /\ line[k + 1] = "w"
  /\ Cardinality(Args(i, j)) < MAXARGS

Sorted(S) == SetToSortSeq(S, <)

\* The redirections from left to right.
Redirs(i, j) ==
  LET ks == Sorted(Ops(i, j)) IN
  [n \in DOMAIN ks |-> <<ks[n] + 1, IF line[ks[n]] = "<" THEN 0 ELSE 1>>]

SimpleTrees(i, j) ==
  IF IsSimple(i, j) THEN {Redirected(execcmd(Sorted(Args(i, j))), Redirs(i, j))} ELSE {}

RECURSIVE LineTrees(_, _), PipeTrees(_, _), JobTrees(_, _)

\* A block in parentheses, with redirections of the whole block behind it.
BlockTrees(i, j) ==
  UNION {{Redirected(c, Redirs(m + 1, j)) : c \in LineTrees(i + 1, m)} :
         m \in {k \in i + 1 .. j - 1 : /\ line[i] = "(" /\ line[k] = ")"
                                       /\ IsSimple(k + 1, j) /\ Args(k + 1, j) = {}}}

CmdTrees(i, j) == SimpleTrees(i, j) \cup BlockTrees(i, j)

PipeTrees(i, j) ==
  CmdTrees(i, j) \cup
  UNION {{pipecmd(l, r) : l \in CmdTrees(i, m), r \in PipeTrees(m + 1, j)} :
         m \in {k \in i .. j - 1 : line[k] = "|"}}

JobTrees(i, j) ==
  PipeTrees(i, j) \cup
  (IF j > i /\ line[j - 1] = "&" THEN {backcmd(c) : c \in JobTrees(i, j - 1)} ELSE {})

LineTrees(i, j) ==
  JobTrees(i, j) \cup
  UNION {{listcmd(l, r) : l \in JobTrees(i, m), r \in LineTrees(m + 1, j)} :
         m \in {k \in i .. j - 1 : line[k] = ";"}}

-----------------------------------------------------------------------------
\* A slot is free, runs something with the console as its standard error, or waits to
\* be reaped with nothing open (fork, exit, wait).
TypeOK ==
  /\ \E s \in Scripts : IsSuffix(script, s)
  /\ shell \in Procs \cup {NOPROC}
  /\ state \in [Procs -> {"free", "run", "zombie", "panic"}]
  /\ parent \in [Procs -> Procs \cup {NOPROC}]
  /\ p \in [Procs -> Fds \X Fds]
  /\ bg \subseteq Procs
  /\ forkfail \in BOOLEAN
  /\ \A q \in Procs :
       /\ state[q] = "free" <=> parent[q] = NOPROC /\ q # INIT
       /\ DOMAIN ofile[q] = Fds
       /\ state[q] = "run" <=> todo[q] # <<>> /\ state[q] # "panic"
       /\ IF state[q] \in {"run", "panic"} THEN ofile[q][2] = Console
          ELSE \A d \in Fds : ofile[q][d] = NOF

\* The recursive descent of parsecmd() builds the tree of the line that the grammar
\* gives, of which there is at most one, and panics for every line that has none.
ParsesGrammar ==
  (shell # NOPROC /\ At(shell, "fork")) =>
     parsecmd = LineTrees(1, Len(line) + 1)

\* Types are kept, and a program starts with the standard input and output that its
\* place in the command and its redirections give it, and holds no end of a pipe besides: runcmd() gets
\* there by close() and dup() in processes that inherit each other's descriptors.
Plumbed ==
  /\ TypeOK
  /\ \A q \in Procs : At(q, "exec") =>
       LET s == Head(todo[q]) IN
       ofile[q] = [d \in Fds |-> CASE d = 0 -> s.in [] d = 1 -> s.out [] d = 2 -> Console
                                   [] OTHER -> NOF]

AtPrompt == shell # NOPROC /\ At(shell, "getcmd")

\* When the shell asks for the next line, everything that still runs was started with
\* "&": the waits of runcmd() and main() are for their own children and for all of
\* them, whichever ends first.  Only a process whose fork1() failed leaves others.
Foreground ==
  (AtPrompt /\ ~forkfail) =>
     \A q \in Procs \ {INIT, shell} : state[q] = "run" => q \in bg

\* The shell gets back to its prompt whatever the line is: no program waits for the
\* end of a pipe that some process of the line still holds open, and a shell that
\* panics is started again, unless init's own fork() fails.
Prompts == []<>(AtPrompt \/ Panicked)
=============================================================================
