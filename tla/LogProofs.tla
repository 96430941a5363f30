------------------------------ MODULE LogProofs -----------------------------
(***************************************************************************)
(* The log keeps its inductive invariant and implements AtomicDisk, for    *)
(* any processes, blocks, values and sizes, as long as the transaction     *)
(* fits the log area (LogFits).  One lemma per action for the invariant,   *)
(* and one for the step it maps to.                                        *)
(***************************************************************************)
EXTENDS Log, FiniteSetTheorems, TLAPS

-----------------------------------------------------------------------------
(* Counting the active calls.                                              *)

\* The processes inside a call are finitely many, before and after a step.
LEMMA ActiveFinite == IsFiniteSet(Active) /\ IsFiniteSet(Active')
<1>1. Active \in SUBSET Procs /\ Active' \in SUBSET Procs
  BY Zenon DEF Active
<1> QED
  BY Zenon, <1>1, FS_Subset, LogAssumption

\* begin_op() lets one process in.
LEMMA CountEnter ==
  ASSUME CountInv, NEW p \in Procs, p \notin Active,
         Active' = Active \cup {p}, outstanding' = outstanding + 1
  PROVE  CountInv'
BY Zenon, ActiveFinite, FS_AddElement DEF CountInv

\* end_op() lets one process out.
LEMMA CountLeave ==
  ASSUME CountInv, NEW p \in Procs, p \in Active,
         Active' = Active \ {p}, outstanding' = outstanding - 1
  PROVE  CountInv'
BY Zenon, ActiveFinite, FS_RemoveElement DEF CountInv

\* The counter tells end_op() whether its caller is the last.
LEMMA LastOut ==
  ASSUME CountInv, NEW p \in Procs, p \in Active
  PROVE  outstanding = 1 <=> Active \ {p} = {}
<1>1. IsFiniteSet(Active \ {p}) /\ Cardinality(Active \ {p}) = outstanding - 1
  BY Zenon, ActiveFinite, FS_RemoveElement DEF CountInv
<1>2. outstanding \in Nat
  BY Zenon, ActiveFinite, FS_CardinalityType DEF CountInv
<1> QED
  BY <1>1, <1>2, FS_EmptySet

\* Nobody inside, nothing counted.
LEMMA NoneInside ==
  ASSUME CountInv
  PROVE  outstanding = 0 <=> Active = {}
BY Zenon, ActiveFinite, FS_EmptySet DEF CountInv

-----------------------------------------------------------------------------
(* The actions keep the invariant.                                         *)

\* begin_op()
LEMMA BeginStep ==
  ASSUME IInv, NEW p \in Procs, begin_op(p)
  PROVE  IInv'
<1> USE DEF begin_op, diskvars, cachevars, Goto
<1>1. TypeOK'
  BY DEF IInv, TypeOK, Pc
<1>2. HeadersOK' /\ CleanMatchesDisk' /\ LoggedInv'
  BY DEF IInv, HeadersOK, Distinct, CleanMatchesDisk, LoggedInv, Entries
<1>3. BufInv' /\ CommitInv' /\ BootInv'
  <2>1. BufInv'
    BY Zenon DEF IInv, TypeOK, BufInv
  <2>2. CommitInv'
    BY DEF IInv, TypeOK, CommitInv
  <2>3. BootInv'
    BY Zenon DEF IInv, BootInv
  <2> QED
    BY Zenon, <2>1, <2>2, <2>3
<1>4. CASE MustWait
  <2>1. Active' = Active /\ Committers' = Committers /\ outstanding' = outstanding
    BY Zenon, <1>4 DEF IInv, TypeOK, Active, Committers
  <2>2. CountInv' /\ CommitsAlone' /\ EmptyInv'
    BY Zenon, <1>4, <2>1 DEF IInv, TypeOK, CountInv, CommitsAlone, EmptyInv
  <2>3. committing \/ Active # {}
    <3>1. SUFFICES ASSUME ~committing, Active = {} PROVE FALSE
      OBVIOUS
    <3>2. lh = <<>> /\ outstanding = 0
      BY Zenon, <3>1, NoneInside DEF IInv, EmptyInv
    <3> QED
      BY <1>4, <3>1, <3>2, LogAssumption DEF MustWait
  <2>4. SleepersAwaited'
    BY Zenon, <2>1, <2>3 DEF SleepersAwaited
  <2> QED
    BY Zenon, <1>1, <1>2, <1>3, <2>2, <2>4 DEF IInv
<1>5. CASE ~MustWait
  <2>1. /\ Active' = Active \cup {p} /\ Committers' = Committers /\ p \notin Active
        /\ ~committing
    BY Zenon, <1>5 DEF IInv, TypeOK, Active, Committers, MustWait
  <2>2. CountInv'
    BY Zenon, <1>5, <2>1, CountEnter DEF IInv
  <2>3. CommitsAlone' /\ EmptyInv' /\ SleepersAwaited'
    BY <1>5, <2>1 DEF IInv, TypeOK, CommitsAlone, EmptyInv, SleepersAwaited
  <2> QED
    BY Zenon, <1>1, <1>2, <1>3, <2>2, <2>3 DEF IInv
<1> QED
  BY Zenon, <1>4, <1>5
\* log_write() up to the lock: the buffer changes, and p holds it.
LEMMA WriteStep ==
  ASSUME IInv, NEW p \in Procs, NEW b \in Blocks, NEW v \in Values, log_write(p, b, v)
  PROVE  IInv'
<1> USE DEF log_write, diskvars, Goto
<1>1. TypeOK'
  BY Zenon DEF IInv, TypeOK, Pc
<1>2. /\ Active' = Active /\ Committers' = Committers /\ p \in Active
      /\ pc[p] = "op" /\ pc'[p] \in {"append", "panic"}
      /\ \A q \in Procs \ {p} : pc'[q] = pc[q]
      /\ buf' = [buf EXCEPT ![p] = b] /\ cache' = [cache EXCEPT ![b] = v]
      /\ UNCHANGED <<disk, logdata, head, dirty, lh, outstanding, committing, tail, boot>>
  BY Zenon DEF IInv, TypeOK, Active, Committers
<1> HIDE DEF log_write
<1>3. boot = "up" /\ ~committing /\ Committers = {}
  BY Zenon, <1>2 DEF IInv, BootInv, CommitsAlone
<1>4. HeadersOK' /\ CountInv' /\ CommitsAlone' /\ EmptyInv'
  BY Zenon, <1>2, <1>3 DEF IInv, HeadersOK, CountInv, CommitsAlone, EmptyInv
<1>5. BufInv'
  BY Zenon, <1>2, LogAssumption DEF IInv, TypeOK, BufInv
<1>6. BootInv' /\ CommitInv' /\ SleepersAwaited'
  BY Zenon, <1>2, <1>3 DEF IInv, BootInv, CommitInv, SleepersAwaited, Committers
<1>7. CleanMatchesDisk' /\ LoggedInv'
  <2>1. \A a \in Blocks \ {b} : cache'[a] = cache[a]
    BY Zenon, <1>2 DEF IInv, TypeOK
  <2>2. buf'[p] = b /\ \A q \in Procs \ {p} : buf'[q] = buf[q]
    BY Zenon, <1>2 DEF IInv, TypeOK
  <2>3. buf[p] = NOBUF
    BY Zenon, <1>2 DEF IInv, BufInv
  <2>4. \A a \in Blocks : (\E q \in Procs : buf[q] = a) => \E q \in Procs : buf'[q] = a
    BY Zenon, <2>2, <2>3, LogAssumption
  <2> QED
    BY <1>2, <2>1, <2>2, <2>4 DEF IInv, CleanMatchesDisk, LoggedInv
<1> QED
  BY Zenon, <1>1, <1>4, <1>5, <1>6, <1>7 DEF IInv

\* Absorption keeps the blocks of a transaction distinct.
LEMMA LoggedFacts ==
  ASSUME lh \in Seq(Blocks), Distinct(lh), NEW b \in Blocks, NEW s, s = Logged(b)
  PROVE  /\ s \in Seq(Blocks) /\ Distinct(s)
         /\ b \in Entries(s)
         /\ Entries(lh) \subseteq Entries(s)
<1>1. CASE b \in Entries(lh)
  BY Zenon, <1>1 DEF Logged
<1>2. CASE b \notin Entries(lh)
  <2>1. s = Append(lh, b)
    BY Zenon, <1>2 DEF Logged
  <2>2. s \in Seq(Blocks) /\ Len(s) = Len(lh) + 1 /\ s[Len(lh) + 1] = b
    BY <2>1
  <2>3. \A i \in 1 .. Len(lh) : s[i] = lh[i] /\ s[i] # b
    BY <1>2, <2>1 DEF Entries
  <2>4. Distinct(s)
    BY <2>2, <2>3 DEF Distinct
  <2>5. b \in Entries(s) /\ Entries(lh) \subseteq Entries(s)
    BY <2>2, <2>3 DEF Entries
  <2> QED
    BY Zenon, <2>2, <2>4, <2>5
<1> QED
  BY Zenon, <1>1, <1>2

\* The rest of log_write(): the block is in the transaction and pinned.
LEMMA AppendStep ==
  ASSUME IInv, NEW p \in Procs, log_append(p)
  PROVE  IInv'
<1>1. /\ Active' = Active /\ Committers' = Committers /\ p \in Active
      /\ pc[p] = "append" /\ pc'[p] = "op"
      /\ \A q \in Procs \ {p} : pc'[q] = pc[q]
      /\ pc' \in [Procs -> Pc]
  BY Zenon DEF IInv, TypeOK, Active, Committers, log_append, Goto, Pc
<1>2. /\ buf' = [buf EXCEPT ![p] = NOBUF] /\ lh' = Logged(buf[p])
      /\ dirty' = dirty \cup {buf[p]}
      /\ UNCHANGED <<disk, logdata, head, cache, outstanding, committing, wrote, tail, boot>>
  BY Zenon DEF log_append, diskvars, Pinned
<1>3. buf[p] \in Blocks
  BY Zenon, <1>1 DEF IInv, TypeOK, BufInv
<1>4. /\ lh' \in Seq(Blocks) /\ Distinct(lh') /\ buf[p] \in Entries(lh')
      /\ Entries(lh) \subseteq Entries(lh')
  BY Zenon, <1>2, <1>3, LoggedFacts DEF IInv, TypeOK, HeadersOK
<1>5. boot = "up" /\ ~committing /\ Committers = {}
  BY Zenon, <1>1 DEF IInv, BootInv, CommitsAlone
<1>6. TypeOK'
  BY Zenon, <1>1, <1>2, <1>3, <1>4 DEF IInv, TypeOK
<1>7. HeadersOK'
  BY Zenon, <1>2, <1>4 DEF IInv, HeadersOK, Distinct
<1>8. CountInv' /\ CommitsAlone' /\ EmptyInv'
  BY Zenon, <1>1, <1>2, <1>5 DEF IInv, CountInv, CommitsAlone, EmptyInv
<1>9. BufInv'
  BY Zenon, <1>1, <1>2 DEF IInv, TypeOK, BufInv
<1>10. BootInv' /\ CommitInv' /\ SleepersAwaited'
  BY Zenon, <1>1, <1>2, <1>5 DEF IInv, BootInv, CommitInv, SleepersAwaited, Committers
<1>11. CleanMatchesDisk' /\ LoggedInv'
  <2>1. \A q \in Procs : buf[q] \in Blocks \ {buf[p]} => buf'[q] = buf[q]
    BY Zenon, <1>2 DEF IInv, TypeOK
  <2>2. \A a \in Blocks \ {buf[p]} :
          (\E q \in Procs : buf[q] = a) => \E q \in Procs : buf'[q] = a
    BY Zenon, <2>1
  <2>3. Entries(lh)' = Entries(lh')
    BY Zenon DEF Entries
  <2> QED
    BY Zenon, <1>2, <1>4, <2>2, <2>3 DEF IInv, CleanMatchesDisk, LoggedInv
<1> QED
  BY Zenon, <1>6, <1>7, <1>8, <1>9, <1>10, <1>11 DEF IInv

\* end_op()
LEMMA EndStep ==
  ASSUME IInv, NEW p \in Procs, end_op(p)
  PROVE  IInv'
<1>1. /\ pc[p] = "op" /\ p \in Active /\ outstanding' = outstanding - 1
      /\ UNCHANGED <<disk, logdata, head, cache, dirty, lh, buf, wrote, boot>>
  BY Zenon DEF end_op, Active, diskvars, cachevars, opvars
<1>2. boot = "up" /\ ~committing /\ Committers = {}
  BY Zenon, <1>1 DEF IInv, BootInv, CommitsAlone
<1>3. outstanding \in Nat /\ outstanding # 0
  BY Zenon, <1>1, NoneInside DEF IInv, TypeOK
<1>4. HeadersOK' /\ CleanMatchesDisk' /\ LoggedInv'
  BY <1>1 DEF IInv, HeadersOK, Distinct, CleanMatchesDisk, LoggedInv, Entries
<1>5. CASE outstanding = 1
  <2>1. /\ committing' = TRUE /\ tail' = 0
        /\ pc' = [pc EXCEPT ![p] = IF lh = <<>> THEN "done" ELSE "write_log"]
    BY Zenon, <1>2, <1>5 DEF end_op, Goto
  <2>2. Active = {p}
    BY <1>1, <1>5, LastOut DEF IInv
  <2>3. Active' = Active \ {p} /\ Committers' = {p}
    BY Zenon, <1>1, <1>2, <2>1 DEF IInv, TypeOK, Active, Committers
  <2>4. TypeOK'
    BY <1>1, <1>3, <2>1 DEF IInv, TypeOK, Pc
  <2>5. CountInv'
    BY Zenon, <1>1, <2>3, CountLeave DEF IInv
  <2>6. BufInv' /\ EmptyInv'
    BY Zenon, <1>1, <1>2, <2>1 DEF IInv, TypeOK, BufInv, EmptyInv, Committers
  <2>7. CommitsAlone' /\ SleepersAwaited' /\ BootInv'
    BY Zenon, <1>1, <1>2, <2>1, <2>2, <2>3 DEF CommitsAlone, SleepersAwaited, BootInv
  <2>8. CommitInv'
    BY <1>1, <1>2, <2>1 DEF IInv, TypeOK, CommitInv, Committers
  <2> QED
    BY Zenon, <1>4, <2>4, <2>5, <2>6, <2>7, <2>8 DEF IInv
<1>6. CASE outstanding # 1
  <2>1. /\ pc' = Awake([pc EXCEPT ![p] = "idle"])
        /\ UNCHANGED <<committing, tail>>
    BY Zenon, <1>2, <1>6 DEF end_op
  <2>2. /\ pc' \in [Procs -> Pc] /\ pc'[p] = "idle"
        /\ \A q \in Procs \ {p} : pc'[q] = IF pc[q] = "sleep" THEN "woken" ELSE pc[q]
    BY Zenon, <2>1 DEF IInv, TypeOK, Awake, Pc
  <2>3. Active' = Active \ {p} /\ Committers' = {}
    BY Zenon, <1>2, <2>2 DEF Active, Committers
  <2>4. Active' # {}
    BY Zenon, <1>1, <1>6, <2>3, LastOut DEF IInv
  <2>5. TypeOK'
    <3>1. outstanding' \in Nat /\ committing' = committing /\ tail' = tail
      BY <1>1, <1>3, <2>1
    <3> QED
      BY Zenon, <1>1, <2>2, <3>1 DEF IInv, TypeOK
  <2>6. CountInv'
    BY Zenon, <1>1, <2>3, CountLeave DEF IInv
  <2>7. BufInv'
    BY Zenon, <1>1, <2>2 DEF IInv, BufInv
  <2>8. EmptyInv' /\ CommitsAlone' /\ SleepersAwaited' /\ BootInv'
    BY Zenon, <1>1, <1>2, <2>1, <2>2, <2>3, <2>4
       DEF IInv, EmptyInv, CommitsAlone, SleepersAwaited, BootInv, Committers
  <2>9. CommitInv'
    BY Zenon, <2>3 DEF CommitInv, Committers
  <2> QED
    BY Zenon, <1>4, <2>5, <2>6, <2>7, <2>8, <2>9 DEF IInv
<1> QED
  BY Zenon, <1>5, <1>6
\* write_log(): one more block of the transaction is in the log.
LEMMA WriteLogStep ==
  ASSUME IInv, LogFits, NEW p \in Procs, write_log(p)
  PROVE  IInv'
<1>1. pc[p] = "write_log" /\ tail < Len(lh) /\ tail' = tail + 1
  BY Zenon DEF write_log
<1>2. tail \in Nat /\ Len(lh) \in Nat /\ lh \in Seq(Blocks)
  BY DEF IInv, TypeOK
<1>3. tail + 1 \in Slots /\ tail + 1 \in 1 .. Len(lh)
  BY <1>1, <1>2, LogAssumption DEF LogFits, Slots
<1>4. /\ logdata' = [logdata EXCEPT ![tail + 1] = cache[lh[tail + 1]]]
      /\ UNCHANGED <<disk, head, cache, dirty, lh, outstanding, committing, pc, buf, wrote, boot>>
  BY Zenon, <1>3 DEF write_log, cachevars, opvars
<1>5. p \in Committers /\ committing /\ boot = "up"
  BY Zenon, <1>1 DEF IInv, Committers, CommitsAlone, BootInv
<1>6. TypeOK'
  <2>1. lh[tail + 1] \in Blocks
    BY <1>2, <1>3
  <2> QED
    BY <1>1, <1>2, <1>3, <1>4, <2>1 DEF IInv, TypeOK
<1>7. HeadersOK' /\ BufInv' /\ CleanMatchesDisk' /\ LoggedInv'
  BY <1>4 DEF IInv, HeadersOK, Distinct, BufInv, CleanMatchesDisk, LoggedInv, Entries
<1>8. CountInv' /\ EmptyInv' /\ CommitsAlone' /\ SleepersAwaited'
  BY Zenon, <1>4 DEF IInv, CountInv, EmptyInv, CommitsAlone, SleepersAwaited, Active, Committers
<1>9. BootInv'
  BY Zenon, <1>4, <1>5 DEF BootInv
<1>10. CommitInv'
  <2>1. \A q \in Procs : pc'[q] = pc[q] /\ pc[q] # "install" /\ pc[q] # "done"
    BY Zenon, <1>1, <1>4, <1>5 DEF IInv, CommitsAlone, Committers
  <2>2. logdata'[tail + 1] = cache[lh[tail + 1]]
    BY Zenon, <1>3, <1>4 DEF IInv, TypeOK
  <2>3. \A i \in 1 .. tail : logdata'[i] = logdata[i]
    BY <1>2, <1>4 DEF IInv, TypeOK
  <2>4. \A i \in 1 .. tail : logdata[i] = cache[lh[i]]
    BY Zenon, <1>1, <1>5 DEF IInv, CommitInv
  <2>5. \A i \in 1 .. (tail + 1) : logdata'[i] = cache[lh[i]]
    BY <1>2, <2>2, <2>3, <2>4
  <2>6. tail' <= Len(lh')
    BY <1>1, <1>2, <1>4
  <2> QED
    BY Zenon, <1>1, <1>4, <2>1, <2>5, <2>6 DEF CommitInv
<1> QED
  BY Zenon, <1>6, <1>7, <1>8, <1>9, <1>10 DEF IInv

\* write_head(): the transaction is committed.
LEMMA WriteHeadStep ==
  ASSUME IInv, LogFits, NEW p \in Procs, write_head(p)
  PROVE  IInv'
<1>1. /\ pc[p] = "write_log" /\ tail = Len(lh) /\ head' = lh /\ tail' = 0
      /\ pc' = [pc EXCEPT ![p] = "install"]
      /\ UNCHANGED <<disk, logdata, cache, dirty, lh, outstanding, committing, buf, wrote, boot>>
  BY Zenon DEF write_head, LogWritten, Goto, cachevars, opvars
<1>2. p \in Committers /\ committing /\ boot = "up" /\ \A q \in Committers : q = p
  BY Zenon, <1>1 DEF IInv, Committers, CommitsAlone, BootInv
<1>3. TypeOK'
  BY Zenon, <1>1 DEF IInv, TypeOK, Pc
<1>4. Active' = Active /\ Committers' = Committers
  BY Zenon, <1>1 DEF IInv, TypeOK, Active, Committers
<1>5. HeadersOK'
  BY Zenon, <1>1 DEF IInv, HeadersOK, Distinct, LogFits
<1>6. BufInv' /\ CleanMatchesDisk' /\ LoggedInv'
  BY <1>1 DEF IInv, TypeOK, BufInv, CleanMatchesDisk, LoggedInv, Entries
<1>7. CountInv' /\ CommitsAlone' /\ SleepersAwaited' /\ BootInv' /\ EmptyInv'
  BY Zenon, <1>1, <1>2, <1>4 DEF IInv, TypeOK, CountInv, CommitsAlone, SleepersAwaited, BootInv, EmptyInv
<1>8. CommitInv'
  <2>1. \A i \in 1 .. Len(lh) : logdata[i] = cache[lh[i]]
    BY Zenon, <1>1, <1>2 DEF IInv, CommitInv
  <2>2. \A q \in Procs : q # p => pc'[q] \notin {"write_log", "install", "done"}
    BY Zenon, <1>1, <1>2 DEF IInv, TypeOK, Committers
  <2>3. pc'[p] = "install" /\ tail' <= Len(lh') /\ \A i \in 1 .. tail' : FALSE
    BY <1>1 DEF IInv, TypeOK
  <2> QED
    BY Zenon, <1>1, <2>1, <2>2, <2>3 DEF CommitInv
<1> QED
  BY Zenon, <1>3, <1>5, <1>6, <1>7, <1>8 DEF IInv

\* One block of install_trans() while the log is committed: its home block
\* gets what the cache holds.
LEMMA InstallStep ==
  ASSUME IInv, LogFits, NEW p \in Procs, install_trans(p)
  PROVE  IInv'
<1> DEFINE b == lh[tail + 1]
<1>1. pc[p] = "install" /\ tail < Len(lh) /\ tail' = tail + 1
  BY Zenon DEF install_trans, Install
<1>2. tail \in Nat /\ Len(lh) \in Nat /\ lh \in Seq(Blocks)
  BY DEF IInv, TypeOK
<1>3. tail + 1 \in Slots /\ tail + 1 \in 1 .. Len(lh) /\ b \in Blocks
  BY <1>1, <1>2, LogAssumption DEF LogFits, Slots
<1>4. p \in Committers /\ committing /\ boot = "up" /\ \A q \in Committers : q = p
  BY Zenon, <1>1 DEF IInv, Committers, CommitsAlone, BootInv
<1>5. /\ head = lh
      /\ \A i \in 1 .. Len(lh) : logdata[i] = cache[lh[i]]
      /\ \A i \in 1 .. tail : disk[lh[i]] = cache[lh[i]]
  BY Zenon, <1>1, <1>4 DEF IInv, CommitInv
<1>6. ReadSlot(tail + 1) = cache[b]
  BY Zenon, <1>3, <1>5 DEF ReadSlot
<1>7. /\ disk' = [disk EXCEPT ![b] = cache[b]]
      /\ cache' = [cache EXCEPT ![b] = cache[b]]
      /\ dirty' = dirty \ {b}
      /\ UNCHANGED <<logdata, head, lh, outstanding, committing, pc, buf, wrote, boot>>
  BY Zenon, <1>6 DEF install_trans, Install, opvars
<1>8. cache' = cache
  BY Zenon, <1>7 DEF IInv, TypeOK
<1>9. disk' \in [Blocks -> Values]
  BY Zenon, <1>3, <1>7 DEF IInv, TypeOK
<1>10. disk'[b] = cache[b] /\ \A a \in Blocks : a # b => disk'[a] = disk[a]
  BY Zenon, <1>3, <1>7 DEF IInv, TypeOK
<1>11. TypeOK'
  BY <1>1, <1>2, <1>7, <1>8, <1>9 DEF IInv, TypeOK
<1>12. HeadersOK' /\ BufInv' /\ BootInv'
  BY Zenon, <1>4, <1>7 DEF IInv, HeadersOK, Distinct, BufInv, BootInv
<1>13. CountInv' /\ EmptyInv' /\ CommitsAlone' /\ SleepersAwaited'
  BY Zenon, <1>7 DEF IInv, CountInv, EmptyInv, CommitsAlone, SleepersAwaited, Active, Committers
<1>14. CleanMatchesDisk' /\ LoggedInv'
  BY <1>7, <1>8, <1>10 DEF IInv, CleanMatchesDisk, LoggedInv, Entries
<1>15. CommitInv'
  <2>1. \A q \in Procs : q # p => pc'[q] \notin {"write_log", "install", "done"}
    BY Zenon, <1>4, <1>7 DEF Committers
  <2>2. \A i \in 1 .. tail : lh[i] \in Blocks
    BY <1>1, <1>2
  <2>3. \A i \in 1 .. tail : disk'[lh[i]] = cache[lh[i]]
    BY <1>5, <1>10, <2>2
  <2>4. \A i \in 1 .. (tail + 1) : disk'[lh[i]] = cache[lh[i]]
    BY <1>2, <1>10, <2>3
  <2>5. tail' <= Len(lh') /\ pc'[p] = "install"
    BY <1>1, <1>2, <1>7
  <2> QED
    BY Zenon, <1>1, <1>5, <1>7, <1>8, <2>1, <2>4, <2>5 DEF CommitInv
<1> QED
  BY Zenon, <1>11, <1>12, <1>13, <1>14, <1>15 DEF IInv
\* The transaction is installed and erased from the log.
LEMMA EraseStep ==
  ASSUME IInv, NEW p \in Procs, erase(p)
  PROVE  IInv'
<1>1. /\ pc[p] = "install" /\ tail = Len(lh) /\ lh' = <<>> /\ head' = <<>> /\ tail' = 0
      /\ pc' = [pc EXCEPT ![p] = "done"]
      /\ UNCHANGED <<disk, logdata, cache, dirty, outstanding, committing, buf, wrote, boot>>
  BY Zenon DEF erase, Goto, cachevars, opvars
<1>2. p \in Committers /\ committing /\ boot = "up" /\ \A q \in Committers : q = p
  BY Zenon, <1>1 DEF IInv, Committers, CommitsAlone, BootInv
<1>3. TypeOK'
  BY <1>1 DEF IInv, TypeOK, Pc
<1>4. Active' = Active /\ Committers' = Committers
  BY Zenon, <1>1 DEF IInv, TypeOK, Active, Committers
<1>5. HeadersOK'
  BY <1>1, LogAssumption DEF HeadersOK, Distinct
<1>6. BufInv' /\ CleanMatchesDisk'
  BY Zenon, <1>1 DEF IInv, TypeOK, BufInv, CleanMatchesDisk
<1>7. CountInv' /\ CommitsAlone' /\ SleepersAwaited' /\ BootInv' /\ EmptyInv'
  BY Zenon, <1>1, <1>2, <1>4 DEF IInv, TypeOK, CountInv, CommitsAlone, SleepersAwaited, BootInv, EmptyInv
<1>8. CommitInv'
  <2>1. \A q \in Procs : q # p => pc'[q] \notin {"write_log", "install", "done"}
    BY Zenon, <1>1, <1>2 DEF IInv, TypeOK, Committers
  <2>2. pc'[p] = "done" /\ lh' = <<>>
    BY Zenon, <1>1 DEF IInv, TypeOK
  <2> QED
    BY Zenon, <2>1, <2>2 DEF CommitInv
<1>9. LoggedInv'
  <2>1. \A b \in Entries(lh) : disk[b] = cache[b]
    BY <1>1, <1>2 DEF IInv, CommitInv, Entries
  <2> QED
    BY Zenon, <1>1, <1>2, <2>1 DEF IInv, LoggedInv
<1> QED
  BY Zenon, <1>3, <1>5, <1>6, <1>7, <1>8, <1>9 DEF IInv

\* The end of end_op() after a commit.
LEMMA DoneStep ==
  ASSUME IInv, NEW p \in Procs, commit_done(p)
  PROVE  IInv'
<1>1. /\ pc[p] = "done" /\ committing' = FALSE /\ tail' = 0
      /\ pc' = Awake([pc EXCEPT ![p] = "idle"])
      /\ UNCHANGED <<disk, logdata, head, cache, dirty, lh, outstanding, buf, wrote, boot>>
  BY Zenon DEF commit_done, diskvars, cachevars, opvars
<1>2. /\ pc' \in [Procs -> Pc] /\ pc'[p] = "idle"
      /\ \A q \in Procs \ {p} : pc'[q] = IF pc[q] = "sleep" THEN "woken" ELSE pc[q]
  BY Zenon, <1>1 DEF IInv, TypeOK, Awake, Pc
<1>3. /\ p \in Committers /\ committing /\ boot = "up" /\ Active = {}
      /\ \A q \in Committers : q = p
  BY Zenon, <1>1 DEF IInv, Committers, CommitsAlone, BootInv
<1>4. lh = <<>>
  BY Zenon, <1>1, <1>3 DEF IInv, CommitInv
<1>5. Active' = Active /\ Committers' = {} /\ \A q \in Procs : pc'[q] # "sleep"
  BY Zenon, <1>2, <1>3 DEF Active, Committers
<1>6. TypeOK'
  BY Zenon, <1>1, <1>2 DEF IInv, TypeOK
<1>7. HeadersOK' /\ CleanMatchesDisk' /\ LoggedInv'
  <2>1. HeadersOK'
    BY Zenon, <1>1 DEF IInv, HeadersOK, Distinct
  <2>2. CleanMatchesDisk'
    BY Zenon, <1>1 DEF IInv, CleanMatchesDisk
  <2>3. LoggedInv'
    BY Zenon, <1>1 DEF IInv, LoggedInv, Entries
  <2> QED
    BY Zenon, <2>1, <2>2, <2>3
<1>8. BufInv'
  BY Zenon, <1>1, <1>2 DEF IInv, BufInv
<1>9. CountInv' /\ CommitsAlone' /\ SleepersAwaited' /\ BootInv'
  BY Zenon, <1>1, <1>3, <1>5 DEF IInv, CountInv, CommitsAlone, SleepersAwaited, BootInv
<1>10. EmptyInv'
  <2>1. \A q \in Procs : pc[q] # "install"
    BY Zenon, <1>1, <1>3 DEF Committers
  <2> QED
    BY Zenon, <1>1, <1>3, <1>4, <2>1 DEF IInv, EmptyInv
<1>11. CommitInv'
  BY Zenon, <1>5 DEF CommitInv, Committers
<1> QED
  BY Zenon, <1>6, <1>7, <1>8, <1>9, <1>10, <1>11 DEF IInv

\* A machine that has just booted, on any disk with a header that fits.
LEMMA BootedInv ==
  ASSUME disk \in [Blocks -> Values], logdata \in [Slots -> Values],
         head \in Seq(Blocks), Distinct(head), Len(head) <= SIZE - 1,
         cache = disk, dirty = {}, lh = <<>>, outstanding = 0, committing = FALSE,
         pc = [p \in Procs |-> "idle"], buf = [p \in Procs |-> NOBUF],
         wrote = [p \in Procs |-> {}], tail = 0, boot = "read"
  PROVE  IInv
<1>1. TypeOK
  <2>1. lh \in Seq(Blocks) /\ outstanding \in Nat /\ tail \in Nat
    OBVIOUS
  <2>2. dirty \in SUBSET Blocks /\ boot \in {"read", "install", "up"} /\ cache \in [Blocks -> Values]
    OBVIOUS
  <2>3. committing \in BOOLEAN
    BY Zenon
  <2>4. pc \in [Procs -> Pc]
    BY Zenon DEF Pc
  <2>5. buf \in [Procs -> Blocks \cup {NOBUF}] /\ wrote \in [Procs -> SUBSET Blocks]
    OBVIOUS
  <2> QED
    BY Zenon, <2>1, <2>2, <2>3, <2>4, <2>5 DEF TypeOK
<1>2. Active = {} /\ Committers = {}
  BY Zenon DEF Active, Committers
<1>3. CountInv
  BY Zenon, <1>2, FS_EmptySet DEF CountInv
<1>4. HeadersOK
  BY DEF HeadersOK, Distinct
<1>5. BufInv /\ BootInv /\ CommitInv /\ EmptyInv /\ LoggedInv /\ CleanMatchesDisk
  BY Zenon DEF BufInv, BootInv, CommitInv, EmptyInv, LoggedInv, CleanMatchesDisk
<1>6. CommitsAlone /\ SleepersAwaited
  BY Zenon, <1>2 DEF CommitsAlone, SleepersAwaited
<1> QED
  BY Zenon, <1>1, <1>3, <1>4, <1>5, <1>6 DEF IInv

\* The first boot.
LEMMA InitIInv == Init => IInv
<1> SUFFICES ASSUME Init PROVE IInv
  OBVIOUS
<1>1. logdata \in [Slots -> Values] /\ head \in Seq(Blocks) /\ Distinct(head) /\ Len(head) <= SIZE - 1
  BY LogAssumption DEF Init, Distinct
<1> QED
  BY Zenon, <1>1, BootedInv DEF Init

\* Power fails, and the machine boots again.
LEMMA CrashStep ==
  ASSUME IInv, Crash
  PROVE  IInv'
<1>1. /\ UNCHANGED <<disk, logdata, head>>
      /\ cache' = disk' /\ dirty' = {} /\ lh' = <<>> /\ outstanding' = 0
      /\ pc' = [p \in Procs |-> "idle"] /\ buf' = [p \in Procs |-> NOBUF]
      /\ wrote' = [p \in Procs |-> {}] /\ tail' = 0 /\ boot' = "read"
  BY Zenon DEF Crash, diskvars
<1>0. committing' = FALSE
  BY Zenon DEF Crash
<1>2. TypeOK'
  <2>1. lh' \in Seq(Blocks) /\ outstanding' \in Nat /\ tail' \in Nat
    BY <1>1
  <2>2. dirty' \in SUBSET Blocks /\ boot' \in {"read", "install", "up"}
    BY Zenon, <1>1
  <2>3. committing' \in BOOLEAN
    BY Zenon, <1>0
  <2>4. pc' \in [Procs -> Pc]
    BY Zenon, <1>1 DEF Pc
  <2>5. buf' \in [Procs -> Blocks \cup {NOBUF}] /\ wrote' \in [Procs -> SUBSET Blocks]
    BY Zenon, <1>1
  <2>6. /\ disk' \in [Blocks -> Values] /\ cache' \in [Blocks -> Values]
        /\ logdata' \in [Slots -> Values] /\ head' \in Seq(Blocks)
    BY Zenon, <1>1 DEF IInv, TypeOK
  <2> QED
    BY Zenon, <2>1, <2>2, <2>3, <2>4, <2>5, <2>6 DEF TypeOK
<1>3. Active' = {} /\ Committers' = {}
  BY Zenon, <1>1 DEF Active, Committers
<1>4. CountInv'
  BY Zenon, <1>1, <1>3, FS_EmptySet DEF CountInv
<1>5. HeadersOK'
  BY <1>1 DEF IInv, HeadersOK, Distinct
<1>6. BufInv' /\ BootInv' /\ CommitInv' /\ EmptyInv' /\ LoggedInv' /\ CleanMatchesDisk'
  BY Zenon, <1>0, <1>1 DEF BufInv, BootInv, CommitInv, EmptyInv, LoggedInv, CleanMatchesDisk
<1>7. CommitsAlone' /\ SleepersAwaited'
  BY Zenon, <1>0, <1>1, <1>3 DEF CommitsAlone, SleepersAwaited
<1> QED
  BY Zenon, <1>2, <1>4, <1>5, <1>6, <1>7 DEF IInv

\* recover_from_log(): read_head() and the end.
LEMMA RecoverStep ==
  ASSUME IInv, recover_read \/ recover_clear
  PROVE  IInv'
<1>1. /\ boot # "up" /\ tail' = 0
      /\ UNCHANGED <<disk, logdata, cache, dirty, outstanding, committing, pc, buf, wrote>>
  BY Zenon DEF recover_read, recover_clear, diskvars, cachevars, opvars
<1>2. /\ \A p \in Procs : pc[p] = "idle"
      /\ cache = disk /\ ~committing
  BY Zenon, <1>1 DEF IInv, BootInv
<1>3. \/ boot' = "install" /\ head' = head /\ lh' = head
      \/ boot' = "up" /\ head' = <<>> /\ lh' = <<>>
  BY Zenon DEF recover_read, recover_clear, diskvars
<1>4. TypeOK'
  <2>1. /\ head' \in Seq(Blocks) /\ lh' \in Seq(Blocks) /\ tail' \in Nat
        /\ boot' \in {"read", "install", "up"}
    <3>1. head \in Seq(Blocks) /\ <<>> \in Seq(Blocks)
      BY DEF IInv, TypeOK
    <3>2. tail' \in Nat
      BY Zenon, <1>1
    <3>3. CASE boot' = "install" /\ head' = head /\ lh' = head
      BY Zenon, <3>1, <3>2, <3>3
    <3>4. CASE boot' = "up" /\ head' = <<>> /\ lh' = <<>>
      BY Zenon, <3>1, <3>2, <3>4
    <3> QED
      BY Zenon, <1>3, <3>3, <3>4
  <2>2. committing' \in BOOLEAN
    BY Zenon, <1>1 DEF IInv, TypeOK
  <2>3. /\ disk' \in [Blocks -> Values] /\ cache' \in [Blocks -> Values]
        /\ logdata' \in [Slots -> Values] /\ dirty' \in SUBSET Blocks
        /\ outstanding' \in Nat
    BY Zenon, <1>1 DEF IInv, TypeOK
  <2>4. /\ pc' \in [Procs -> Pc] /\ buf' \in [Procs -> Blocks \cup {NOBUF}]
        /\ wrote' \in [Procs -> SUBSET Blocks]
    BY Zenon, <1>1 DEF IInv, TypeOK
  <2> QED
    BY Zenon, <2>1, <2>2, <2>3, <2>4 DEF TypeOK
<1>5. Active' = Active /\ Committers' = Committers
  BY Zenon, <1>1 DEF Active, Committers
<1>6. HeadersOK'
  BY <1>3, LogAssumption DEF IInv, HeadersOK, Distinct
<1>7. CountInv' /\ CommitsAlone' /\ SleepersAwaited'
  BY Zenon, <1>1, <1>5 DEF IInv, CountInv, CommitsAlone, SleepersAwaited
<1>8. BufInv' /\ CleanMatchesDisk'
  BY Zenon, <1>1 DEF IInv, BufInv, CleanMatchesDisk
<1>9. CommitInv' /\ EmptyInv' /\ LoggedInv'
  BY Zenon, <1>1, <1>2, <1>3 DEF CommitInv, EmptyInv, LoggedInv
<1>10. BootInv'
  <2>1. dirty = {} /\ Len(head) \in Nat
    BY <1>1 DEF IInv, BootInv, TypeOK
  <2> QED
    BY <1>1, <1>2, <1>3, <2>1 DEF BootInv
<1> QED
  BY Zenon, <1>4, <1>6, <1>7, <1>8, <1>9, <1>10 DEF IInv

\* install_trans() during recovery.
LEMMA RecoverInstallStep ==
  ASSUME IInv, LogFits, recover_install
  PROVE  IInv'
<1> DEFINE b == lh[tail + 1]
<1>1. boot = "install" /\ tail < Len(lh) /\ tail' = tail + 1
  BY Zenon DEF recover_install, Install
<1>2. tail \in Nat /\ Len(lh) \in Nat /\ lh \in Seq(Blocks)
  BY DEF IInv, TypeOK
<1>3. tail + 1 \in Slots /\ tail + 1 \in 1 .. Len(lh) /\ b \in Blocks
  BY <1>1, <1>2, LogAssumption DEF LogFits, Slots
<1>4. /\ disk' = [disk EXCEPT ![b] = logdata[tail + 1]]
      /\ cache' = [cache EXCEPT ![b] = logdata[tail + 1]]
      /\ dirty' = dirty \ {b}
      /\ UNCHANGED <<logdata, head, lh, outstanding, committing, pc, buf, wrote, boot>>
  BY Zenon, <1>3 DEF recover_install, Install, ReadSlot, opvars
<1>5. /\ \A p \in Procs : pc[p] = "idle"
      /\ cache = disk /\ dirty = {} /\ ~committing /\ lh = head
      /\ \A i \in 1 .. tail : disk[lh[i]] = logdata[i]
  BY Zenon, <1>1 DEF IInv, BootInv
<1>6. logdata[tail + 1] \in Values
  BY Zenon, <1>3 DEF IInv, TypeOK
<1>7. TypeOK'
  BY <1>1, <1>2, <1>3, <1>4, <1>6 DEF IInv, TypeOK
<1>8. HeadersOK' /\ BufInv' /\ CountInv' /\ CommitsAlone' /\ SleepersAwaited'
  <2>1. HeadersOK' /\ BufInv'
    BY Zenon, <1>4 DEF IInv, HeadersOK, Distinct, BufInv
  <2>2. CountInv'
    BY Zenon, <1>4 DEF IInv, CountInv, Active, Committers
  <2>3. CommitsAlone' /\ SleepersAwaited'
    BY Zenon, <1>4 DEF IInv, CommitsAlone, SleepersAwaited, Active, Committers
  <2> QED
    BY Zenon, <2>1, <2>2, <2>3
<1>9. CommitInv' /\ EmptyInv' /\ LoggedInv'
  BY Zenon, <1>1, <1>4 DEF CommitInv, EmptyInv, LoggedInv
<1>10. cache' = disk'
  BY Zenon, <1>4, <1>5
<1>11. CleanMatchesDisk'
  BY Zenon, <1>10 DEF CleanMatchesDisk
<1>12. BootInv'
  <2>1. disk'[b] = logdata[tail + 1] /\ \A a \in Blocks : a # b => disk'[a] = disk[a]
    BY Zenon, <1>3, <1>4 DEF IInv, TypeOK
  <2>2. \A i \in 1 .. tail : lh[i] \in Blocks /\ lh[i] # b
    BY <1>1, <1>2, <1>3 DEF IInv, HeadersOK, Distinct
  <2>3. \A i \in 1 .. tail : disk'[lh[i]] = logdata[i]
    BY Zenon, <1>5, <2>1, <2>2
  <2>4. \A i \in 1 .. (tail + 1) : disk'[lh[i]] = logdata[i]
    BY <1>2, <2>1, <2>3
  <2> QED
    BY <1>1, <1>2, <1>4, <1>5, <1>10, <2>4 DEF BootInv
<1> QED
  BY Zenon, <1>7, <1>8, <1>9, <1>11, <1>12 DEF IInv

\* Every step keeps the invariant while the transaction fits the log area.
LEMMA NextIInv ==
  ASSUME IInv, LogFits, [Next]_vars
  PROVE  IInv'
<1>1. CASE UNCHANGED vars
  <2>1. UNCHANGED <<disk, logdata, head, cache, dirty, lh, outstanding, committing, pc, buf,
                   wrote, tail, boot>>
    BY Zenon, <1>1 DEF vars, diskvars, cachevars, opvars
  <2>2. TypeOK'
    BY Zenon, <2>1 DEF IInv, TypeOK
  <2>3. HeadersOK' /\ BufInv' /\ CountInv'
    BY Zenon, <2>1 DEF IInv, HeadersOK, Distinct, BufInv, CountInv, Active
  <2>4. BootInv' /\ CommitInv'
    BY Zenon, <2>1 DEF IInv, BootInv, CommitInv
  <2>5. EmptyInv' /\ LoggedInv' /\ CleanMatchesDisk'
    BY Zenon, <2>1 DEF IInv, EmptyInv, LoggedInv, CleanMatchesDisk, Active, Entries
  <2>6. CommitsAlone' /\ SleepersAwaited'
    BY Zenon, <2>1 DEF IInv, CommitsAlone, SleepersAwaited, Active, Committers
  <2> QED
    BY Zenon, <2>2, <2>3, <2>4, <2>5, <2>6 DEF IInv
<1>2. CASE \E p \in Procs : begin_op(p) \/ log_append(p) \/ end_op(p)
  BY Zenon, <1>2, BeginStep, AppendStep, EndStep
<1>3. CASE \E p \in Procs, b \in Blocks, v \in Values : log_write(p, b, v)
  BY Zenon, <1>3, WriteStep
<1>4. CASE \E p \in Procs : write_log(p) \/ write_head(p) \/ install_trans(p)
  BY Zenon, <1>4, WriteLogStep, WriteHeadStep, InstallStep
<1>5. CASE \E p \in Procs : erase(p) \/ commit_done(p)
  BY Zenon, <1>5, EraseStep, DoneStep
<1>6. CASE Crash \/ recover_read \/ recover_clear \/ recover_install
  BY Zenon, <1>6, CrashStep, RecoverStep, RecoverInstallStep
<1> QED
  BY Zenon, <1>1, <1>2, <1>3, <1>4, <1>5, <1>6 DEF Next
-----------------------------------------------------------------------------
(* The log implements AtomicDisk.                                          *)

\* What survives a crash depends only on the disk.
LEMMA DurableSame ==
  ASSUME disk' = disk, logdata' = logdata, head' = head
  PROVE  Durable' = Durable
BY DEF Durable, SlotOf, Entries

\* Without a header on disk, the home blocks are what survives.
LEMMA DurableEmpty ==
  ASSUME disk \in [Blocks -> Values], head = <<>>
  PROVE  Durable = disk
BY DEF Durable, Entries

\* With one, the log blocks are what survives of the blocks it names.
LEMMA DurableLogged ==
  ASSUME HeadersOK, head \in Seq(Blocks), NEW k \in 1 .. Len(head)
  PROVE  head[k] \in Blocks /\ Durable[head[k]] = logdata[k]
<1>1. head[k] \in Blocks /\ head[k] \in Entries(head)
  BY DEF Entries
<1>2. SlotOf(head[k]) = k
  BY Zenon DEF SlotOf, HeadersOK, Distinct
<1>3. k \in Slots
  BY LogAssumption DEF HeadersOK, Slots
<1> QED
  BY Zenon, <1>1, <1>2, <1>3 DEF Durable

\* A step that leaves the header and the log alone, and the home blocks that
\* the header does not name, changes nothing that survives.
LEMMA DurableKept ==
  ASSUME head' = head, logdata' = logdata, HeadersOK, head \in Seq(Blocks),
         \A b \in Blocks : b \notin Entries(head) => disk'[b] = disk[b]
  PROVE  Durable' = Durable
<1>1. \A b \in Blocks : b \in Entries(head) => SlotOf(b) \in Slots
  <2> SUFFICES ASSUME NEW b \in Blocks, b \in Entries(head) PROVE SlotOf(b) \in Slots
    OBVIOUS
  <2>1. SlotOf(b) \in 1 .. Len(head)
    BY Zenon DEF SlotOf, Entries
  <2> QED
    <3>1. Len(head) <= SIZE - 1 /\ Len(head) \in Nat
      BY DEF HeadersOK
    <3> QED
      BY <2>1, <3>1, LogAssumption DEF Slots
<1>2. Entries(head)' = Entries(head) /\ \A b : SlotOf(b)' = SlotOf(b)
  BY Zenon DEF SlotOf, Entries
<1>3. \A b \in Blocks : Durable'[b] = Durable[b]
  BY Zenon, <1>1, <1>2 DEF Durable
<1> QED
  BY Zenon, <1>3 DEF Durable

\* The first state.
LEMMA InitAtomic == Init => Atomic!Init
<1> SUFFICES ASSUME Init PROVE Atomic!Init
  OBVIOUS
<1>1. Durable = disk
  BY Zenon, DurableEmpty DEF Init
<1>2. Active = {}
  BY Zenon DEF Init, Active
<1> QED
  BY Zenon, <1>1, <1>2 DEF Init, Atomic!Init, Current

\* Calls: Begin, Write, End, or nothing.
LEMMA CallAtomic ==
  ASSUME IInv, NEW p \in Procs,
         \/ begin_op(p) \/ log_append(p) \/ end_op(p)
         \/ \E b \in Blocks, v \in Values : log_write(p, b, v)
  PROVE  [Atomic!Next]_<<Durable, Current, Active>>
<1>1. UNCHANGED <<disk, logdata, head, boot>> /\ boot = "up"
  BY Zenon DEF IInv, BootInv, begin_op, log_append, end_op, log_write, diskvars
<1>2. Durable' = Durable
  BY Zenon, <1>1, DurableSame
<1>3. Current = cache /\ Current' = cache'
  BY Zenon, <1>1 DEF Current
<1>4. CASE begin_op(p)
  <2>1. cache' = cache /\ (Active' = Active \/ Active' = Active \cup {p})
    BY Zenon, <1>4 DEF begin_op, cachevars, Goto, Active, IInv, TypeOK
  <2> QED
    BY Zenon, <1>2, <1>3, <2>1 DEF Atomic!Next, Atomic!Begin
<1>5. CASE log_append(p)
  <2>1. cache' = cache /\ Active' = Active
    BY Zenon, <1>5 DEF log_append, Goto, Active, IInv, TypeOK
  <2> QED
    BY Zenon, <1>2, <1>3, <2>1
<1>6. CASE end_op(p)
  <2>1. cache' = cache /\ ~committing
    BY Zenon, <1>6 DEF end_op, cachevars, IInv, CommitsAlone, Active
  <2>2. Active' = Active \ {p}
    <3>1. CASE outstanding = 1
      BY Zenon, <1>6, <2>1, <3>1 DEF end_op, Goto, Active, IInv, TypeOK
    <3>2. CASE outstanding # 1
      <4>1. /\ pc'[p] = "idle"
            /\ \A q \in Procs \ {p} : pc'[q] = IF pc[q] = "sleep" THEN "woken" ELSE pc[q]
        BY Zenon, <1>6, <2>1, <3>2 DEF end_op, Awake, IInv, TypeOK
      <4> QED
        BY Zenon, <4>1 DEF Active
    <3> QED
      BY Zenon, <3>1, <3>2
  <2> QED
    BY Zenon, <1>2, <1>3, <2>1, <2>2 DEF Atomic!Next, Atomic!End
<1>7. CASE \E b \in Blocks, v \in Values : log_write(p, b, v)
  <2>1. PICK b \in Blocks, v \in Values : log_write(p, b, v)
    BY Zenon, <1>7
  <2>2. cache' = [cache EXCEPT ![b] = v] /\ Active' = Active /\ p \in Active
    BY <2>1 DEF log_write, Goto, Active, IInv, TypeOK
  <2>3. Atomic!Write(p, b, v)
    BY Zenon, <1>2, <1>3, <2>2 DEF Atomic!Write
  <2> QED
    BY Zenon, <2>3 DEF Atomic!Next
<1> QED
  BY Zenon, <1>4, <1>5, <1>6, <1>7
\* write_head() is Commit: with no call active the log blocks, and the home
\* blocks outside the transaction, hold what the calls wrote.
LEMMA WriteHeadAtomic ==
  ASSUME IInv, IInv', LogFits, NEW p \in Procs, write_head(p)
  PROVE  Atomic!Commit
<1>1. pc[p] = "write_log" /\ tail = Len(lh) /\ head' = lh /\ lh' = lh /\ boot' = boot
      /\ UNCHANGED <<disk, logdata, cache>>
  BY Zenon DEF write_head, LogWritten, cachevars
<1>2. boot = "up" /\ committing /\ Active = {}
  BY Zenon, <1>1 DEF IInv, BootInv, CommitsAlone, Committers
<1>3. \A i \in 1 .. Len(lh) : logdata[i] = cache[lh[i]]
  BY Zenon, <1>1, <1>2 DEF IInv, CommitInv
<1>4. \A b \in Blocks : b \notin Entries(lh) => disk[b] = cache[b]
  <2>1. \A q \in Procs : buf[q] = NOBUF
    BY Zenon, <1>2 DEF IInv, BufInv, Active
  <2> QED
    BY <1>2, <2>1, LogAssumption DEF IInv, LoggedInv
<1>5. \A b \in Blocks : Durable'[b] = cache[b]
  <2> SUFFICES ASSUME NEW b \in Blocks PROVE Durable'[b] = cache[b]
    OBVIOUS
  <2>1. CASE b \notin Entries(lh)
    BY Zenon, <1>1, <1>4, <2>1 DEF Durable, Entries
  <2>2. CASE b \in Entries(lh)
    <3>1. PICK k \in 1 .. Len(lh) : lh[k] = b
      BY Zenon, <2>2 DEF Entries
    <3>2. HeadersOK' /\ head' \in Seq(Blocks) /\ k \in 1 .. Len(head')
      BY Zenon, <1>1 DEF IInv, TypeOK
    <3>3. Durable'[head'[k]] = logdata'[k]
      <4>1. (Len(head) \in Nat)'
        BY <3>2
      <4>2. SlotOf(b)' = k
        BY Zenon, <3>1, <3>2, <1>1 DEF SlotOf, HeadersOK, Distinct
      <4>3. k \in Slots /\ (b \in Entries(head))'
        BY <1>1, <3>1, <3>2, LogAssumption DEF HeadersOK, Slots, Entries
      <4> QED
        BY Zenon, <4>2, <4>3, <3>1, <1>1 DEF Durable
    <3> QED
      BY Zenon, <1>1, <1>3, <3>1, <3>3
  <2> QED
    BY Zenon, <2>1, <2>2
<1>6. Durable' = cache
  BY Zenon, <1>5 DEF Durable, IInv, TypeOK
<1>7. Active' = {}
  BY Zenon, <1>2 DEF write_head, Goto, Active, IInv, TypeOK
<1> QED
  BY Zenon, <1>1, <1>2, <1>6, <1>7 DEF Atomic!Commit, Current

\* The other steps of a commit change nothing that anybody can see.
LEMMA CommitAtomic ==
  ASSUME IInv, LogFits, NEW p \in Procs,
         write_log(p) \/ install_trans(p) \/ erase(p) \/ commit_done(p)
  PROVE  UNCHANGED <<Durable, Current, Active>>
<1>1. pc[p] \in {"write_log", "install", "done"} /\ boot' = boot
  BY Zenon DEF write_log, install_trans, Install, erase, commit_done
<1>2. boot = "up" /\ committing /\ \A q \in Committers : q = p
  BY Zenon, <1>1 DEF IInv, BootInv, CommitsAlone, Committers
<1>3. Current = cache /\ Current' = cache'
  BY Zenon, <1>1, <1>2 DEF Current
<1>4. tail \in Nat /\ Len(lh) \in Nat /\ lh \in Seq(Blocks) /\ head \in Seq(Blocks)
      /\ disk \in [Blocks -> Values] /\ cache \in [Blocks -> Values] /\ HeadersOK
  BY DEF IInv, TypeOK
<1>5. CASE write_log(p)
  <2>1. tail + 1 \in Slots
    <3>1. tail < Len(lh)
      BY Zenon, <1>5 DEF write_log
    <3> QED
      BY <1>4, <3>1, LogAssumption DEF LogFits, Slots
  <2>2. UNCHANGED <<disk, cache, head, pc>> /\ pc[p] = "write_log"
    BY Zenon, <1>5, <2>1 DEF write_log, cachevars
  <2>3. head = <<>>
    BY Zenon, <1>2, <2>2 DEF IInv, EmptyInv, Committers
  <2>4. Durable' = Durable
    <3>1. Durable = disk
      BY Zenon, <1>4, <2>3, DurableEmpty
    <3>2. Durable' = disk'
      BY <1>4, <2>2, <2>3 DEF Durable, Entries
    <3> QED
      BY Zenon, <2>2, <3>1, <3>2
  <2> QED
    BY Zenon, <1>3, <2>2, <2>4 DEF Active
<1>6. CASE install_trans(p)
  <2> DEFINE b == lh[tail + 1]
  <2>1. tail + 1 \in Slots /\ tail + 1 \in 1 .. Len(lh) /\ b \in Blocks /\ pc[p] = "install"
    <3>1. tail < Len(lh) /\ pc[p] = "install"
      BY Zenon, <1>6 DEF install_trans, Install
    <3> QED
      BY <1>4, <3>1, LogAssumption DEF LogFits, Slots
  <2>2. head = lh /\ logdata[tail + 1] = cache[b]
    BY ZenonT(30), <1>2, <2>1 DEF IInv, CommitInv
  <2>3. /\ disk' = [disk EXCEPT ![b] = cache[b]]
        /\ cache' = [cache EXCEPT ![b] = cache[b]]
        /\ UNCHANGED <<logdata, head, pc>>
    BY Zenon, <1>6, <2>1, <2>2 DEF install_trans, Install, ReadSlot
  <2>4. b \in Entries(head)
    BY Zenon, <2>1, <2>2 DEF Entries
  <2>5. Durable' = Durable
    BY Zenon, <1>4, <2>3, <2>4, DurableKept
  <2> QED
    BY Zenon, <1>3, <1>4, <2>3, <2>5 DEF Active
<1>7. CASE erase(p)
  <2>1. /\ pc[p] = "install" /\ tail = Len(lh) /\ head' = <<>>
        /\ UNCHANGED <<disk, logdata, cache>>
    BY Zenon, <1>7 DEF erase, cachevars
  <2>2. /\ head = lh
        /\ \A i \in 1 .. Len(lh) : logdata[i] = cache[lh[i]]
        /\ \A i \in 1 .. Len(lh) : disk[lh[i]] = cache[lh[i]]
    BY Zenon, <1>2, <2>1 DEF IInv, CommitInv
  <2>3. \A b \in Blocks : Durable[b] = disk[b]
    <3> SUFFICES ASSUME NEW b \in Blocks, b \in Entries(head) PROVE Durable[b] = disk[b]
      BY Zenon DEF Durable
    <3>1. PICK k \in 1 .. Len(head) : head[k] = b
      BY Zenon DEF Entries
    <3>2. Durable[head[k]] = logdata[k]
      BY Zenon, <1>4, DurableLogged
    <3> QED
      BY Zenon, <2>2, <3>1, <3>2
  <2>4. Durable = disk
    BY Zenon, <1>4, <2>3 DEF Durable
  <2>5. Durable' = disk'
    BY <1>4, <2>1 DEF Durable, Entries
  <2>6. Active' = Active
    BY Zenon, <1>7 DEF erase, Goto, Active, IInv, TypeOK
  <2> QED
    BY Zenon, <1>3, <2>1, <2>4, <2>5, <2>6
<1>8. CASE commit_done(p)
  <2>1. UNCHANGED <<disk, logdata, head, cache>> /\ pc[p] = "done"
    <3>1. pc[p] = "done" /\ UNCHANGED diskvars /\ UNCHANGED cachevars
      BY Zenon, <1>8 DEF commit_done
    <3> QED
      BY Zenon, <3>1 DEF diskvars, cachevars
  <2>2. Durable' = Durable
    BY Zenon, <2>1, DurableSame
  <2>3. \A q \in Procs : pc'[q] = IF q = p THEN "idle"
                                  ELSE IF pc[q] = "sleep" THEN "woken" ELSE pc[q]
    BY Zenon, <1>8 DEF commit_done, Awake, IInv, TypeOK
  <2>4. Active' = Active
    BY Zenon, <2>1, <2>3 DEF Active
  <2> QED
    BY Zenon, <1>3, <2>1, <2>2, <2>4
<1> QED
  BY Zenon, <1>5, <1>6, <1>7, <1>8
\* A crash is Crash; recovery then changes nothing that survives.
LEMMA BootAtomic ==
  ASSUME IInv, LogFits, Crash \/ recover_read \/ recover_install \/ recover_clear
  PROVE  [Atomic!Next]_<<Durable, Current, Active>>
<1>1. tail \in Nat /\ Len(lh) \in Nat /\ lh \in Seq(Blocks) /\ head \in Seq(Blocks)
      /\ disk \in [Blocks -> Values] /\ cache \in [Blocks -> Values] /\ HeadersOK
  BY DEF IInv, TypeOK
<1>2. CASE Crash
  <2>1. Durable' = Durable
    <3>1. UNCHANGED <<disk, logdata, head>>
      BY Zenon, <1>2 DEF Crash, diskvars
    <3> QED
      BY Zenon, <3>1, DurableSame
  <2>2. Current' = Durable' /\ Active' = {}
    BY Zenon, <1>2 DEF Crash, Current, Active
  <2> QED
    BY Zenon, <2>1, <2>2 DEF Atomic!Next, Atomic!Crash
<1>3. CASE recover_read
  <2>1. UNCHANGED <<disk, logdata, head, pc>> /\ boot = "read" /\ boot' = "install"
    BY Zenon, <1>3 DEF recover_read, diskvars
  <2>2. Durable' = Durable
    BY Zenon, <2>1, DurableSame
  <2> QED
    BY Zenon, <2>1, <2>2 DEF Current, Active
<1>4. CASE recover_install
  <2> DEFINE b == lh[tail + 1]
  <2>1. /\ boot = "install" /\ boot' = boot /\ tail + 1 \in 1 .. Len(lh)
        /\ UNCHANGED <<logdata, head, pc>>
        /\ disk' = [disk EXCEPT ![b] = ReadSlot(tail + 1)]
    BY <1>1, <1>4 DEF recover_install, Install
  <2>2. lh = head
    BY Zenon, <2>1 DEF IInv, BootInv
  <2>3. b \in Entries(head)
    BY Zenon, <2>1, <2>2 DEF Entries
  <2>4. Durable' = Durable
    BY Zenon, <1>1, <2>1, <2>3, DurableKept
  <2> QED
    BY Zenon, <2>1, <2>4 DEF Current, Active
<1>5. CASE recover_clear
  <2>1. /\ boot = "install" /\ boot' = "up" /\ tail = Len(lh) /\ head' = <<>>
        /\ UNCHANGED <<disk, cache, pc>>
    BY Zenon, <1>5 DEF recover_clear, Recovered, cachevars
  <2>2. lh = head /\ cache = disk /\ \A i \in 1 .. Len(head) : disk[head[i]] = logdata[i]
    BY Zenon, <2>1 DEF IInv, BootInv
  <2>3. \A b \in Blocks : Durable[b] = disk[b]
    <3> SUFFICES ASSUME NEW b \in Blocks, b \in Entries(head) PROVE Durable[b] = disk[b]
      BY Zenon DEF Durable
    <3>1. PICK k \in 1 .. Len(head) : head[k] = b
      BY Zenon DEF Entries
    <3>2. Durable[head[k]] = logdata[k]
      BY Zenon, <1>1, DurableLogged
    <3> QED
      BY Zenon, <2>2, <3>1, <3>2
  <2>4. Durable = disk
    BY Zenon, <1>1, <2>3 DEF Durable
  <2>5. Durable' = disk'
    BY <1>1, <2>1 DEF Durable, Entries
  <2> QED
    BY Zenon, <2>1, <2>2, <2>4, <2>5 DEF Current, Active
<1> QED
  BY Zenon, <1>2, <1>3, <1>4, <1>5

\* Every step of the log is a step of AtomicDisk or a stutter.
LEMMA NextAtomic ==
  ASSUME IInv, IInv', LogFits, [Next]_vars
  PROVE  [Atomic!Next]_<<Durable, Current, Active>>
<1>1. CASE \E p \in Procs : \/ begin_op(p) \/ log_append(p) \/ end_op(p)
                            \/ \E b \in Blocks, v \in Values : log_write(p, b, v)
  BY Zenon, <1>1, CallAtomic
<1>2. CASE \E p \in Procs : write_head(p)
  BY Zenon, <1>2, WriteHeadAtomic DEF Atomic!Next
<1>3. CASE \E p \in Procs : write_log(p) \/ install_trans(p) \/ erase(p) \/ commit_done(p)
  BY Zenon, <1>3, CommitAtomic
<1>4. CASE Crash \/ recover_read \/ recover_install \/ recover_clear
  BY Zenon, <1>4, BootAtomic
<1>5. CASE UNCHANGED vars
  <2>1. UNCHANGED <<disk, logdata, head, cache, pc, boot>>
    BY Zenon, <1>5 DEF vars, diskvars, cachevars, opvars
  <2>2. Durable' = Durable
    BY Zenon, <2>1, DurableSame
  <2> QED
    BY Zenon, <2>1, <2>2 DEF Current, Active
<1> QED
  BY Zenon, <1>1, <1>2, <1>3, <1>4, <1>5 DEF Next

-----------------------------------------------------------------------------
(* Theorems.                                                               *)

\* For every number of processes, blocks and values, and every size of the log:
\* while the transaction fits the log area, the actions of log.c keep headers,
\* counters, buffers and the progress of commit and recovery consistent.
THEOREM LogInvariance == Spec /\ []LogFits => []IInv
<1>1. Init => IInv
  BY Zenon, InitIInv
<1>2. IInv /\ LogFits /\ [Next]_vars => IInv'
  BY Zenon, NextIInv
<1> QED
  BY <1>1, <1>2, PTL DEF Spec

\* A clean, unlocked buffer can be recycled: bget() loses no update that
\* log_write() made.
THEOREM CleanBuffers == Spec /\ []LogFits => []CleanMatchesDisk
<1>1. IInv => CleanMatchesDisk
  BY Zenon DEF IInv
<1> QED
  BY <1>1, LogInvariance, PTL

\* end_op() commits with no file system call active and never twice at once.
THEOREM LoneCommit == Spec /\ []LogFits => []CommitsAlone
<1>1. IInv => CommitsAlone
  BY Zenon DEF IInv
<1> QED
  BY <1>1, LogInvariance, PTL

\* begin_op() never puts the last running process to sleep.
THEOREM NoSleeperForgotten == Spec /\ []LogFits => []SleepersAwaited
<1>1. IInv => SleepersAwaited
  BY Zenon DEF IInv
<1> QED
  BY <1>1, LogInvariance, PTL

\* The log makes file system calls atomic over crashes: whatever the crashes,
\* the blocks after recovery are those of a moment between calls, and later
\* transactions survive only with the earlier ones.
THEOREM CrashAtomicity == Spec /\ []LogFits => CrashAtomic
<1>1. Init => Atomic!Init
  BY Zenon, InitAtomic
<1>2. IInv /\ IInv' /\ LogFits /\ [Next]_vars => [Atomic!Next]_<<Durable, Current, Active>>
  BY Zenon, NextAtomic
<1> QED
  BY <1>1, <1>2, LogInvariance, PTL DEF Spec, CrashAtomic, Atomic!Spec
=============================================================================
