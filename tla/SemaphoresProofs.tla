-------------------------- MODULE SemaphoresProofs --------------------------
(***************************************************************************)
(* The counts of the semaphores cover every descriptor, no sleeper is      *)
(* forgotten and semcreate() finds a free semaphore whenever semget() asks *)
(* it to: for any processes and any sizes of the tables.                   *)
(***************************************************************************)
EXTENDS Semaphores, FiniteSetTheorems, TLAPS

-----------------------------------------------------------------------------
(* The inductive invariant.                                                *)

\* semcopy() fills the descriptors of an embryo that no other fork() fills.
CopyInv ==
  /\ \A p \in Procs : pc[p] = "copy" =>
       /\ child[p] \in Procs /\ pc[child[p]] = "embryo"
       /\ \A i \in Descs :
            semids[child[p]][i] = IF i < next[p] THEN semids[p][i] ELSE -1
  /\ \A p, q \in Procs : pc[p] = "copy" /\ pc[q] = "copy" /\ child[p] = child[q] => p = q

UsedDescs(p) == {i \in Descs : semids[p][i] # -1}

\* semcount is the number of descriptors in use.
CountInv ==
  \A p \in Procs : pc[p] \notin {"unused", "embryo"} =>
    semcount[p] = Cardinality(UsedDescs(p))

\* A process in semdown() or semup() has a descriptor of the semaphore.
KeyInv ==
  \A p \in Procs : pc[p] \in {"sleep", "woken", "up"} =>
    key[p] \in Sems /\ DescsOf(p, key[p]) # {}

InUse == {s \in Sems : references[s] # 0}

\* sems.used is counted twice for a new semaphore, so it stays above the number
\* of those in use.
UsedInv == (used = 0 /\ InUse = {}) \/ used > Cardinality(InUse)

IInv == AttachedCounted /\ CopyInv /\ CountInv /\ KeyInv /\ UsedInv /\ NoLostWakeup

-----------------------------------------------------------------------------
(* Finite sets and the first of a table.                                   *)

\* The least element of a nonempty set of naturals is in it (the first entry
\* that a scan of a kernel table finds).
LEMMA MinIn ==
  ASSUME NEW S \in SUBSET Nat, S # {}
  PROVE  Min(S) \in S
<1> DEFINE R == {ss \in Nat \X Nat : ss[1] < ss[2]}
<1>1. IsWellFoundedOn(R, Nat)
  BY NatLessThanWellFounded DEF OpToRel
<1>2. PICK x \in S : \A y \in S : ~(<<y, x>> \in R)
  <2> HIDE DEF R
  <2> QED BY Zenon, <1>1, WFMin
<1>3. \A y \in S : x =< y
  <2> SUFFICES ASSUME NEW y \in S PROVE x =< y
    OBVIOUS
  <2>1. ~(<<y, x>> \in R)
    BY <1>2
  <2>2. ~(y < x)
    BY <2>1
  <2> QED BY <2>2
<1> QED
  BY Zenon, <1>3 DEF Min

\* The size of a finite set is a natural number, zero for the empty set only.
LEMMA CardNat ==
  ASSUME NEW S, IsFiniteSet(S)
  PROVE  Cardinality(S) \in Nat /\ (Cardinality(S) = 0 <=> S = {})
BY FS_CardinalityType, FS_EmptySet

\* The empty set is finite and has no element.
LEMMA CardEmpty == IsFiniteSet({}) /\ Cardinality({}) = 0
BY FS_EmptySet

\* A subset is not larger.
LEMMA CardSub ==
  ASSUME NEW S, IsFiniteSet(S), NEW T, T \subseteq S
  PROVE  /\ IsFiniteSet(T) /\ Cardinality(T) \in Nat /\ Cardinality(S) \in Nat
         /\ Cardinality(T) <= Cardinality(S)
         /\ Cardinality(T) = Cardinality(S) => T = S
BY FS_Subset, FS_CardinalityType

\* One reference more is counted once.
LEMMA CardAdd ==
  ASSUME NEW S, IsFiniteSet(S), NEW d, d \notin S
  PROVE  /\ IsFiniteSet(S \cup {d})
         /\ Cardinality(S) \in Nat /\ Cardinality(S \cup {d}) = Cardinality(S) + 1
<1>1. /\ IsFiniteSet(S \cup {d})
      /\ Cardinality(S \cup {d}) = IF d \in S THEN Cardinality(S) ELSE Cardinality(S) + 1
  BY FS_AddElement
<1> QED BY <1>1, FS_CardinalityType

\* One reference less is counted once.
LEMMA CardRemove ==
  ASSUME NEW S, IsFiniteSet(S), NEW d \in S
  PROVE  /\ IsFiniteSet(S \ {d})
         /\ Cardinality(S) \in Nat \ {0} /\ Cardinality(S \ {d}) = Cardinality(S) - 1
<1>1. Cardinality(S) \in Nat /\ Cardinality(S) # 0
  BY FS_CardinalityType, FS_EmptySet
<1>2. /\ IsFiniteSet(S \ {d})
      /\ Cardinality(S \ {d}) = IF d \in S THEN Cardinality(S) - 1 ELSE Cardinality(S)
  BY Zenon, FS_RemoveElement
<1> QED BY <1>1, <1>2

\* At most one element more.
LEMMA CardGrow ==
  ASSUME NEW S, IsFiniteSet(S), NEW d, NEW T, T \subseteq S \cup {d}
  PROVE  /\ IsFiniteSet(T) /\ Cardinality(T) \in Nat /\ Cardinality(S) \in Nat
         /\ Cardinality(T) <= Cardinality(S) + 1
<1>1. /\ IsFiniteSet(S \cup {d}) /\ Cardinality(S) \in Nat
      /\ Cardinality(S \cup {d}) <= Cardinality(S) + 1
  <2>1. Cardinality(S) \in Nat
    BY FS_CardinalityType
  <2>2. /\ IsFiniteSet(S \cup {d})
        /\ Cardinality(S \cup {d}) = IF d \in S THEN Cardinality(S) ELSE Cardinality(S) + 1
    BY Zenon, FS_AddElement
  <2> QED BY <2>1, <2>2
<1>2. IsFiniteSet(T) /\ Cardinality(T) <= Cardinality(S \cup {d})
  BY <1>1, FS_Subset
<1> QED BY <1>1, <1>2, FS_CardinalityType

\* At least one element less.
LEMMA CardShrink ==
  ASSUME NEW S, IsFiniteSet(S), NEW d \in S, NEW T, T \subseteq S \ {d}
  PROVE  /\ IsFiniteSet(T) /\ Cardinality(T) \in Nat /\ Cardinality(S) \in Nat
         /\ Cardinality(T) <= Cardinality(S) - 1
<1>1. /\ IsFiniteSet(S \ {d}) /\ Cardinality(S) \in Nat
      /\ Cardinality(S \ {d}) = Cardinality(S) - 1
  BY CardRemove
<1>2. /\ IsFiniteSet(T) /\ Cardinality(T) \in Nat
      /\ Cardinality(T) <= Cardinality(S \ {d})
  BY <1>1, CardSub
<1> QED BY <1>1, <1>2

\* The positions of a table of n entries.
LEMMA CardTable ==
  ASSUME NEW n \in Nat
  PROVE  IsFiniteSet(0 .. n - 1) /\ Cardinality(0 .. n - 1) = n
<1>1. IsFiniteSet(0 .. n - 1) /\ Cardinality(0 .. n - 1) = IF 0 > n - 1 THEN 0 ELSE (n - 1) - 0 + 1
  BY FS_Interval
<1> QED BY <1>1

\* The entries of the tables of finitely many processes are finitely many.
LEMMA PairsFinite ==
  ASSUME NEW S, NEW T, IsFiniteSet(S), IsFiniteSet(T)
  PROVE  IsFiniteSet(S \X T)
BY FS_Product

-----------------------------------------------------------------------------
(* The tables are finite and -1 is in none of them.                        *)

\* The descriptors and semaphores are numbers from 0 on, and there are so many.
LEMMA TableFacts ==
  /\ Descs \subseteq Nat /\ IsFiniteSet(Descs) /\ Cardinality(Descs) = PROCMAXSEM
  /\ Sems \subseteq Nat /\ IsFiniteSet(Sems) /\ Cardinality(Sems) = SYSMAXSEM
  /\ -1 \notin Sems /\ -1 \notin Descs
<1>1. PROCMAXSEM \in Nat /\ SYSMAXSEM \in Nat
  BY Zenon, SemAssumption
<1>2. IsFiniteSet(Descs) /\ Cardinality(Descs) = PROCMAXSEM
  BY Zenon, <1>1, CardTable DEF Descs
<1>3. IsFiniteSet(Sems) /\ Cardinality(Sems) = SYSMAXSEM
  BY Zenon, <1>1, CardTable DEF Sems
<1>4. Descs \subseteq Nat /\ Sems \subseteq Nat /\ -1 \notin Sems /\ -1 \notin Descs
  BY <1>1 DEF Descs, Sems
<1> QED BY Zenon, <1>2, <1>3, <1>4

\* The descriptors are finitely many.
LEMMA AttachmentsFinite ==
  ASSUME NEW s
  PROVE  IsFiniteSet(Attachments(s)) /\ Cardinality(Attachments(s)) \in Nat
<1>1. IsFiniteSet(Procs \X Descs)
  <2>1. IsFiniteSet(Procs) /\ IsFiniteSet(Descs)
    BY Zenon, TableFacts, SemAssumption
  <2> QED BY Zenon, <2>1, PairsFinite
<1>2. Attachments(s) \subseteq Procs \X Descs
  BY Zenon DEF Attachments, Alive
<1> QED BY Zenon, <1>1, <1>2, CardSub

\* semattach() and semdetach() find the first of the descriptors they look for.
LEMMA FirstDesc ==
  ASSUME NEW S, S \subseteq Descs, S # {}
  PROVE  Min(S) \in S
<1>1. S \in SUBSET Nat
  BY Zenon, TableFacts
<1> QED BY Zenon, <1>1, MinIn

\* Initially nothing is in use.
LEMMA InitIInv == Init => IInv
<1> SUFFICES ASSUME Init PROVE IInv
  OBVIOUS
<1>1. TypeOK
  BY TableFacts, SemAssumption DEF Init, TypeOK
<1>2. AttachedCounted
  <2>1. \A s \in Sems : Attachments(s) = {}
    BY Zenon, TableFacts DEF Attachments, Alive, Init
  <2>2. \A s \in Sems : Cardinality(Attachments(s)) = 0
    BY Zenon, <2>1, CardEmpty
  <2>3. \A s \in Sems : references[s] = 0
    BY Zenon DEF Init
  <2>4. \A s \in Sems : Cardinality(Attachments(s)) <= references[s]
    BY <2>2, <2>3
  <2> QED BY Zenon, <1>1, <2>4 DEF AttachedCounted
<1>3. CopyInv /\ KeyInv /\ NoLostWakeup
  BY Zenon DEF Init, CopyInv, KeyInv, NoLostWakeup
<1>4. CountInv
  <2>1. \A p \in Procs : UsedDescs(p) = {} /\ semcount[p] = 0
    BY Zenon DEF UsedDescs, Init
  <2> QED BY Zenon, <2>1, CardEmpty DEF CountInv
<1>5. UsedInv
  BY Zenon DEF Init, UsedInv, InUse
<1> QED BY Zenon, <1>2, <1>3, <1>4, <1>5 DEF IInv

-----------------------------------------------------------------------------
(* Steps within semdown() and semup() change no count and no descriptor.   *)

Within == {"run", "sleep", "woken", "up"}

\* Such a step keeps what is said of the descriptors and of the counts.
LEMMA QuietStep ==
  ASSUME IInv, TypeOK', UNCHANGED <<references, used, semids, semcount, child, next>>,
         \A q \in Procs : pc'[q] = pc[q] \/ (pc[q] \in Within /\ pc'[q] \in Within)
  PROVE  AttachedCounted' /\ CopyInv' /\ CountInv' /\ UsedInv'
<1>1. \A q \in Procs : pc'[q] # "unused" <=> pc[q] # "unused"
  BY Zenon DEF Within
<1>2. \A s \in Sems : Attachments(s)' = Attachments(s)
  BY Zenon, <1>1 DEF Attachments, Alive
<1>3. AttachedCounted'
  BY Zenon, <1>2 DEF AttachedCounted, IInv
<1>4. CopyInv'
  <2>1. \A q \in Procs : (pc'[q] = "copy" <=> pc[q] = "copy") /\ (pc'[q] = "embryo" <=> pc[q] = "embryo")
    BY Zenon DEF Within
  <2> QED BY <2>1 DEF CopyInv, IInv
<1>5. CountInv'
  <2>1. \A q \in Procs : pc'[q] \in {"unused", "embryo"} <=> pc[q] \in {"unused", "embryo"}
    BY Zenon DEF Within
  <2>2. \A q \in Procs : UsedDescs(q)' = UsedDescs(q)
    BY Zenon DEF UsedDescs
  <2> QED BY Zenon, <2>1, <2>2 DEF CountInv, IInv
<1>6. UsedInv'
  <2>1. InUse' = InUse
    BY Zenon DEF InUse
  <2> QED BY Zenon, <2>1 DEF UsedInv, IInv
<1> QED BY Zenon, <1>3, <1>4, <1>5, <1>6

\* Once round the loop of semdown(): a process that goes to sleep has seen 0.
LEMMA DownStep ==
  ASSUME IInv, NEW p \in Procs, NEW k \in Sems, pc[p] \in {"run", "woken"},
         DescsOf(p, k) # {}, Down(p, k)
  PROVE  IInv'
<1> USE DEF IInv, AttachedCounted
<1>0. UNCHANGED <<references, used, semids, semcount, child, next>>
  BY Zenon DEF Down, descs, forking
<1>1. TypeOK'
  <2>1. value' \in [Sems -> 0 .. MAXVALUE]
    BY SemAssumption DEF Down, TypeOK
  <2>2. pc' \in [Procs -> {"unused", "embryo", "run", "sleep", "woken", "up", "copy"}]
    BY Zenon DEF Down, TypeOK, Goto
  <2>3. key' \in [Procs -> Sems \cup {-1}]
    BY Zenon DEF Down, TypeOK
  <2> QED BY Zenon, <1>0, <2>1, <2>2, <2>3 DEF TypeOK
<1>2. \A q \in Procs \ {p} : pc'[q] = pc[q] /\ key'[q] = key[q]
  BY Zenon DEF Down, TypeOK, Goto
<1>3. \/ value[k] > 0 /\ value' = [value EXCEPT ![k] = @ - 1] /\ pc'[p] = "run"
      \/ ~(value[k] > 0) /\ value' = value /\ pc'[p] = "sleep" /\ key'[p] = k
  BY Zenon DEF Down, TypeOK, Goto
<1>4. AttachedCounted' /\ CopyInv' /\ CountInv' /\ UsedInv'
  <2>1. \A q \in Procs : pc'[q] = pc[q] \/ (pc[q] \in Within /\ pc'[q] \in Within)
    BY Zenon, <1>2, <1>3 DEF Within
  <2> QED BY Zenon, <1>0, <1>1, <2>1, QuietStep
<1>5. KeyInv'
  BY <1>0, <1>2, <1>3 DEF KeyInv, DescsOf
<1>6. NoLostWakeup'
  <2> SUFFICES ASSUME NEW s \in Sems, value'[s] > 0
               PROVE  \/ \A q \in Procs : ~(pc'[q] = "sleep" /\ key'[q] = s)
                      \/ \E q \in Procs : pc'[q] = "up" /\ key'[q] = s
    BY Zenon DEF NoLostWakeup
  <2>1. value[s] > 0 /\ ~(pc'[p] = "sleep" /\ key'[p] = s)
    BY Zenon, <1>3 DEF TypeOK
  <2>2. CASE \A q \in Procs : ~(pc[q] = "sleep" /\ key[q] = s)
    BY Zenon, <2>1, <2>2, <1>2
  <2>3. CASE \E q \in Procs : pc[q] = "up" /\ key[q] = s
    BY Zenon, <2>3, <1>2
  <2> QED BY Zenon, <2>1, <2>2, <2>3 DEF NoLostWakeup
<1> QED BY Zenon, <1>4, <1>5, <1>6

\* semup() that raises a semaphore from 0 has its wakeup() before it.
LEMMA UpStep ==
  ASSUME IInv, NEW p \in Procs, NEW k \in Sems, semup(p, k)
  PROVE  IInv'
<1> USE DEF IInv, AttachedCounted
<1>0. UNCHANGED <<references, used, semids, semcount, child, next>>
  BY Zenon DEF semup, descs, forking
<1>1. TypeOK'
  <2>1. value' \in [Sems -> 0 .. MAXVALUE]
    BY SemAssumption DEF semup, TypeOK
  <2>2. pc' \in [Procs -> {"unused", "embryo", "run", "sleep", "woken", "up", "copy"}]
    BY Zenon DEF semup, TypeOK, Goto
  <2>3. key' \in [Procs -> Sems \cup {-1}]
    BY Zenon DEF semup, TypeOK
  <2> QED BY Zenon, <1>0, <2>1, <2>2, <2>3 DEF TypeOK
<1>2. \A q \in Procs \ {p} : pc'[q] = pc[q] /\ key'[q] = key[q]
  BY Zenon DEF semup, TypeOK, Goto
<1>3. /\ pc[p] = "run" /\ DescsOf(p, k) # {} /\ value' = [value EXCEPT ![k] = @ + 1]
      /\ \/ value[k] = 0 /\ pc'[p] = "up" /\ key'[p] = k
         \/ value[k] # 0 /\ pc'[p] = "run"
  BY Zenon DEF semup, Valid, MustWake, TypeOK, Goto
<1>4. AttachedCounted' /\ CopyInv' /\ CountInv' /\ UsedInv'
  <2>1. \A q \in Procs : pc'[q] = pc[q] \/ (pc[q] \in Within /\ pc'[q] \in Within)
    BY Zenon, <1>2, <1>3 DEF Within
  <2> QED BY Zenon, <1>0, <1>1, <2>1, QuietStep
<1>5. KeyInv'
  BY <1>0, <1>2, <1>3 DEF KeyInv, DescsOf
<1>6. NoLostWakeup'
  <2> SUFFICES ASSUME NEW s \in Sems, value'[s] > 0
               PROVE  \/ \A q \in Procs : ~(pc'[q] = "sleep" /\ key'[q] = s)
                      \/ \E q \in Procs : pc'[q] = "up" /\ key'[q] = s
    BY Zenon DEF NoLostWakeup
  <2>1. value[s] > 0 \/ (pc'[p] = "up" /\ key'[p] = s)
    BY <1>3 DEF TypeOK
  <2>2. CASE value[s] > 0 /\ \A q \in Procs : ~(pc[q] = "sleep" /\ key[q] = s)
    BY Zenon, <2>2, <1>2, <1>3
  <2>3. CASE \E q \in Procs : pc[q] = "up" /\ key[q] = s
    BY Zenon, <2>3, <1>2, <1>3
  <2> QED BY Zenon, <2>1, <2>2, <2>3 DEF NoLostWakeup
<1> QED BY Zenon, <1>4, <1>5, <1>6

\* wakeup() at the end of semup() leaves nobody asleep on the semaphore.
LEMMA WakeupStep ==
  ASSUME IInv, NEW p \in Procs, wakeup(p)
  PROVE  IInv'
<1> USE DEF IInv, AttachedCounted
<1>1. TypeOK' /\ UNCHANGED <<value, references, used, semids, semcount, child, next>>
  BY Zenon DEF wakeup, TypeOK, sems, descs, forking
<1>2. /\ pc[p] = "up" /\ pc'[p] = "run"
      /\ \A q \in Procs \ {p} :
           /\ key'[q] = key[q]
           /\ pc'[q] = IF pc[q] = "sleep" /\ key[q] = key[p] THEN "woken" ELSE pc[q]
  BY Zenon DEF wakeup, TypeOK
<1>4. AttachedCounted' /\ CopyInv' /\ CountInv' /\ UsedInv'
  <2>1. \A q \in Procs : pc'[q] = pc[q] \/ (pc[q] \in Within /\ pc'[q] \in Within)
    BY Zenon, <1>2 DEF Within
  <2> QED BY Zenon, <1>1, <2>1, QuietStep
<1>5. KeyInv'
  BY <1>1, <1>2 DEF KeyInv, DescsOf
<1>6. NoLostWakeup'
  <2> SUFFICES ASSUME NEW s \in Sems, value'[s] > 0
               PROVE  \/ \A q \in Procs : ~(pc'[q] = "sleep" /\ key'[q] = s)
                      \/ \E q \in Procs : pc'[q] = "up" /\ key'[q] = s
    BY Zenon DEF NoLostWakeup
  <2>1. CASE s = key[p]
    BY Zenon, <2>1, <1>2
  <2>2. CASE s # key[p] /\ \A q \in Procs : ~(pc[q] = "sleep" /\ key[q] = s)
    BY Zenon, <2>2, <1>2
  <2>3. CASE s # key[p] /\ \E q \in Procs : pc[q] = "up" /\ key[q] = s
    BY Zenon, <2>3, <1>2
  <2> QED BY Zenon, <1>1, <2>1, <2>2, <2>3 DEF NoLostWakeup
<1> QED BY Zenon, <1>4, <1>5, <1>6

\* A killed sleeper is woken and looks at the value again.
LEMMA KillStep ==
  ASSUME IInv, NEW p \in Procs, kill(p)
  PROVE  IInv'
<1> USE DEF IInv, AttachedCounted
<1>1. TypeOK' /\ UNCHANGED <<value, references, used, semids, semcount, key, child, next>>
  BY Zenon DEF kill, TypeOK, Goto, sems, descs, forking
<1>2. pc[p] = "sleep" /\ pc'[p] = "woken" /\ \A q \in Procs \ {p} : pc'[q] = pc[q]
  BY Zenon DEF kill, TypeOK, Goto
<1>3. AttachedCounted' /\ CopyInv' /\ CountInv' /\ UsedInv'
  <2>1. \A q \in Procs : pc'[q] = pc[q] \/ (pc[q] \in Within /\ pc'[q] \in Within)
    BY Zenon, <1>2 DEF Within
  <2> QED BY Zenon, <1>1, <2>1, QuietStep
<1>4. KeyInv'
  BY Zenon, <1>1, <1>2 DEF KeyInv, DescsOf
<1>5. NoLostWakeup'
  BY <1>1, <1>2 DEF NoLostWakeup
<1> QED BY Zenon, <1>3, <1>4, <1>5

-----------------------------------------------------------------------------
(* semget() and semfree().                                                 *)

\* A process that runs attaches a semaphore that is counted once more.
LEMMA AttachStep ==
  ASSUME IInv, NEW p \in Procs, pc[p] = "run", NEW s \in Sems, semattach(p, s),
         references' = [references EXCEPT ![s] = references[s] + 1],
         value' \in [Sems -> 0 .. MAXVALUE], used' \in Int,
         UNCHANGED <<pc, key, child, next>>
  PROVE  AttachedCounted' /\ CopyInv' /\ CountInv' /\ KeyInv'
<1> DEFINE i == Min(FreeDescs(p))
<1> USE DEF IInv, AttachedCounted
<1>0. references' \in [Sems -> Nat]
  BY DEF TypeOK
<1>1. CASE FreeDescs(p) = {}
  <2>1. UNCHANGED <<semids, semcount>>
    BY Zenon, <1>1 DEF semattach, descs
  <2>2. \A t \in Sems : Attachments(t)' = Attachments(t)
    BY Zenon, <2>1 DEF Attachments, Alive
  <2>3. \A q \in Procs : UsedDescs(q)' = UsedDescs(q)
    BY Zenon, <2>1 DEF UsedDescs
  <2>4. TypeOK'
    BY Zenon, <1>0, <2>1 DEF TypeOK
  <2>5. \A t \in Sems : Cardinality(Attachments(t)') <= references'[t]
    <3> SUFFICES ASSUME NEW t \in Sems PROVE Cardinality(Attachments(t)) <= references'[t]
      BY Zenon, <2>2
    <3>1. Cardinality(Attachments(t)) \in Nat
      BY Zenon, AttachmentsFinite
    <3> QED BY <3>1 DEF TypeOK
  <2> QED BY <2>1, <2>3, <2>4, <2>5 DEF CopyInv, CountInv, KeyInv, DescsOf
<1>2. CASE FreeDescs(p) # {}
  <2>1. i \in FreeDescs(p)
    BY Zenon, <1>2, FirstDesc DEF FreeDescs
  <2>2. /\ semids' = [semids EXCEPT ![p][i] = s]
        /\ semcount' = [semcount EXCEPT ![p] = @ + 1]
    BY Zenon, <1>2 DEF semattach
  <2> HIDE DEF i
  <2>3. i \in Descs /\ semids[p][i] = -1
    BY Zenon, <2>1 DEF FreeDescs
  <2>4. semids' \in [Procs -> [Descs -> Sems \cup {-1}]]
    BY Zenon, <2>2, <2>3 DEF TypeOK
  <2>5. \A q \in Procs : q # p => semids'[q] = semids[q] /\ semcount'[q] = semcount[q]
    BY Zenon, <2>2 DEF TypeOK
  <2>6. \A j \in Descs : semids'[p][j] = IF j = i THEN s ELSE semids[p][j]
    BY Zenon, <2>2, <2>3 DEF TypeOK
  <2>7. CountInv' /\ semcount'[p] \in 0 .. PROCMAXSEM
    <3>1. UsedDescs(p)' = UsedDescs(p) \cup {i} /\ i \notin UsedDescs(p)
      BY Zenon, <2>3, <2>6, TableFacts DEF UsedDescs
    <3>2. UsedDescs(p) \cup {i} \subseteq Descs
      BY Zenon, <2>3 DEF UsedDescs
    <3>3. /\ Cardinality(UsedDescs(p) \cup {i}) \in Nat
          /\ Cardinality(UsedDescs(p) \cup {i}) <= PROCMAXSEM
      BY Zenon, <3>2, TableFacts, CardSub
    <3>4. Cardinality(UsedDescs(p) \cup {i}) = Cardinality(UsedDescs(p)) + 1
      <4>1. UsedDescs(p) \subseteq Descs
        BY Zenon DEF UsedDescs
      <4>2. IsFiniteSet(UsedDescs(p))
        BY Zenon, <4>1, TableFacts, CardSub
      <4> QED BY Zenon, <3>1, <4>2, CardAdd
    <3>5. semcount'[p] = Cardinality(UsedDescs(p)')
      BY Zenon, <2>2, <3>1, <3>4 DEF TypeOK, CountInv
    <3>6. \A q \in Procs : q # p => UsedDescs(q)' = UsedDescs(q)
      BY Zenon, <2>5 DEF UsedDescs
    <3>7. CountInv'
      BY Zenon, <2>5, <3>5, <3>6 DEF CountInv
    <3> QED BY <3>1, <3>3, <3>5, <3>7, SemAssumption
  <2>8. TypeOK'
    <3>1. semcount' \in [Procs -> 0 .. PROCMAXSEM]
      BY Zenon, <2>2, <2>5, <2>7 DEF TypeOK
    <3> QED BY Zenon, <1>0, <2>4, <3>1 DEF TypeOK
  <2>9. \A t \in Sems : Cardinality(Attachments(t)') <= references'[t]
    <3> SUFFICES ASSUME NEW t \in Sems PROVE Cardinality(Attachments(t)') <= references'[t]
      OBVIOUS
    <3>1. IsFiniteSet(Attachments(t)) /\ Cardinality(Attachments(t)) <= references[t]
      BY Zenon, AttachmentsFinite
    <3>2. CASE t = s
      <4>1. Attachments(t)' \subseteq Attachments(t) \cup {<<p, i>>}
        BY <2>5, <2>6 DEF Attachments, Alive
      <4>2. /\ Cardinality(Attachments(t)') <= Cardinality(Attachments(t)) + 1
            /\ Cardinality(Attachments(t)') \in Nat /\ Cardinality(Attachments(t)) \in Nat
        BY Zenon, <3>1, <4>1, CardGrow
      <4> QED BY <3>1, <3>2, <4>2 DEF TypeOK
    <3>3. CASE t # s
      <4>1. Attachments(t)' \subseteq Attachments(t)
        BY <2>5, <2>6, <3>3 DEF Attachments, Alive
      <4>2. /\ Cardinality(Attachments(t)') <= Cardinality(Attachments(t))
            /\ Cardinality(Attachments(t)') \in Nat /\ Cardinality(Attachments(t)) \in Nat
        BY Zenon, <3>1, <4>1, CardSub
      <4> QED BY <3>1, <3>3, <4>2 DEF TypeOK
    <3> QED BY Zenon, <3>2, <3>3
  <2>10. CopyInv'
    BY <2>5 DEF CopyInv
  <2>11. KeyInv'
    BY <2>5 DEF KeyInv, DescsOf
  <2> QED BY Zenon, <2>7, <2>8, <2>9, <2>10, <2>11
<1> QED BY Zenon, <1>1, <1>2

\* While sems.used lets semget() go on there is a free semaphore.
LEMMA UsedBelow ==
  ASSUME IInv
  PROVE  CreateSucceeds
<1> SUFFICES ASSUME used <= SYSMAXSEM, FreeSems = {} PROVE FALSE
  BY Zenon DEF CreateSucceeds
<1>1. InUse = Sems
  BY Zenon DEF InUse, FreeSems, isfree
<1>2. Cardinality(InUse) = SYSMAXSEM
  BY Zenon, <1>1, TableFacts
<1>3. 0 \in InUse
  BY <1>1, SemAssumption DEF Sems
<1> QED BY <1>2, <1>3, SemAssumption DEF IInv, UsedInv, AttachedCounted, TypeOK

\* Nobody sleeps on a semaphore without references.
LEMMA FreeHasNoUser ==
  ASSUME IInv, NEW s \in Sems, isfree(s)
  PROVE  \A q \in Procs : pc[q] \in {"sleep", "woken", "up"} => key[q] # s
<1> SUFFICES ASSUME NEW q \in Procs, pc[q] \in {"sleep", "woken", "up"}, key[q] = s
             PROVE  FALSE
  OBVIOUS
<1>1. PICK i \in Descs : semids[q][i] = s
  BY Zenon DEF IInv, KeyInv, DescsOf
<1>2. <<q, i>> \in Attachments(s)
  BY Zenon, <1>1 DEF Attachments, Alive
<1>3. Cardinality(Attachments(s)) \in Nat /\ Cardinality(Attachments(s)) # 0
  BY Zenon, <1>2, AttachmentsFinite, CardNat
<1> QED BY <1>3 DEF IInv, AttachedCounted, isfree

\* semget(): a new semaphore, a reference to one in use, or an error.
LEMMA GetStep ==
  ASSUME IInv, NEW p \in Procs, NEW k \in Sems \cup {-1}, NEW v \in 0 .. MAXVALUE,
         semget(p, k, v)
  PROVE  IInv' \/ UNCHANGED vars
<1> USE DEF IInv, AttachedCounted
<1>1. pc[p] = "run" /\ UNCHANGED <<pc, key, child, next>>
  BY Zenon DEF semget, forking
<1>2. CASE UNCHANGED <<sems, descs>>
  BY Zenon, <1>1, <1>2 DEF sems, descs, vars
<1>3. CASE /\ SemgetValid(p, k) /\ k = -1
           /\ value' = [value EXCEPT ![semcreate] = v]
           /\ references' = [references EXCEPT ![semcreate] = 1]
           /\ used' = Used(semcreate)
           /\ semattach(p, semcreate)
  <2> DEFINE s == semcreate
  <2>1. s \in Sems /\ isfree(s)
    <3>1. FreeSems # {}
      BY Zenon, <1>3, UsedBelow DEF SemgetValid, CreateSucceeds
    <3>2. FreeSems \in SUBSET Nat
      BY Zenon, TableFacts DEF FreeSems
    <3>3. semcreate \in FreeSems
      BY Zenon, <3>1, <3>2, MinIn DEF semcreate
    <3> QED BY Zenon, <3>3 DEF FreeSems
  <2>2. /\ value' = [value EXCEPT ![s] = v] /\ used' = used + 2 /\ semattach(p, s)
        /\ references' = [references EXCEPT ![s] = references[s] + 1]
    BY <1>3, <2>1, TableFacts DEF Used, isfree
  <2> HIDE DEF s
  <2>3. value' \in [Sems -> 0 .. MAXVALUE] /\ used' \in Int
    BY <2>1, <2>2 DEF TypeOK
  <2>4. AttachedCounted' /\ CopyInv' /\ CountInv' /\ KeyInv'
    BY Zenon, <1>1, <2>1, <2>2, <2>3, AttachStep
  <2>5. UsedInv'
    <3>1. InUse' \subseteq InUse \cup {s} /\ InUse \subseteq Sems
      BY Zenon, <2>2 DEF InUse, TypeOK
    <3>2. IsFiniteSet(InUse)
      BY Zenon, <3>1, TableFacts, CardSub
    <3>3. /\ Cardinality(InUse') <= Cardinality(InUse) + 1
          /\ Cardinality(InUse') \in Nat /\ Cardinality(InUse) \in Nat
      BY Zenon, <3>1, <3>2, CardGrow
    <3>4. used >= Cardinality(InUse)
      <4>1. InUse = {} => Cardinality(InUse) = 0
        BY Zenon, CardEmpty
      <4>2. used \in Int /\ UsedInv
        BY Zenon DEF TypeOK
      <4> QED BY <3>3, <4>1, <4>2 DEF UsedInv
    <3> QED BY <2>2, <3>3, <3>4 DEF UsedInv, TypeOK
  <2>6. NoLostWakeup'
    <3> SUFFICES ASSUME NEW t \in Sems, value'[t] > 0
                 PROVE  \/ \A q \in Procs : ~(pc'[q] = "sleep" /\ key'[q] = t)
                        \/ \E q \in Procs : pc'[q] = "up" /\ key'[q] = t
      BY Zenon DEF NoLostWakeup
    <3>1. CASE t = s
      BY Zenon, <1>1, <2>1, <3>1, FreeHasNoUser
    <3>2. CASE t # s
      BY Zenon, <1>1, <2>2, <3>2 DEF NoLostWakeup, TypeOK
    <3> QED BY Zenon, <3>1, <3>2
  <2> QED BY Zenon, <2>4, <2>5, <2>6
<1>4. CASE /\ SemgetValid(p, k) /\ k \in Sems
           /\ references' = [references EXCEPT ![k] = @ + 1]
           /\ semattach(p, k)
           /\ UNCHANGED <<value, used>>
  <2>1. AttachedCounted' /\ CopyInv' /\ CountInv' /\ KeyInv'
    BY Zenon, <1>1, <1>4, AttachStep DEF TypeOK
  <2>2. UsedInv'
    <3>1. InUse' = InUse
      BY <1>4 DEF InUse, SemgetValid, isfree, TypeOK
    <3> QED BY Zenon, <1>4, <3>1 DEF UsedInv
  <2>3. NoLostWakeup'
    BY Zenon, <1>1, <1>4 DEF NoLostWakeup
  <2> QED BY Zenon, <2>1, <2>2, <2>3
<1> QED BY Zenon, <1>2, <1>3, <1>4 DEF semget

\* semfree() gives up one descriptor and its reference.
LEMMA FreeStep ==
  ASSUME IInv, NEW p \in Procs, NEW k \in Sems, semfree(p, k)
  PROVE  IInv'
<1> DEFINE i == Min(DescsOf(p, k))
<1> USE DEF IInv, AttachedCounted
<1>1. /\ pc[p] = "run" /\ references[k] # 0 /\ UNCHANGED <<value, pc, key, child, next>>
      /\ references' = [references EXCEPT ![k] = @ - 1]
      /\ used' = IF references[k] = 1 THEN used - 1 ELSE used
  BY Zenon DEF semfree, Valid, isfree, forking
<1>2. i \in Descs /\ semids[p][i] = k
  <2>1. DescsOf(p, k) \subseteq Descs /\ DescsOf(p, k) # {}
    BY Zenon DEF semfree, Valid, DescsOf
  <2>2. i \in DescsOf(p, k)
    BY Zenon, <2>1, FirstDesc
  <2> QED BY Zenon, <2>2 DEF DescsOf
<1>3. /\ semids' = [semids EXCEPT ![p][i] = -1]
      /\ semcount' = [semcount EXCEPT ![p] = @ - 1]
  BY Zenon DEF semfree, semdetach
<1> HIDE DEF i
<1>4. \A q \in Procs : q # p => semids'[q] = semids[q] /\ semcount'[q] = semcount[q]
  BY Zenon, <1>3 DEF TypeOK
<1>5. \A j \in Descs : semids'[p][j] = IF j = i THEN -1 ELSE semids[p][j]
  BY Zenon, <1>2, <1>3 DEF TypeOK
<1>6. CountInv' /\ semcount'[p] \in 0 .. PROCMAXSEM
  <2>1. UsedDescs(p)' = UsedDescs(p) \ {i} /\ i \in UsedDescs(p) /\ UsedDescs(p) \subseteq Descs
    BY Zenon, <1>2, <1>5, TableFacts DEF UsedDescs
  <2>2. IsFiniteSet(UsedDescs(p))
    BY Zenon, <2>1, TableFacts, CardSub
  <2>3. /\ Cardinality(UsedDescs(p)) \in Nat \ {0}
        /\ Cardinality(UsedDescs(p) \ {i}) = Cardinality(UsedDescs(p)) - 1
    BY Zenon, <2>1, <2>2, CardRemove
  <2>4. semcount'[p] = Cardinality(UsedDescs(p)') /\ semcount'[p] \in 0 .. PROCMAXSEM
    <3>1. semcount[p] = Cardinality(UsedDescs(p)) /\ semcount[p] \in 0 .. PROCMAXSEM
      BY Zenon, <1>1 DEF TypeOK, CountInv
    <3>2. semcount'[p] = semcount[p] - 1
      BY Zenon, <1>3 DEF TypeOK
    <3> QED BY <2>1, <2>3, <3>1, <3>2, SemAssumption
  <2>5. \A q \in Procs : q # p => UsedDescs(q)' = UsedDescs(q)
    BY Zenon, <1>4 DEF UsedDescs
  <2> QED BY Zenon, <1>1, <1>4, <2>4, <2>5 DEF CountInv
<1>7. TypeOK'
  <2>1. semids' \in [Procs -> [Descs -> Sems \cup {-1}]]
    BY Zenon, <1>2, <1>3 DEF TypeOK
  <2>2. semcount' \in [Procs -> 0 .. PROCMAXSEM]
    BY Zenon, <1>3, <1>4, <1>6 DEF TypeOK
  <2>3. references' \in [Sems -> Nat]
    <3>1. references[k] - 1 \in Nat
      BY <1>1 DEF TypeOK
    <3> QED BY Zenon, <1>1, <3>1 DEF TypeOK
  <2>4. used' \in Int
    BY <1>1 DEF TypeOK
  <2> QED BY Zenon, <1>1, <2>1, <2>2, <2>3, <2>4 DEF TypeOK
<1>8. \A t \in Sems : Cardinality(Attachments(t)') <= references'[t]
  <2> SUFFICES ASSUME NEW t \in Sems PROVE Cardinality(Attachments(t)') <= references'[t]
    OBVIOUS
  <2>0. t # -1 /\ Alive' = Alive
    BY Zenon, <1>1, TableFacts DEF Alive
  <2>1. IsFiniteSet(Attachments(t)) /\ Cardinality(Attachments(t)) <= references[t]
    BY Zenon, AttachmentsFinite
  <2>2. CASE t = k
    <3>1. Attachments(t)' \subseteq Attachments(t) \ {<<p, i>>} /\ <<p, i>> \in Attachments(t)
      <4>1. <<p, i>> \in Attachments(t)
        BY Zenon, <1>1, <1>2, <2>2 DEF Attachments, Alive
      <4>2. Attachments(t)' \subseteq Attachments(t)
        BY <1>4, <1>5, <2>0 DEF Attachments, Alive
      <4>3. <<p, i>> \notin Attachments(t)'
        BY Zenon, <1>2, <1>5, <2>0 DEF Attachments
      <4> QED BY Zenon, <4>1, <4>2, <4>3
    <3>2. /\ Cardinality(Attachments(t)') <= Cardinality(Attachments(t)) - 1
          /\ Cardinality(Attachments(t)') \in Nat /\ Cardinality(Attachments(t)) \in Nat
      BY Zenon, <2>1, <3>1, CardShrink
    <3> QED BY <1>1, <2>1, <2>2, <3>2 DEF TypeOK
  <2>3. CASE t # k
    <3>1. Attachments(t)' \subseteq Attachments(t)
      BY <1>4, <1>5, <2>0 DEF Attachments, Alive
    <3>2. /\ Cardinality(Attachments(t)') <= Cardinality(Attachments(t))
          /\ Cardinality(Attachments(t)') \in Nat /\ Cardinality(Attachments(t)) \in Nat
      BY Zenon, <2>1, <3>1, CardSub
    <3> QED BY <1>1, <2>1, <2>3, <3>2 DEF TypeOK
  <2> QED BY Zenon, <2>2, <2>3
<1>9. CopyInv'
  BY <1>1, <1>4 DEF CopyInv
<1>10. KeyInv'
  BY <1>1, <1>4 DEF KeyInv, DescsOf
<1>11. UsedInv'
  <2>1. IsFiniteSet(InUse) /\ k \in InUse
    <3>1. InUse \subseteq Sems /\ k \in InUse
      BY Zenon, <1>1 DEF InUse
    <3> QED BY Zenon, <3>1, TableFacts, CardSub
  <2>2. CASE references[k] = 1
    <3>1. InUse' = InUse \ {k}
      BY <1>1, <2>2 DEF InUse, TypeOK
    <3>2. /\ Cardinality(InUse') = Cardinality(InUse) - 1
          /\ Cardinality(InUse) \in Nat \ {0}
      BY Zenon, <2>1, <3>1, CardRemove
    <3> QED BY <1>1, <2>1, <2>2, <3>2 DEF UsedInv, TypeOK
  <2>3. CASE references[k] # 1
    <3>1. InUse' = InUse
      BY <1>1, <2>3 DEF InUse, TypeOK
    <3> QED BY Zenon, <1>1, <2>3, <3>1 DEF UsedInv
  <2> QED BY Zenon, <2>2, <2>3
<1>12. NoLostWakeup'
  BY Zenon, <1>1 DEF NoLostWakeup
<1> QED BY Zenon, <1>6, <1>7, <1>8, <1>9, <1>10, <1>11, <1>12

-----------------------------------------------------------------------------
(* fork() and exit().                                                      *)

\* allocproc() takes a slot that is no part of any other fork().
LEMMA ForkStep ==
  ASSUME IInv, NEW p \in Procs, NEW c \in Procs, fork(p, c)
  PROVE  IInv'
<1> USE DEF IInv, AttachedCounted
<1>1. /\ pc[p] = "run" /\ pc[c] = "unused" /\ p # c
      /\ UNCHANGED <<value, references, used, key>>
  BY Zenon DEF fork, sems
<1>2. TypeOK'
  <2>1. semids' \in [Procs -> [Descs -> Sems \cup {-1}]]
    BY Zenon DEF fork, TypeOK
  <2>2. semcount' \in [Procs -> 0 .. PROCMAXSEM] /\ next' \in [Procs -> 0 .. PROCMAXSEM]
    BY SemAssumption DEF fork, TypeOK
  <2>3. /\ pc' \in [Procs -> {"unused", "embryo", "run", "sleep", "woken", "up", "copy"}]
        /\ child' \in [Procs -> Procs \cup {NOPROC}]
    BY Zenon DEF fork, TypeOK
  <2> QED BY Zenon, <1>1, <2>1, <2>2, <2>3 DEF TypeOK
<1>3. /\ pc'[p] = "copy" /\ pc'[c] = "embryo" /\ child'[p] = c /\ next'[p] = 0
      /\ \A q \in Procs : q \notin {p, c} => pc'[q] = pc[q]
      /\ \A q \in Procs \ {p} : child'[q] = child[q] /\ next'[q] = next[q]
  BY Zenon, <1>1 DEF fork, TypeOK
<1>4. /\ \A i \in Descs : semids'[c][i] = -1
      /\ \A q \in Procs \ {c} : semids'[q] = semids[q] /\ semcount'[q] = semcount[q]
  BY Zenon DEF fork, TypeOK
<1>5. AttachedCounted'
  <2> SUFFICES ASSUME NEW t \in Sems PROVE Cardinality(Attachments(t)') <= references'[t]
    BY Zenon, <1>2
  <2>1. IsFiniteSet(Attachments(t)) /\ Cardinality(Attachments(t)) <= references[t]
    BY Zenon, AttachmentsFinite
  <2>2. t # -1
    BY Zenon, TableFacts
  <2>3. Attachments(t)' \subseteq Attachments(t)
    BY <1>1, <1>3, <1>4, <2>2 DEF Attachments, Alive
  <2>4. /\ Cardinality(Attachments(t)') <= Cardinality(Attachments(t))
        /\ Cardinality(Attachments(t)') \in Nat /\ Cardinality(Attachments(t)) \in Nat
    BY Zenon, <2>1, <2>3, CardSub
  <2> QED BY <1>1, <2>1, <2>4 DEF TypeOK
<1>6. CopyInv'
  <2>1. \A q \in Procs : q # p /\ pc'[q] = "copy" => pc[q] = "copy" /\ child[q] # c /\ child[q] # p
    BY Zenon, <1>1, <1>3 DEF CopyInv
  <2>2. \A i \in Descs : ~(i < 0)
    BY TableFacts
  <2>3. \A q \in Procs : q # p /\ pc'[q] = "copy" =>
          /\ child'[q] \in Procs /\ pc'[child'[q]] = "embryo"
          /\ \A i \in Descs :
               semids'[child'[q]][i] = IF i < next'[q] THEN semids'[q][i] ELSE -1
    BY <1>1, <1>3, <1>4, <2>1 DEF CopyInv
  <2>4. /\ child'[p] \in Procs /\ pc'[child'[p]] = "embryo"
        /\ \A i \in Descs :
             semids'[child'[p]][i] = IF i < next'[p] THEN semids'[p][i] ELSE -1
    BY Zenon, <1>3, <1>4, <2>2
  <2>5. \A q, r \in Procs : pc'[q] = "copy" /\ pc'[r] = "copy" /\ child'[q] = child'[r] => q = r
    BY <1>3, <2>1 DEF CopyInv
  <2> QED BY <2>3, <2>4, <2>5 DEF CopyInv
<1>7. CountInv'
  <2>1. \A q \in Procs \ {c} : UsedDescs(q)' = UsedDescs(q)
    BY Zenon, <1>4 DEF UsedDescs
  <2> QED BY <1>1, <1>3, <1>4, <2>1 DEF CountInv
<1>8. KeyInv'
  BY <1>1, <1>3, <1>4 DEF KeyInv, DescsOf
<1>9. UsedInv'
  BY Zenon, <1>1 DEF UsedInv, InUse
<1>10. NoLostWakeup'
  BY <1>1, <1>3 DEF NoLostWakeup
<1> QED BY Zenon, <1>5, <1>6, <1>7, <1>8, <1>9, <1>10

\* An iteration of semcopy() counts the descriptor that it gives the child.
LEMMA CopyOne ==
  ASSUME IInv, NEW p \in Procs, pc[p] = "copy", next[p] < PROCMAXSEM,
         semids' = [semids EXCEPT ![child[p]][next[p]] = semids[p][next[p]]],
         references' = Copied(semids[p][next[p]]),
         next' = [next EXCEPT ![p] = @ + 1],
         UNCHANGED <<semcount, pc, child, value, used, key>>
  PROVE  IInv'
<1> DEFINE n == next[p]
           c == child[p]
           s == semids[p][n]
<1> USE DEF IInv, AttachedCounted
<1>1. n \in Descs /\ c \in Procs /\ c # p /\ pc[c] = "embryo" /\ s \in Sems \cup {-1}
  BY SemAssumption DEF TypeOK, CopyInv, Descs
<1>2. /\ \A q \in Procs \ {c} : semids'[q] = semids[q]
      /\ \A i \in Descs : semids'[c][i] = IF i = n THEN s ELSE semids[c][i]
  BY Zenon, <1>1 DEF TypeOK
<1>3. /\ next'[p] = n + 1 /\ \A q \in Procs \ {p} : next'[q] = next[q]
      /\ references' = [references EXCEPT ![s] = @ + 1]
  BY Zenon DEF TypeOK, Copied
<1>4. /\ references' \in [Sems -> Nat]
      /\ \A t \in Sems : references'[t] = IF t = s THEN references[t] + 1 ELSE references[t]
  <2>1. references \in [Sems -> Nat]
    BY Zenon DEF TypeOK
  <2>2. references' = [t \in Sems |-> IF t = s THEN references[t] + 1 ELSE references[t]]
    BY Zenon, <1>3, <2>1
  <2> QED BY <2>1, <2>2
<1>5. TypeOK'
  <2>1. semids' \in [Procs -> [Descs -> Sems \cup {-1}]]
    BY Zenon, <1>1 DEF TypeOK
  <2>2. next' \in [Procs -> 0 .. PROCMAXSEM]
    BY <1>1, SemAssumption DEF TypeOK, Descs
  <2> QED BY Zenon, <1>4, <2>1, <2>2 DEF TypeOK
<1>6. \A i \in Descs : semids[c][i] = IF i < n THEN semids[p][i] ELSE -1
  BY Zenon DEF CopyInv
<1> HIDE DEF n, c, s
<1>7. AttachedCounted'
  <2> SUFFICES ASSUME NEW t \in Sems PROVE Cardinality(Attachments(t)') <= references'[t]
    BY Zenon, <1>5
  <2>1. IsFiniteSet(Attachments(t)) /\ Cardinality(Attachments(t)) <= references[t]
    BY Zenon, AttachmentsFinite
  <2>2. Alive' = Alive
    BY Zenon DEF Alive
  <2>3. CASE t = s
    <3>1. Attachments(t)' \subseteq Attachments(t) \cup {<<c, n>>}
      BY <1>1, <1>2, <2>2 DEF Attachments, Alive
    <3>2. /\ Cardinality(Attachments(t)') <= Cardinality(Attachments(t)) + 1
          /\ Cardinality(Attachments(t)') \in Nat /\ Cardinality(Attachments(t)) \in Nat
      BY Zenon, <2>1, <3>1, CardGrow
    <3> QED BY <1>4, <2>1, <2>3, <3>2 DEF TypeOK
  <2>4. CASE t # s
    <3>1. Attachments(t)' \subseteq Attachments(t)
      BY Zenon, <1>1, <1>2, <2>2, <2>4 DEF Attachments, Alive
    <3>2. /\ Cardinality(Attachments(t)') <= Cardinality(Attachments(t))
          /\ Cardinality(Attachments(t)') \in Nat /\ Cardinality(Attachments(t)) \in Nat
      BY Zenon, <2>1, <3>1, CardSub
    <3> QED BY <1>4, <2>1, <2>4, <3>2 DEF TypeOK
  <2> QED BY Zenon, <2>3, <2>4
<1>8. CopyInv'
  <2>1. \A q \in Procs : q # p /\ pc[q] = "copy" => child[q] # c /\ q # c
    BY Zenon, <1>1 DEF CopyInv, c
  <2>2. \A i \in Descs : semids'[c][i] = IF i < n + 1 THEN semids'[p][i] ELSE -1
    BY <1>1, <1>2, <1>6, TableFacts DEF s
  <2>3. \A q \in Procs : q # p /\ pc'[q] = "copy" =>
          /\ child'[q] \in Procs /\ pc'[child'[q]] = "embryo"
          /\ \A i \in Descs :
               semids'[child'[q]][i] = IF i < next'[q] THEN semids'[q][i] ELSE -1
    BY <1>2, <1>3, <2>1 DEF CopyInv
  <2>4. /\ child'[p] \in Procs /\ pc'[child'[p]] = "embryo"
        /\ \A i \in Descs :
             semids'[child'[p]][i] = IF i < next'[p] THEN semids'[p][i] ELSE -1
    BY <1>1, <1>3, <2>2 DEF c
  <2>5. \A q, r \in Procs : pc'[q] = "copy" /\ pc'[r] = "copy" /\ child'[q] = child'[r] => q = r
    BY Zenon DEF CopyInv
  <2> QED BY <2>3, <2>4, <2>5 DEF CopyInv
<1>9. CountInv'
  <2>1. \A q \in Procs \ {c} : UsedDescs(q)' = UsedDescs(q)
    BY Zenon, <1>2 DEF UsedDescs
  <2> QED BY Zenon, <1>1, <2>1 DEF CountInv
<1>10. KeyInv'
  BY <1>1, <1>2 DEF KeyInv, DescsOf
<1>11. UsedInv'
  <2>1. s \in Sems => references[s] # 0
    <3> SUFFICES ASSUME s \in Sems PROVE references[s] # 0
      OBVIOUS
    <3>1. <<p, n>> \in Attachments(s)
      BY Zenon, <1>1 DEF Attachments, Alive, s
    <3>2. Cardinality(Attachments(s)) \in Nat /\ Cardinality(Attachments(s)) # 0
      BY Zenon, <3>1, AttachmentsFinite, CardNat
    <3> QED BY <3>2 DEF TypeOK
  <2>2. InUse' = InUse
    BY <1>4, <2>1 DEF InUse, TypeOK
  <2> QED BY Zenon, <2>2 DEF UsedInv
<1>12. NoLostWakeup'
  BY Zenon DEF NoLostWakeup
<1> QED BY Zenon, <1>7, <1>8, <1>9, <1>10, <1>11, <1>12

\* After the last iteration the child has its parent's descriptors, and runs.
LEMMA CopyDone ==
  ASSUME IInv, NEW p \in Procs, pc[p] = "copy", next[p] = PROCMAXSEM,
         semcount' = [semcount EXCEPT ![child[p]] = semcount[p]],
         pc' = [pc EXCEPT ![p] = "run", ![child[p]] = "run"],
         child' = [child EXCEPT ![p] = NOPROC],
         next' = [next EXCEPT ![p] = 0],
         UNCHANGED <<semids, references, value, used, key>>
  PROVE  IInv'
<1> DEFINE c == child[p]
<1> USE DEF IInv, AttachedCounted
<1>1. c \in Procs /\ c # p /\ pc[c] = "embryo"
  BY Zenon DEF CopyInv
<1>2. \A i \in Descs : semids[c][i] = semids[p][i]
  BY SemAssumption DEF CopyInv, Descs
<1>3. /\ pc'[p] = "run" /\ pc'[c] = "run" /\ semcount'[c] = semcount[p]
      /\ \A q \in Procs : q \notin {p, c} => pc'[q] = pc[q]
      /\ \A q \in Procs \ {c} : semcount'[q] = semcount[q]
      /\ \A q \in Procs \ {p} : child'[q] = child[q] /\ next'[q] = next[q]
  BY Zenon, <1>1 DEF TypeOK
<1>4. TypeOK'
  <2>1. semcount' \in [Procs -> 0 .. PROCMAXSEM]
    BY Zenon DEF TypeOK
  <2>3. next' \in [Procs -> 0 .. PROCMAXSEM]
    <3>1. 0 \in 0 .. PROCMAXSEM
      BY SemAssumption
    <3> QED BY Zenon, <3>1 DEF TypeOK
  <2>2. /\ pc' \in [Procs -> {"unused", "embryo", "run", "sleep", "woken", "up", "copy"}]
        /\ child' \in [Procs -> Procs \cup {NOPROC}]
    BY Zenon DEF TypeOK
  <2> QED BY <2>1, <2>2 DEF TypeOK
<1>5. AttachedCounted'
  <2>1. Alive' = Alive
    BY Zenon, <1>1, <1>3 DEF Alive
  <2>2. \A t \in Sems : Attachments(t)' = Attachments(t)
    BY Zenon, <2>1 DEF Attachments
  <2> QED BY Zenon, <1>4, <2>2
<1>6. CopyInv'
  <2>1. \A q \in Procs : pc'[q] = "copy" => q # p /\ q # c /\ pc[q] = "copy" /\ child[q] \notin {p, c}
    BY <1>1, <1>3 DEF CopyInv
  <2> HIDE DEF c
  <2>2. \A q \in Procs : pc'[q] = "copy" => child'[q] = child[q] /\ next'[q] = next[q]
    BY Zenon, <1>3, <2>1
  <2>3. \A q \in Procs : pc'[q] = "copy" => child[q] \in Procs /\ pc'[child[q]] = "embryo"
    <3> SUFFICES ASSUME NEW q \in Procs, pc'[q] = "copy"
                 PROVE  child[q] \in Procs /\ pc'[child[q]] = "embryo"
      BY Zenon
    <3>1. child[q] \in Procs /\ pc[child[q]] = "embryo" /\ child[q] \notin {p, c}
      BY Zenon, <2>1 DEF CopyInv
    <3> QED BY Zenon, <1>3, <3>1
  <2>4. \A q \in Procs : pc'[q] = "copy" =>
          \A i \in Descs : semids[child[q]][i] = IF i < next[q] THEN semids[q][i] ELSE -1
    BY Zenon, <2>1 DEF CopyInv
  <2>5. \A q, r \in Procs : pc'[q] = "copy" /\ pc'[r] = "copy" /\ child[q] = child[r] => q = r
    BY Zenon, <2>1 DEF CopyInv
  <2>6. semids' = semids
    OBVIOUS
  <2>7. \A q \in Procs : pc'[q] = "copy" =>
          /\ child'[q] \in Procs /\ pc'[child'[q]] = "embryo"
          /\ \A i \in Descs :
               semids'[child'[q]][i] = IF i < next'[q] THEN semids'[q][i] ELSE -1
    <3> SUFFICES ASSUME NEW q \in Procs, pc'[q] = "copy"
                 PROVE  /\ child'[q] \in Procs /\ pc'[child'[q]] = "embryo"
                        /\ \A i \in Descs : semids'[child'[q]][i] =
                             IF i < next'[q] THEN semids'[q][i] ELSE -1
      BY Zenon
    <3>1. child'[q] = child[q] /\ next'[q] = next[q]
      BY Zenon, <2>2
    <3>2. /\ child[q] \in Procs /\ pc'[child[q]] = "embryo"
          /\ \A i \in Descs : semids[child[q]][i] = IF i < next[q] THEN semids[q][i] ELSE -1
      BY Zenon, <2>3, <2>4
    <3> QED BY Zenon, <2>6, <3>1, <3>2
  <2>8. \A q, r \in Procs : pc'[q] = "copy" /\ pc'[r] = "copy" /\ child'[q] = child'[r] => q = r
    BY Zenon, <2>2, <2>5
  <2> QED BY Zenon, <2>7, <2>8 DEF CopyInv
<1>7. CountInv'
  <2>1. UsedDescs(c) = UsedDescs(p) /\ \A q \in Procs : UsedDescs(q)' = UsedDescs(q)
    BY Zenon, <1>2 DEF UsedDescs
  <2> HIDE DEF c
  <2> QED BY <1>1, <1>3, <2>1 DEF CountInv
<1>8. KeyInv'
  BY <1>3 DEF KeyInv, DescsOf
<1>9. UsedInv'
  BY Zenon DEF UsedInv, InUse
<1>10. NoLostWakeup'
  <2> HIDE DEF c
  <2>1. \A q \in Procs : (pc'[q] = "sleep" <=> pc[q] = "sleep") /\ (pc'[q] = "up" <=> pc[q] = "up")
    BY Zenon, <1>1, <1>3
  <2> QED BY Zenon, <2>1 DEF NoLostWakeup
<1> QED BY Zenon, <1>5, <1>6, <1>7, <1>8, <1>9, <1>10

\* exit() leaves its references behind.
LEMMA ExitStep ==
  ASSUME IInv, NEW p \in Procs, exit(p)
  PROVE  IInv'
<1> USE DEF IInv, AttachedCounted
<1>1. /\ pc[p] = "run" /\ UNCHANGED <<value, references, used, semids, semcount, key, child, next>>
      /\ pc' = [pc EXCEPT ![p] = "unused"]
  BY Zenon DEF exit, Goto, sems, descs, forking
<1>2. TypeOK'
  BY Zenon, <1>1 DEF TypeOK
<1>3. pc'[p] = "unused" /\ \A q \in Procs \ {p} : pc'[q] = pc[q]
  BY Zenon, <1>1 DEF TypeOK
<1>4. AttachedCounted'
  <2> SUFFICES ASSUME NEW t \in Sems PROVE Cardinality(Attachments(t)') <= references'[t]
    BY Zenon, <1>2
  <2>1. IsFiniteSet(Attachments(t)) /\ Cardinality(Attachments(t)) <= references[t]
    BY Zenon, AttachmentsFinite
  <2>2. Attachments(t)' \subseteq Attachments(t)
    BY Zenon, <1>1, <1>3 DEF Attachments, Alive
  <2>3. /\ Cardinality(Attachments(t)') <= Cardinality(Attachments(t))
        /\ Cardinality(Attachments(t)') \in Nat /\ Cardinality(Attachments(t)) \in Nat
    BY Zenon, <2>1, <2>2, CardSub
  <2> QED BY <1>1, <2>1, <2>3 DEF TypeOK
<1>5. CopyInv'
  BY <1>1, <1>3 DEF CopyInv
<1>6. CountInv'
  <2>1. \A q \in Procs : UsedDescs(q)' = UsedDescs(q)
    BY Zenon, <1>1 DEF UsedDescs
  <2> QED BY Zenon, <1>1, <1>3, <2>1 DEF CountInv
<1>7. KeyInv'
  BY Zenon, <1>1, <1>3 DEF KeyInv, DescsOf
<1>8. UsedInv'
  BY Zenon, <1>1 DEF UsedInv, InUse
<1>9. NoLostWakeup'
  BY <1>1, <1>3 DEF NoLostWakeup
<1> QED BY Zenon, <1>4, <1>5, <1>6, <1>7, <1>8, <1>9

-----------------------------------------------------------------------------
(* The invariant is inductive, and gives the properties.                   *)

\* Nothing changes.
LEMMA StutterStep ==
  ASSUME IInv, UNCHANGED vars
  PROVE  IInv'
<1>1. UNCHANGED <<value, references, used, semids, semcount, pc, key, child, next>>
  BY Zenon DEF vars
<1>2. TypeOK'
  BY Zenon, <1>1 DEF IInv, AttachedCounted, TypeOK
<1>3. AttachedCounted' /\ CopyInv' /\ CountInv' /\ UsedInv'
  BY Zenon, <1>1, <1>2, QuietStep
<1>4. KeyInv' /\ NoLostWakeup'
  BY Zenon, <1>1 DEF IInv, KeyInv, DescsOf, NoLostWakeup
<1> QED BY Zenon, <1>3, <1>4 DEF IInv

\* Every step of the kernel keeps the invariant of the semaphores.
LEMMA NextIInv == IInv /\ [Next]_vars => IInv'
<1> SUFFICES ASSUME IInv, [Next]_vars PROVE IInv'
  OBVIOUS
<1>1. ASSUME NEW p \in Procs, NEW k \in Sems, semdown(p, k) PROVE IInv'
  BY Zenon, <1>1, DownStep DEF semdown, Valid
<1>2. ASSUME NEW p \in Procs, semdown_again(p) PROVE IInv'
  <2>1. pc[p] = "woken" /\ key[p] \in Sems /\ DescsOf(p, key[p]) # {} /\ Down(p, key[p])
    BY Zenon, <1>2 DEF semdown_again, IInv, KeyInv
  <2> QED BY Zenon, <2>1, DownStep
<1>3. ASSUME NEW p \in Procs, semcopy(p) PROVE IInv'
  BY Zenon, <1>3, CopyOne, CopyDone DEF semcopy
<1>4. ASSUME NEW p \in Procs, NEW k \in Sems \cup {-1}, NEW v \in 0 .. MAXVALUE, semget(p, k, v)
      PROVE  IInv'
  BY Zenon, <1>4, GetStep, StutterStep
<1>5. CASE Next
  BY Zenon, <1>1, <1>2, <1>3, <1>4, <1>5, UpStep, WakeupStep, KillStep, FreeStep, ForkStep,
     ExitStep DEF Next
<1> QED BY Zenon, <1>5, StutterStep

\* The semaphores keep their invariant.
THEOREM Invariance == Spec => []IInv
<1>1. Init => IInv
  BY Zenon, InitIInv
<1>2. IInv /\ [Next]_vars => IInv'
  BY Zenon, NextIInv
<1> QED BY <1>1, <1>2, PTL DEF Spec

\* However semget(), semfree(), fork() and exit() interleave, the references of a
\* semaphore cover every descriptor of it, those of a half-built child included.
THEOREM DescriptorsCounted == Spec => []AttachedCounted
<1>1. IInv => AttachedCounted
  BY Zenon DEF IInv
<1> QED BY <1>1, Invariance, PTL

\* semup() wakes whoever semdown() put to sleep, for any number of processes.
THEOREM SleepersWoken == Spec => []NoLostWakeup
<1>1. IInv => NoLostWakeup
  BY Zenon DEF IInv
<1> QED BY <1>1, Invariance, PTL

\* The test of sems.used keeps semget() from calling semset() with -1.
THEOREM SemcreateFinds == Spec => []CreateSucceeds
<1>1. IInv => CreateSucceeds
  BY Zenon, UsedBelow
<1> QED BY <1>1, Invariance, PTL
=============================================================================
