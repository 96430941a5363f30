--------------------------- MODULE CowMemoryProofs --------------------------
(***************************************************************************)
(* The reference counts of copy-on-write memory are exact, no frame in use *)
(* is on the free list or writable by two, and sharing is invisible, for   *)
(* any number of frames and pages and up to NPROC processes.               *)
(***************************************************************************)
EXTENDS CowMemoryInv, FiniteSetTheorems

\* The hypothesis of the steps holds.
LEMMA SetLawsHold == SetLaws
<1>1. ASSUME NEW S \in SUBSET Nat, S # {}
      PROVE  Min(S) \in S
  <2> USE <1>1
  <2> DEFINE R == {ss \in Nat \X Nat : ss[1] < ss[2]}
  <2>1. IsWellFoundedOn(R, Nat)
    BY NatLessThanWellFounded DEF OpToRel
  <2>2. PICK x \in S : \A y \in S : ~(<<y, x>> \in R)
    <3> HIDE DEF R
    <3> QED BY Zenon, <2>1, WFMin
  <2>3. \A y \in S : x =< y
    <3> SUFFICES ASSUME NEW y \in S PROVE x =< y
      OBVIOUS
    <3>1. ~(<<y, x>> \in R)
      BY <2>2
    <3>2. ~(y < x)
      BY <3>1
    <3> QED BY <3>2
  <2> QED
    BY Zenon, <2>3 DEF Min
<1>2. ASSUME NEW S, IsFiniteSet(S)
      PROVE  Cardinality(S) \in Nat /\ (Cardinality(S) = 0 <=> S = {})
  BY <1>2, FS_CardinalityType, FS_EmptySet
<1>3. IsFiniteSet({}) /\ Cardinality({}) = 0
  BY FS_EmptySet
<1>4. ASSUME NEW d
      PROVE  IsFiniteSet({d}) /\ Cardinality({d}) = 1
  BY <1>4, FS_Singleton
<1>5. ASSUME NEW S, IsFiniteSet(S), NEW T, T \subseteq S
      PROVE  /\ IsFiniteSet(T) /\ Cardinality(T) \in Nat /\ Cardinality(S) \in Nat
             /\ Cardinality(T) <= Cardinality(S)
             /\ Cardinality(T) = Cardinality(S) => T = S
  BY <1>5, FS_Subset, FS_CardinalityType
<1>6. ASSUME NEW S, IsFiniteSet(S), NEW d, d \notin S
      PROVE  /\ IsFiniteSet(S \cup {d})
             /\ Cardinality(S) \in Nat /\ Cardinality(S \cup {d}) = Cardinality(S) + 1
  <2> USE <1>6
  <2>1. /\ IsFiniteSet(S \cup {d})
        /\ Cardinality(S \cup {d}) = IF d \in S THEN Cardinality(S) ELSE Cardinality(S) + 1
    BY FS_AddElement
  <2> QED BY <2>1, FS_CardinalityType
<1>7. ASSUME NEW S, IsFiniteSet(S), NEW d \in S
      PROVE  /\ IsFiniteSet(S \ {d})
             /\ Cardinality(S) \in Nat \ {0} /\ Cardinality(S \ {d}) = Cardinality(S) - 1
  <2> USE <1>7
  <2>1. Cardinality(S) \in Nat /\ Cardinality(S) # 0
    BY FS_CardinalityType, FS_EmptySet
  <2>2. /\ IsFiniteSet(S \ {d})
        /\ Cardinality(S \ {d}) = IF d \in S THEN Cardinality(S) - 1 ELSE Cardinality(S)
    BY Zenon, FS_RemoveElement
  <2> QED BY <2>1, <2>2
<1>8. ASSUME NEW n \in Nat
      PROVE  IsFiniteSet(0 .. n - 1) /\ Cardinality(0 .. n - 1) = n
  <2> USE <1>8
  <2>1. IsFiniteSet(0 .. n - 1) /\ Cardinality(0 .. n - 1) = IF 0 > n - 1 THEN 0 ELSE (n - 1) - 0 + 1
    BY FS_Interval
  <2> QED BY <2>1
<1>9. ASSUME NEW S, NEW T, IsFiniteSet(S), IsFiniteSet(T)
      PROVE  IsFiniteSet(S \X T)
  BY <1>9, FS_Product
<1>10. ASSUME NEW S, NEW T, IsFiniteSet(S), IsFiniteSet(T), S \cap T = {}
      PROVE  /\ IsFiniteSet(S \cup T)
             /\ Cardinality(S) \in Nat /\ Cardinality(T) \in Nat
             /\ Cardinality(S \cup T) = Cardinality(S) + Cardinality(T)
  <2> USE <1>10
  <2>1. Cardinality(S) \in Nat /\ Cardinality(T) \in Nat
    BY FS_CardinalityType
  <2>2. /\ IsFiniteSet(S \cup T)
        /\ Cardinality(S \cup T) = Cardinality(S) + Cardinality(T) - Cardinality(S \cap T)
    BY FS_Union
  <2>3. Cardinality(S \cap T) = 0
    BY FS_EmptySet
  <2> QED BY <2>1, <2>2, <2>3
<1>11. ASSUME NEW r, NEW G, IsFiniteSet(G)
      PROVE  IsFiniteSet({r} \X G) /\ Cardinality({r} \X G) = Cardinality(G)
  <2> USE <1>11
  <2>1. IsFiniteSet({r}) /\ Cardinality({r}) = 1
    BY Zenon, FS_Singleton
  <2>2. Cardinality(G) \in Nat
    BY FS_CardinalityType
  <2>3. IsFiniteSet({r} \X G) /\ Cardinality({r} \X G) = Cardinality({r}) * Cardinality(G)
    BY <2>1, FS_Product
  <2> QED BY <2>1, <2>2, <2>3
<1>12. ASSUME NEW P, NEW G, IsFiniteSet(P), NEW S, S \subseteq P \X G,
             \A x, y \in S : x[1] = y[1] => x = y
      PROVE  IsFiniteSet(S) /\ Cardinality(S) \in Nat /\ Cardinality(S) <= Cardinality(P)
  <2> USE <1>12
  <2> DEFINE f == [x \in S |-> x[1]]
  <2>1. \A x \in S : x[1] \in P
    OBVIOUS
  <2>2. f \in Injection(S, P)
    BY <2>1 DEF Injection, IsInjective
  <2> HIDE DEF f
  <2> QED BY <2>2, FS_Injection, FS_CardinalityType
<1>13. /\ \A S \in SUBSET Nat : S # {} => Min(S) \in S
       /\ \A d : IsFiniteSet({d}) /\ Cardinality({d}) = 1
       /\ \A S : IsFiniteSet(S) => Cardinality(S) \in Nat /\ (Cardinality(S) = 0 <=> S = {})
  BY Zenon, <1>1, <1>2, <1>4
<1>14. \A S, T : IsFiniteSet(S) /\ T \subseteq S =>
         /\ IsFiniteSet(T) /\ Cardinality(T) <= Cardinality(S)
         /\ Cardinality(T) = Cardinality(S) => T = S
  BY Zenon, <1>5
<1>15. /\ \A S, d : IsFiniteSet(S) /\ d \notin S =>
            IsFiniteSet(S \cup {d}) /\ Cardinality(S \cup {d}) = Cardinality(S) + 1
       /\ \A S, d : IsFiniteSet(S) /\ d \in S =>
            IsFiniteSet(S \ {d}) /\ Cardinality(S \ {d}) = Cardinality(S) - 1
  BY Zenon, <1>6, <1>7
<1>16. \A S, T : IsFiniteSet(S) /\ IsFiniteSet(T) /\ S \cap T = {} =>
         IsFiniteSet(S \cup T) /\ Cardinality(S \cup T) = Cardinality(S) + Cardinality(T)
  BY Zenon, <1>10
<1>17. \A P, G, S : IsFiniteSet(P) /\ S \subseteq P \X G /\ (\A x, y \in S : x[1] = y[1] => x = y) =>
         IsFiniteSet(S) /\ Cardinality(S) <= Cardinality(P)
  BY Zenon, <1>12
<1> QED
  BY Zenon, <1>3, <1>8, <1>9, <1>11, <1>13, <1>14, <1>15, <1>16, <1>17 DEF SetLaws

\* The inductive invariant of copy-on-write memory holds.
THEOREM Invariance == Spec => []IInv
<1>1. (Init => IInv) /\ (IInv /\ [Next]_vars => IInv')
  BY Zenon, SetLawsHold, InitInv, InvNext
<1> QED
  BY <1>1, PTL DEF Spec

\* Every reference count is the number of references, whatever forks, faults,
\* exits and calls of sbrk() and exec() run at once (kalloc.c).
THEOREM CountsAreExact == Spec => []CountsExact
<1>1. IInv => CountsExact
  BY Zenon DEF IInv
<1> QED
  BY <1>1, Invariance, PTL

\* No frame in use is on the free list, and none that a process can write is in
\* another directory, though deallocuvm() and handlepgflt() act on counts they
\* have read without kmem.lock.
THEOREM FramesAreSafe == Spec => []FramesSafe
<1>1. IInv => FramesSafe
  BY Zenon, SetLawsHold, InvFrames
<1> QED
  BY <1>1, Invariance, PTL

\* Copy-on-write memory implements private memory: what fork() shares, copies on
\* a fault and frees again, no process can tell from memory of its own.
THEOREM CowIsPrivate == Spec => CowPrivate
<1>1. IInv /\ [Next]_vars => [Private!Next]_Mem
  BY Zenon, SetLawsHold, PrivateNext
<1>2. IInv /\ [Next]_vars
        => [Private!Next]_[p \in Procs |-> [g \in Pages |->
                             IF Live(p) /\ map[p][g] # NOFRAME THEN data[map[p][g]] ELSE NOFRAME]]
  BY Zenon, <1>1 DEF Mem, Seen
<1> QED
  BY PrivateInit, <1>2, Invariance, PTL DEF Spec, CowPrivate, Private!Spec
=============================================================================
