---------------------------- MODULE CowMemoryInv ----------------------------
(***************************************************************************)
(* The inductive invariant of copy-on-write memory, what it says of the    *)
(* reference counts, and the steps that keep it in which a process faults, *)
(* maps or gets pages.  Every step changes the counts as it changes the    *)
(* tables of references, and the counts fit in their unsigned char.        *)
(***************************************************************************)
EXTENDS CowMemory, TLAPS

\* An entry of the child's directory whose incref() is still to come.
Pending(p, g) == pc[p] = "incref" /\ page[p] = g

\* The directories under construction or given up, without that entry.
Counted == [p \in Procs |-> [g \in Pages |-> IF Pending(p, g) THEN NOFRAME ELSE dir[p][g]]]

\* The entries of a table of directories that hold frame f, and how many.
Slots(t, f) == {x \in Procs \X Pages : t[x[1]][x[2]] = f}
Occurs(t, f) == Cardinality(Slots(t, f))

\* The pages of an address space are its first ones.
Contiguous(d) == \E n \in 0 .. NPAGES : Present(d) = 0 .. (n - 1)

\* No frame is twice in a directory.
Distinct(d) == \A g, h \in Pages : d[g] = d[h] /\ d[g] # NOFRAME => g = h

\* cowuvm() has mapped the pages before page[p] into the child.
Copied(p) ==
  \A g \in Pages : dir[p][g] = IF g < page[p] \/ Pending(p, g) THEN map[p][g] ELSE NOFRAME

\* exec() has loaded the pages before page[p], in frames of its own, from an image
\* that holds one value.
Loaded(p) ==
  /\ page[p] > 0 /\ Present(dir[p]) = 0 .. (page[p] - 1)
  /\ \A g \in Present(dir[p]) : refs[dir[p][g]] = 1
  /\ \E v \in Values : \A g \in Present(dir[p]) : data[dir[p][g]] = v

\* An address space has its first pages, each in a frame of its own.
SpaceOk(p) == Contiguous(map[p]) /\ Distinct(map[p]) /\ Distinct(dir[p])

\* A frame on the free list has no reference.
FreeInv == \A f \in free : refs[f] = 0

\* A writable page has the only reference to its frame.
WriteOk(p) == \A g \in writable[p] : g \in Present(map[p]) /\ refs[map[p][g]] = 1

\* What a process in the middle of a call or a fault has established; a count
\* of 1 that refcount() returned is still 1.
PcOk(p) ==
  /\ pc[p] \in {"unused", "embryo"} => map[p] = NoPages
  /\ pc[p] \in {"unused", "embryo", "zombie", "user"} => page[p] = 0
  /\ pc[p] \notin {"fork", "incref", "exec", "free", "kfree", "drop"} => dir[p] = NoPages
  /\ pc[p] = "decref" <=> frame[p] # NOFRAME
  /\ pc[p] \in {"own", "copy"} => page[p] \in Present(map[p])
  /\ pc[p] = "own" => refs[map[p][page[p]]] = 1
  /\ pc[p] \in {"fork", "incref"} => Copied(p)
  /\ pc[p] = "incref" => page[p] \in Present(map[p]) \ writable[p]
  /\ pc[p] = "exec" => Loaded(p)
  /\ pc[p] \in {"kfree", "drop"} => page[p] \in Present(dir[p])
  /\ pc[p] = "kfree" => refs[dir[p][page[p]]] = 1

\* Every process has a proper address space and has what its place in the code needs.
ProcInv == \A p \in Procs : SpaceOk(p) /\ WriteOk(p) /\ PcOk(p)

\* The process that fork() builds or wait() collects belongs to one call, and
\* has no memory of its own.
ChildInv == \A p \in Procs :
  /\ pc[p] \notin {"fork", "incref", "free", "kfree", "drop"} => child[p] = NOPROC
  /\ pc[p] \in {"fork", "incref"} => child[p] # NOPROC /\ pc[child[p]] = "embryo"
  /\ child[p] # NOPROC =>
       /\ map[child[p]] = NoPages
       /\ pc[child[p]] = "embryo" \/ (pc[child[p]] = "zombie" /\ parent[child[p]] = NOPROC)
       /\ \A q \in Procs : child[q] = child[p] => q = p

\* The inductive invariant.
IInv == CountsExact /\ FreeInv /\ ProcInv /\ ChildInv

-----------------------------------------------------------------------------
(* Finite sets and the first of a table.                                   *)

\* What the library proves of finite sets, and that a set of naturals has a least
\* element.  The steps below have it as a hypothesis, which CowMemoryProofs
\* discharges: the provers are several times faster out of sight of the library.
SetLaws ==
  /\ \A S \in SUBSET Nat : S # {} => Min(S) \in S
  /\ IsFiniteSet({}) /\ Cardinality({}) = 0
  /\ \A d : IsFiniteSet({d}) /\ Cardinality({d}) = 1
  /\ \A S : IsFiniteSet(S) => Cardinality(S) \in Nat /\ (Cardinality(S) = 0 <=> S = {})
  /\ \A S, T : IsFiniteSet(S) /\ T \subseteq S =>
       /\ IsFiniteSet(T) /\ Cardinality(T) <= Cardinality(S)
       /\ Cardinality(T) = Cardinality(S) => T = S
  /\ \A S, d : IsFiniteSet(S) /\ d \notin S =>
       IsFiniteSet(S \cup {d}) /\ Cardinality(S \cup {d}) = Cardinality(S) + 1
  /\ \A S, d : IsFiniteSet(S) /\ d \in S =>
       IsFiniteSet(S \ {d}) /\ Cardinality(S \ {d}) = Cardinality(S) - 1
  /\ \A n \in Nat : IsFiniteSet(0 .. n - 1) /\ Cardinality(0 .. n - 1) = n
  /\ \A S, T : IsFiniteSet(S) /\ IsFiniteSet(T) => IsFiniteSet(S \X T)
  /\ \A S, T : IsFiniteSet(S) /\ IsFiniteSet(T) /\ S \cap T = {} =>
       IsFiniteSet(S \cup T) /\ Cardinality(S \cup T) = Cardinality(S) + Cardinality(T)
  /\ \A r, G : IsFiniteSet(G) => IsFiniteSet({r} \X G) /\ Cardinality({r} \X G) = Cardinality(G)
  /\ \A P, G, S : IsFiniteSet(P) /\ S \subseteq P \X G /\ (\A x, y \in S : x[1] = y[1] => x = y) =>
       IsFiniteSet(S) /\ Cardinality(S) <= Cardinality(P)

\* The least element of a nonempty set of naturals is in it (the first entry
\* that a scan of a kernel table finds).
LEMMA MinIn ==
  ASSUME SetLaws, NEW S \in SUBSET Nat, S # {}
  PROVE  Min(S) \in S
BY Zenon DEF SetLaws

\* The size of a finite set is a natural number, zero for the empty set only.
LEMMA CardNat ==
  ASSUME SetLaws, NEW S, IsFiniteSet(S)
  PROVE  Cardinality(S) \in Nat /\ (Cardinality(S) = 0 <=> S = {})
BY Zenon DEF SetLaws

\* The empty set is finite and has no element.
LEMMA CardEmpty ==
  ASSUME SetLaws
  PROVE  IsFiniteSet({}) /\ Cardinality({}) = 0
BY Zenon DEF SetLaws

\* A set with one element has size 1.
LEMMA CardOne ==
  ASSUME SetLaws, NEW d
  PROVE  IsFiniteSet({d}) /\ Cardinality({d}) = 1
BY Zenon DEF SetLaws

\* A subset is not larger.
LEMMA CardSub ==
  ASSUME SetLaws, NEW S, IsFiniteSet(S), NEW T, T \subseteq S
  PROVE  /\ IsFiniteSet(T) /\ Cardinality(T) \in Nat /\ Cardinality(S) \in Nat
         /\ Cardinality(T) <= Cardinality(S)
         /\ Cardinality(T) = Cardinality(S) => T = S
BY Zenon DEF SetLaws

\* One reference more is counted once.
LEMMA CardAdd ==
  ASSUME SetLaws, NEW S, IsFiniteSet(S), NEW d, d \notin S
  PROVE  /\ IsFiniteSet(S \cup {d})
         /\ Cardinality(S) \in Nat /\ Cardinality(S \cup {d}) = Cardinality(S) + 1
BY Zenon DEF SetLaws

\* One reference less is counted once.
LEMMA CardRemove ==
  ASSUME SetLaws, NEW S, IsFiniteSet(S), NEW d \in S
  PROVE  /\ IsFiniteSet(S \ {d})
         /\ Cardinality(S) \in Nat \ {0} /\ Cardinality(S \ {d}) = Cardinality(S) - 1
BY Zenon DEF SetLaws

\* The positions of a table of n entries.
LEMMA CardTable ==
  ASSUME SetLaws, NEW n \in Nat
  PROVE  IsFiniteSet(0 .. n - 1) /\ Cardinality(0 .. n - 1) = n
BY Zenon DEF SetLaws

\* The entries of the tables of finitely many processes are finitely many.
LEMMA PairsFinite ==
  ASSUME SetLaws, NEW S, NEW T, IsFiniteSet(S), IsFiniteSet(T)
  PROVE  IsFiniteSet(S \X T)
BY DEF SetLaws

\* The sizes of two disjoint sets add up.
LEMMA CardDisjoint ==
  ASSUME SetLaws, NEW S, NEW T, IsFiniteSet(S), IsFiniteSet(T), S \cap T = {}
  PROVE  /\ IsFiniteSet(S \cup T)
         /\ Cardinality(S) \in Nat /\ Cardinality(T) \in Nat
         /\ Cardinality(S \cup T) = Cardinality(S) + Cardinality(T)
<1>1. \A X, Y : IsFiniteSet(X) /\ IsFiniteSet(Y) /\ X \cap Y = {} =>
        IsFiniteSet(X \cup Y) /\ Cardinality(X \cup Y) = Cardinality(X) + Cardinality(Y)
  BY Zenon DEF SetLaws
<1>2. Cardinality(S) \in Nat /\ Cardinality(T) \in Nat
  BY Zenon, CardNat
<1> QED
  BY Zenon, <1>1, <1>2

\* One row of a table has as many entries as columns.
LEMMA CardRow ==
  ASSUME SetLaws, NEW r, NEW G, IsFiniteSet(G)
  PROVE  IsFiniteSet({r} \X G) /\ Cardinality({r} \X G) = Cardinality(G)
<1>1. \A q, H : IsFiniteSet(H) => IsFiniteSet({q} \X H) /\ Cardinality({q} \X H) = Cardinality(H)
  BY Zenon DEF SetLaws
<1> QED
  BY Zenon, <1>1

\* With at most one entry in each row there are at most as many as rows.
LEMMA CardRows ==
  ASSUME SetLaws, NEW P, NEW G, IsFiniteSet(P), NEW S, S \subseteq P \X G,
         \A x, y \in S : x[1] = y[1] => x = y
  PROVE  IsFiniteSet(S) /\ Cardinality(S) \in Nat /\ Cardinality(S) <= Cardinality(P)
BY Zenon DEF SetLaws

-----------------------------------------------------------------------------
(* Counting the entries of tables of directories.                          *)

\* The slots of a table are finitely many.
LEMMA SlotsFinite ==
  ASSUME SetLaws
  PROVE  IsFiniteSet(Procs) /\ IsFiniteSet(Pages) /\ IsFiniteSet(Procs \X Pages)
<1>1. IsFiniteSet(Pages)
  BY Zenon, MemAssumption, CardTable DEF Pages
<1> QED
  BY Zenon, <1>1, MemAssumption, PairsFinite

\* Finitely many entries hold a frame.
LEMMA OccursNat ==
  ASSUME SetLaws, NEW t, NEW f
  PROVE  IsFiniteSet(Slots(t, f)) /\ Occurs(t, f) \in Nat
<1>1. Slots(t, f) \subseteq Procs \X Pages
  BY Zenon DEF Slots
<1> QED
  BY Zenon, <1>1, SlotsFinite, CardSub DEF Occurs

\* Tables with the same entries count the same.
LEMMA OccursSame ==
  ASSUME NEW t, NEW u, NEW f, \A p \in Procs, g \in Pages : t[p][g] = u[p][g]
  PROVE  Occurs(u, f) = Occurs(t, f)
<1>1. Slots(t, f) = Slots(u, f)
  BY Zenon DEF Slots
<1> QED
  BY Zenon, <1>1 DEF Occurs

\* Tables t and u differ at most in one entry.
Differ(t, u, p, g) == \A q \in Procs, h \in Pages : (q # p \/ h # g) => u[q][h] = t[q][h]

\* A new entry that holds f.
LEMMA OccursGain ==
  ASSUME SetLaws, NEW t, NEW u, NEW f, NEW p \in Procs, NEW g \in Pages,
         Differ(t, u, p, g),
         t[p][g] # f, u[p][g] = f
  PROVE  Occurs(u, f) = Occurs(t, f) + 1
<1>1. Slots(u, f) = Slots(t, f) \cup {<<p, g>>} /\ <<p, g>> \notin Slots(t, f)
  BY DEF Slots, Differ
<1> QED
  BY Zenon, <1>1, OccursNat, CardAdd DEF Occurs

\* The entry that holds f goes.
LEMMA OccursLose ==
  ASSUME SetLaws, NEW t, NEW u, NEW f, NEW p \in Procs, NEW g \in Pages,
         Differ(t, u, p, g),
         t[p][g] = f, u[p][g] # f
  PROVE  Occurs(u, f) = Occurs(t, f) - 1 /\ Occurs(t, f) > 0
<1>1. Occurs(t, f) = Occurs(u, f) + 1
  <2>1. Differ(u, t, p, g)
    BY Zenon DEF Differ
  <2> QED BY Zenon, <2>1, OccursGain
<1>2. Occurs(t, f) \in Nat /\ Occurs(u, f) \in Nat
  BY Zenon, OccursNat
<1> QED
  BY <1>1, <1>2

\* An entry that changes from another frame to another frame.
LEMMA OccursKeep ==
  ASSUME NEW t, NEW u, NEW f, NEW p \in Procs, NEW g \in Pages,
         Differ(t, u, p, g),
         t[p][g] # f, u[p][g] # f
  PROVE  Occurs(u, f) = Occurs(t, f)
<1>1. Slots(t, f) = Slots(u, f)
  BY DEF Slots, Differ
<1> QED
  BY Zenon, <1>1 DEF Occurs

\* How often f occurs in one directory.
InDir(d, f) == Cardinality({g \in Pages : d[g] = f})

\* The entries of one directory and those of the others.
LEMMA OccursRow ==
  ASSUME SetLaws, NEW t, NEW f, NEW p \in Procs
  PROVE  LET Others == {x \in (Procs \ {p}) \X Pages : t[x[1]][x[2]] = f}
         IN  /\ Cardinality(Others) \in Nat /\ InDir(t[p], f) \in Nat
             /\ Occurs(t, f) = Cardinality(Others) + InDir(t[p], f)
<1> DEFINE Others == {x \in (Procs \ {p}) \X Pages : t[x[1]][x[2]] = f}
           G == {g \in Pages : t[p][g] = f}
           S == Slots(t, f)
           R == {p} \X G
<1>1. S = Others \cup R /\ Others \cap R = {}
  BY Zenon DEF Slots
<1>2. Others \subseteq Procs \X Pages /\ G \subseteq Pages
  OBVIOUS
<1> HIDE DEF Others, G, S
<1>3. IsFiniteSet(Others) /\ IsFiniteSet(G) /\ Cardinality(Others) \in Nat /\ Cardinality(G) \in Nat
  BY Zenon, <1>2, SlotsFinite, CardSub
<1>4. IsFiniteSet(R) /\ Cardinality(R) = Cardinality(G)
  BY Zenon, <1>3, CardRow
<1> HIDE DEF R
<1>6. Cardinality(S) = Cardinality(Others) + Cardinality(G)
  BY ZenonT(30), <1>1, <1>3, <1>4, CardDisjoint
<1> QED
  BY Zenon, <1>3, <1>6 DEF Others, G, S, Occurs, InDir

\* Tables with the same directories but for that of p.
RowsKept(t, u, p) == \A q \in Procs \ {p}, h \in Pages : u[q][h] = t[q][h]

\* A directory changes and the others are kept.
LEMMA RowChanged ==
  ASSUME SetLaws, NEW t, NEW u, NEW f, NEW p \in Procs,
         RowsKept(t, u, p)
  PROVE  /\ InDir(t[p], f) \in Nat /\ InDir(u[p], f) \in Nat
         /\ Occurs(t, f) \in Nat /\ Occurs(u, f) \in Nat
         /\ Occurs(u, f) = Occurs(t, f) - InDir(t[p], f) + InDir(u[p], f)
<1> DEFINE S == {x \in (Procs \ {p}) \X Pages : t[x[1]][x[2]] = f}
           T == {x \in (Procs \ {p}) \X Pages : u[x[1]][x[2]] = f}
<1>1. S = T
  BY DEF RowsKept
<1>2. /\ Cardinality(S) \in Nat /\ InDir(t[p], f) \in Nat
      /\ Occurs(t, f) = Cardinality(S) + InDir(t[p], f)
  BY Zenon, OccursRow
<1>3. /\ Cardinality(T) \in Nat /\ InDir(u[p], f) \in Nat
      /\ Occurs(u, f) = Cardinality(T) + InDir(u[p], f)
  BY Zenon, OccursRow
<1> HIDE DEF S, T
<1> QED
  BY <1>1, <1>2, <1>3

\* Directories with the same entries count the same.
LEMMA InDirSame ==
  ASSUME NEW d, NEW e, NEW f, \A g \in Pages : d[g] = e[g]
  PROVE  InDir(d, f) = InDir(e, f)
<1>1. {g \in Pages : d[g] = f} = {g \in Pages : e[g] = f}
  OBVIOUS
<1> QED
  BY Zenon, <1>1 DEF InDir

\* No frame is in a directory without pages.
LEMMA InNoPages ==
  ASSUME SetLaws, NEW f \in Frames
  PROVE  InDir(NoPages, f) = 0
<1>1. {g \in Pages : NoPages[g] = f} = {}
  BY Zenon, MemAssumption DEF NoPages
<1> QED
  BY Zenon, <1>1, CardEmpty DEF InDir

\* One entry and two entries.
LEMMA OccursSome ==
  ASSUME SetLaws, NEW t, NEW f, NEW p \in Procs, NEW g \in Pages, t[p][g] = f
  PROVE  /\ Occurs(t, f) >= 1
         /\ \A q \in Procs, h \in Pages : t[q][h] = f /\ (q # p \/ h # g) => Occurs(t, f) >= 2
<1> DEFINE S == Slots(t, f)
<1>1. <<p, g>> \in S
  BY Zenon DEF Slots
<1>2. IsFiniteSet(S) /\ Occurs(t, f) = Cardinality(S)
  BY Zenon, OccursNat DEF Occurs
<1>3. \A q \in Procs, h \in Pages :
        t[q][h] = f /\ (q # p \/ h # g) => <<q, h>> \in S \ {<<p, g>>}
  BY Zenon DEF Slots
<1> HIDE DEF S
<1>4. /\ IsFiniteSet(S \ {<<p, g>>})
      /\ Cardinality(S) \in Nat \ {0} /\ Cardinality(S \ {<<p, g>>}) = Cardinality(S) - 1
  BY Zenon, <1>1, <1>2, CardRemove
<1>5. S \ {<<p, g>>} # {} => Cardinality(S \ {<<p, g>>}) # 0
  BY Zenon, <1>4, CardNat
<1>6. Cardinality(S) >= 1 /\ (S \ {<<p, g>>} # {} => Cardinality(S) >= 2)
  BY <1>4, <1>5
<1> QED
  BY Zenon, <1>2, <1>3, <1>6

\* With distinct frames in each directory a frame occurs at most once for each process.
LEMMA OccursBound ==
  ASSUME SetLaws, NEW t, NEW f \in Frames,
         \A p \in Procs : \A g, h \in Pages : t[p][g] = f /\ t[p][h] = f => g = h
  PROVE  Occurs(t, f) <= Cardinality(Procs)
<1>1. Slots(t, f) \subseteq Procs \X Pages
  BY Zenon DEF Slots
<1>2. \A x, y \in Slots(t, f) : x[1] = y[1] => x = y
  BY DEF Slots
<1> QED
  BY Zenon, <1>1, <1>2, MemAssumption, CardRows DEF Occurs

\* The processes with a replaced frame whose decref() is still to come.
Holders(r, f) == {p \in Procs : r[p] = f}

\* Finitely many, one more, one less, and at least one.
LEMMA HoldersNat ==
  ASSUME SetLaws, NEW r, NEW f
  PROVE  /\ IsFiniteSet(Holders(r, f)) /\ Cardinality(Holders(r, f)) \in Nat
         /\ Cardinality(Holders(r, f)) <= Cardinality(Procs)
         /\ \A p \in Procs : r[p] = f => Cardinality(Holders(r, f)) >= 1
<1>1. Holders(r, f) \subseteq Procs /\ \A p \in Procs : r[p] = f => Holders(r, f) # {}
  BY Zenon DEF Holders
<1>2. /\ IsFiniteSet(Holders(r, f)) /\ Cardinality(Holders(r, f)) \in Nat
      /\ Cardinality(Holders(r, f)) <= Cardinality(Procs)
  BY Zenon, <1>1, MemAssumption, CardSub
<1>3. Cardinality(Holders(r, f)) = 0 <=> Holders(r, f) = {}
  BY Zenon, <1>2, CardNat
<1> QED
  BY <1>1, <1>2, <1>3

\* A process replaces frame f.
LEMMA HoldersGain ==
  ASSUME SetLaws, NEW r, NEW s, NEW f, NEW p \in Procs, \A q \in Procs \ {p} : s[q] = r[q],
         r[p] # f, s[p] = f
  PROVE  Cardinality(Holders(s, f)) = Cardinality(Holders(r, f)) + 1
<1>1. Holders(s, f) = Holders(r, f) \cup {p} /\ p \notin Holders(r, f)
  BY Zenon DEF Holders
<1> QED
  BY Zenon, <1>1, HoldersNat, CardAdd

\* A process replaces another frame, or gives one up that is not f.
LEMMA HoldersKeep ==
  ASSUME NEW r, NEW s, NEW f, NEW p \in Procs, \A q \in Procs \ {p} : s[q] = r[q],
         r[p] # f, s[p] # f
  PROVE  Cardinality(Holders(s, f)) = Cardinality(Holders(r, f))
<1>1. Holders(s, f) = Holders(r, f)
  BY Zenon DEF Holders
<1> QED
  BY Zenon, <1>1

\* Counts of none, one and more references.
LEMMA OneOrMore ==
  ASSUME NEW k \in 0 .. 192
  PROVE  /\ k >= 1 /\ ~(k > 1) => k = 1
         /\ k >= 1 => k # 0
         /\ k >= 2 => ~(k =< 1)
OBVIOUS

\* The numbers below g, if it is not 0.
LEMMA BelowIt ==
  ASSUME NEW g \in Nat, g # 0
  PROVE  g > 0 /\ 0 \in 0 .. (g - 1)
OBVIOUS

-----------------------------------------------------------------------------
(* The counts and the references.                                          *)

\* The references to f in directories m, in directories d and in replaced frames r.
Total(m, d, r, f) == Occurs(m, f) + Occurs(d, f) + Cardinality(Holders(r, f))

\* The references are those of the three tables.
LEMMA RefsTotal ==
  ASSUME NEW f \in Frames
  PROVE  /\ References(f) = Total(map, Counted, frame, f)
         /\ References(f)' = Total(map', Counted', frame', f)
<1> DEFINE S == {x \in Procs \X Pages : dir[x[1]][x[2]] = f
                                        /\ ~(pc[x[1]] = "incref" /\ page[x[1]] = x[2])}
           T == {x \in Procs \X Pages : dir'[x[1]][x[2]] = f
                                        /\ ~(pc'[x[1]] = "incref" /\ page'[x[1]] = x[2])}
<1>1. \A p \in Procs, g \in Pages :
        /\ Counted[p][g] = f <=> dir[p][g] = f /\ ~(pc[p] = "incref" /\ page[p] = g)
        /\ Counted'[p][g] = f <=> dir'[p][g] = f /\ ~(pc'[p] = "incref" /\ page'[p] = g)
  BY Zenon, MemAssumption DEF Counted, Pending
<1>2. S = Slots(Counted, f) /\ T = Slots(Counted', f)
  BY <1>1 DEF Slots
<1> HIDE DEF S, T
<1>3. References(f) = Cardinality(Slots(map, f)) + Cardinality(S) + Cardinality(Holders(frame, f))
  BY Zenon DEF References, S, Slots, Holders
<1>4. References(f)' = Cardinality(Slots(map', f)) + Cardinality(T) + Cardinality(Holders(frame', f))
  BY Zenon DEF References, T, Slots, Holders
<1> QED
  BY Zenon, <1>2, <1>3, <1>4 DEF Total, Occurs

\* The counts are exact after a step that keeps the types and updates the counts.
LEMMA CountsStep ==
  ASSUME TypeOK', \A f \in Frames : refs'[f] = Total(map', Counted', frame', f)
  PROVE  CountsExact'
BY Zenon, RefsTotal DEF CountsExact

\* The count of a frame, from its references.
LEMMA CountIs ==
  ASSUME SetLaws, IInv, NEW f \in Frames
  PROVE  /\ refs[f] = Total(map, Counted, frame, f)
         /\ Occurs(map, f) \in Nat /\ Occurs(Counted, f) \in Nat
         /\ Cardinality(Holders(frame, f)) \in Nat
         /\ refs[f] = Occurs(map, f) + Occurs(Counted, f) + Cardinality(Holders(frame, f))
BY Zenon, RefsTotal, OccursNat, HoldersNat DEF IInv, CountsExact, Total

\* A reference counts one, and two references count two.
LEMMA Sharing ==
  ASSUME SetLaws, IInv, NEW f \in Frames, NEW p \in Procs
  PROVE  /\ \A g \in Pages : map[p][g] = f =>
              /\ refs[f] >= 1
              /\ \A q \in Procs, h \in Pages :
                   /\ map[q][h] = f /\ (q # p \/ h # g) => refs[f] >= 2
                   /\ dir[q][h] = f /\ ~Pending(q, h) => refs[f] >= 2
              /\ \A q \in Procs : frame[q] = f => refs[f] >= 2
         /\ \A g \in Pages : dir[p][g] = f /\ ~Pending(p, g) =>
              /\ refs[f] >= 1
              /\ \A q \in Procs, h \in Pages :
                   dir[q][h] = f /\ ~Pending(q, h) /\ (q # p \/ h # g) => refs[f] >= 2
              /\ \A q \in Procs : frame[q] = f => refs[f] >= 2
         /\ frame[p] = f => refs[f] >= 1
<1>1. /\ Occurs(map, f) \in Nat /\ Occurs(Counted, f) \in Nat
      /\ Cardinality(Holders(frame, f)) \in Nat
      /\ refs[f] = Occurs(map, f) + Occurs(Counted, f) + Cardinality(Holders(frame, f))
  BY Zenon, CountIs
<1>2. \A q \in Procs, h \in Pages : map[q][h] = f =>
        /\ Occurs(map, f) >= 1
        /\ \A r \in Procs, k \in Pages : map[r][k] = f /\ (r # q \/ k # h) => Occurs(map, f) >= 2
  BY Zenon, OccursSome
<1>3. \A q \in Procs, h \in Pages : Counted[q][h] = f =>
        /\ Occurs(Counted, f) >= 1
        /\ \A r \in Procs, k \in Pages :
             Counted[r][k] = f /\ (r # q \/ k # h) => Occurs(Counted, f) >= 2
  BY Zenon, OccursSome
<1>4. \A q \in Procs : frame[q] = f => Cardinality(Holders(frame, f)) >= 1
  BY Zenon, HoldersNat
<1>5. \A q \in Procs, h \in Pages : dir[q][h] = f /\ ~Pending(q, h) => Counted[q][h] = f
  BY Zenon DEF Counted
<1> QED
  BY <1>1, <1>2, <1>3, <1>4, <1>5

\* A frame without references is in no table.
LEMMA Unused ==
  ASSUME SetLaws, IInv, NEW f \in Frames, refs[f] = 0
  PROVE  \A q \in Procs : frame[q] # f /\ \A h \in Pages : map[q][h] # f /\ dir[q][h] # f
<1>1. \A q \in Procs : frame[q] # f /\ \A h \in Pages : map[q][h] # f
  BY Sharing
<1>2. ASSUME NEW q \in Procs, NEW h \in Pages, dir[q][h] = f
      PROVE  FALSE
  <2>1. Pending(q, h)
    BY <1>2, Sharing
  <2>2. Copied(q)
    BY Zenon, <2>1 DEF IInv, ProcInv, PcOk, Pending
  <2> QED
    BY Zenon, <1>1, <1>2, <2>1, <2>2 DEF Copied
<1> QED
  BY Zenon, <1>1, <1>2

\* Three times NPROC fits.
LEMMA ThreeTables ==
  \A n \in Nat : \A a, b, c \in Nat :
    n =< 64 /\ a =< n /\ b =< n /\ c =< n => a + b + c \in 0 .. 192
OBVIOUS

\* A count never overflows its unsigned char: each process refers to a frame at
\* most once in each table.
LEMMA CountBound ==
  ASSUME SetLaws, IInv, NEW f \in Frames
  PROVE  refs[f] \in 0 .. 192
<1>1. \A p \in Procs : Distinct(map[p]) /\ Distinct(dir[p])
  BY Zenon DEF IInv, ProcInv, SpaceOk
<1>2. \A p \in Procs : \A g, h \in Pages : map[p][g] = f /\ map[p][h] = f => g = h
  BY <1>1, MemAssumption DEF Distinct
<1>3. \A p \in Procs : \A g, h \in Pages : Counted[p][g] = f /\ Counted[p][h] = f => g = h
  BY <1>1, MemAssumption DEF Distinct, Counted
<1>4. Occurs(map, f) <= Cardinality(Procs)
  BY Zenon, <1>2, OccursBound
<1>5. Occurs(Counted, f) <= Cardinality(Procs)
  BY Zenon, <1>3, OccursBound
<1>6. Cardinality(Holders(frame, f)) <= Cardinality(Procs)
  BY Zenon, HoldersNat
<1>7. Cardinality(Procs) \in Nat /\ Cardinality(Procs) =< 64
  BY Zenon, MemAssumption, CardNat
<1>8. /\ Occurs(map, f) \in Nat /\ Occurs(Counted, f) \in Nat
      /\ Cardinality(Holders(frame, f)) \in Nat
      /\ refs[f] = Occurs(map, f) + Occurs(Counted, f) + Cardinality(Holders(frame, f))
  BY Zenon, CountIs
<1>9. Occurs(map, f) + Occurs(Counted, f) + Cardinality(Holders(frame, f)) \in 0 .. 192
  BY Zenon, <1>4, <1>5, <1>6, <1>7, <1>8, ThreeTables
<1> QED
  BY Zenon, <1>8, <1>9

\* A directory that gets a frame it does not have.
LEMMA DistinctSet ==
  ASSUME NEW d, NEW e, NEW g \in Pages, Distinct(d),
         \A h \in Pages \ {g} : e[h] = d[h] /\ d[h] # e[g]
  PROVE  Distinct(e)
BY DEF Distinct

\* The size of an address space is the number of its first absent page.
LEMMA SizeIs ==
  ASSUME SetLaws, IInv, NEW p \in Procs
  PROVE  Size(p) \in 0 .. NPAGES /\ Present(map[p]) = 0 .. (Size(p) - 1)
<1>1. PICK n \in 0 .. NPAGES : Present(map[p]) = 0 .. (n - 1)
  BY Zenon DEF IInv, ProcInv, SpaceOk, Contiguous
<1>2. n \in Nat
  BY <1>1, MemAssumption
<1>3. Cardinality(0 .. n - 1) = n
  BY Zenon, <1>2, CardTable
<1> QED
  BY Zenon, <1>1, <1>3 DEF Size

-----------------------------------------------------------------------------
(* What a step of one process leaves alone.                                *)

\* Process p has a counted reference to frame f.
Uses(p, f) ==
  \/ \E g \in Pages : map[p][g] = f
  \/ \E g \in Pages : dir[p][g] = f /\ ~Pending(p, g)
  \/ frame[p] = f

\* The other processes keep what they have established: a step changes the count
\* and the contents only of a frame that is free or that its process refers to,
\* and the contents only of one that no other process refers to.
LEMMA OthersKept ==
  ASSUME SetLaws, IInv, NEW p \in Procs, NEW q \in Procs \ {p},
         /\ map'[q] = map[q] /\ dir'[q] = dir[q] /\ writable'[q] = writable[q]
         /\ pc'[q] = pc[q] /\ page'[q] = page[q] /\ frame'[q] = frame[q],
         \A f \in Frames : refs'[f] # refs[f] \/ data'[f] # data[f] => refs[f] = 0 \/ Uses(p, f),
         \A f \in Frames : data'[f] # data[f] => refs[f] =< 1
  PROVE  SpaceOk(q)' /\ WriteOk(q)' /\ PcOk(q)'
<1>1. TypeOK /\ SpaceOk(q) /\ WriteOk(q) /\ PcOk(q)
  BY Zenon DEF IInv, ProcInv, CountsExact
<1>2. SpaceOk(q)'
  BY Zenon, <1>1 DEF SpaceOk
<1>3. ASSUME NEW g \in Present(map[q]), refs[map[q][g]] = 1
      PROVE  refs'[map[q][g]] = 1
  <2>1. map[q][g] \in Frames /\ g \in Pages
    BY <1>1 DEF TypeOK, Directory, Present
  <2>2. ~Uses(p, map[q][g])
    BY <1>3, <2>1, Sharing DEF Uses
  <2> QED
    BY <1>3, <2>1, <2>2
<1>4. ASSUME NEW g \in Present(dir[q]), refs[dir[q][g]] = 1, ~Pending(q, g)
      PROVE  refs'[dir[q][g]] = 1
  <2>1. dir[q][g] \in Frames /\ g \in Pages
    BY <1>1 DEF TypeOK, Directory, Present
  <2>2. ~Uses(p, dir[q][g])
    BY SMTT(30), <1>4, <2>1, Sharing DEF Uses
  <2> QED
    BY <1>4, <2>1, <2>2
<1>5. ASSUME NEW g \in Present(dir[q]), ~Pending(q, g)
      PROVE  data'[dir[q][g]] = data[dir[q][g]]
  <2>1. dir[q][g] \in Frames /\ g \in Pages
    BY <1>1 DEF TypeOK, Directory, Present
  <2>2. refs[dir[q][g]] >= 1 /\ (Uses(p, dir[q][g]) => refs[dir[q][g]] >= 2)
    BY <1>5, <2>1, Sharing DEF Uses
  <2>3. refs[dir[q][g]] \in 0 .. 192
    BY Zenon, <2>1, CountBound
  <2>4. data'[dir[q][g]] # data[dir[q][g]] =>
          (refs[dir[q][g]] = 0 \/ Uses(p, dir[q][g])) /\ refs[dir[q][g]] =< 1
    BY Zenon, <2>1
  <2> QED
    BY Zenon, <2>2, <2>3, <2>4, OneOrMore
<1>6. WriteOk(q)'
  BY <1>1, <1>3 DEF WriteOk
<1>7. Copied(q)' <=> Copied(q)
  BY DEF Copied, Pending
<1>8. pc[q] = "exec" => Loaded(q)'
  BY <1>1, <1>4, <1>5 DEF PcOk, Loaded, Pending
<1>9. pc[q] = "own" => refs'[map[q][page[q]]] = 1
  BY Zenon, <1>1, <1>3 DEF PcOk
<1>10. pc[q] = "kfree" => refs'[dir[q][page[q]]] = 1
  BY Zenon, <1>1, <1>4 DEF PcOk, Pending
<1>11. PcOk(q)'
  BY SMTT(30), <1>1, <1>7, <1>8, <1>9, <1>10 DEF PcOk
<1> QED
  BY Zenon, <1>2, <1>6, <1>11

\* A step inside a call or a fault keeps the children of all calls.
LEMMA ChildKept ==
  ASSUME IInv, NEW p \in Procs, child' = child, parent' = parent,
         \A q \in Procs \ {p} : pc'[q] = pc[q] /\ map'[q] = map[q],
         pc[p] \notin {"unused", "embryo", "zombie"},
         child[p] = NOPROC \/ pc'[p] \in {"fork", "incref", "free", "kfree", "drop"},
         pc'[p] \in {"fork", "incref"} => pc[p] \in {"fork", "incref"}
  PROVE  ChildInv'
<1>1. \A q \in Procs : child[q] # NOPROC => child[q] \in Procs \ {p}
  BY DEF IInv, ChildInv, CountsExact, TypeOK
<1> QED
  BY <1>1 DEF IInv, ChildInv

\* A step of process p that begins or ends no process keeps the invariant if it
\* keeps the counts exact and what p itself has established.
LEMMA OwnStep ==
  ASSUME SetLaws, IInv, NEW p \in Procs, TypeOK',
         \A f \in Frames : refs'[f] = Total(map', Counted', frame', f),
         FreeInv',
         \A q \in Procs \ {p} :
           /\ map'[q] = map[q] /\ dir'[q] = dir[q] /\ writable'[q] = writable[q]
           /\ pc'[q] = pc[q] /\ page'[q] = page[q] /\ frame'[q] = frame[q],
         \A f \in Frames : refs'[f] # refs[f] \/ data'[f] # data[f] => refs[f] = 0 \/ Uses(p, f),
         \A f \in Frames : data'[f] # data[f] => refs[f] =< 1,
         child' = child, parent' = parent,
         pc[p] \notin {"unused", "embryo", "zombie"},
         child[p] = NOPROC \/ pc'[p] \in {"fork", "incref", "free", "kfree", "drop"},
         pc'[p] \in {"fork", "incref"} => pc[p] \in {"fork", "incref"},
         SpaceOk(p)' /\ WriteOk(p)' /\ PcOk(p)'
  PROVE  IInv'
<1>1. CountsExact'
  BY Zenon, CountsStep
<1>2. \A q \in Procs \ {p} : SpaceOk(q)' /\ WriteOk(q)' /\ PcOk(q)'
  BY Zenon, OthersKept
<1>3. ProcInv'
  BY Zenon, <1>2 DEF ProcInv
<1>4. ChildInv'
  BY Zenon, ChildKept
<1> QED
  BY Zenon, <1>1, <1>3, <1>4 DEF IInv

\* The counts stay exact when neither they nor the tables change.
LEMMA SameTotal ==
  ASSUME SetLaws, IInv, refs' = refs, map' = map, frame' = frame,
         \A q \in Procs, g \in Pages : Counted'[q][g] = Counted[q][g]
  PROVE  \A f \in Frames : refs'[f] = Total(map', Counted', frame', f)
<1> SUFFICES ASSUME NEW f \in Frames PROVE refs'[f] = Total(map', Counted', frame', f)
  OBVIOUS
<1>1. Occurs(Counted', f) = Occurs(Counted, f)
  BY Zenon, OccursSame
<1>2. refs[f] = Total(map, Counted, frame, f)
  BY Zenon, CountIs
<1> QED
  BY Zenon, <1>1, <1>2 DEF Total

\* The directories of the others count as before.
LEMMA CountedKept ==
  ASSUME NEW q \in Procs, dir'[q] = dir[q], pc'[q] = pc[q], page'[q] = page[q]
  PROVE  \A g \in Pages : Counted'[q][g] = Counted[q][g]
BY Zenon DEF Counted, Pending

\* What the directory of p counts for, when no incref() is to come.
LEMMA CountedDir ==
  ASSUME NEW p \in Procs
  PROVE  /\ pc[p] # "incref" => \A g \in Pages : Counted[p][g] = dir[p][g]
         /\ pc'[p] # "incref" => \A g \in Pages : Counted'[p][g] = dir'[p][g]
BY Zenon DEF Counted, Pending

\* One entry of a table of directories is set.
SetEntry(t, p, g, f) == [t EXCEPT ![p][g] = f]

\* It has the type of the table, and the other entries are kept.
LEMMA EntrySet ==
  ASSUME NEW t \in [Procs -> Directory], NEW p \in Procs, NEW g \in Pages,
         NEW f \in Frames \cup {NOFRAME}
  PROVE  LET u == SetEntry(t, p, g, f)
         IN  /\ u \in [Procs -> Directory] /\ u[p][g] = f
             /\ \A q \in Procs \ {p} : u[q] = t[q]
             /\ \A h \in Pages \ {g} : u[p][h] = t[p][h]
             /\ Differ(t, u, p, g)
<1> DEFINE d == [t[p] EXCEPT ![g] = f]
           u == [t EXCEPT ![p] = d]
<1>1. d \in Directory
  BY Zenon DEF Directory
<1>2. t[p] \in [Pages -> Frames \cup {NOFRAME}]
  BY Zenon DEF Directory
<1>3. d[g] = f /\ \A h \in Pages \ {g} : d[h] = t[p][h]
  BY Zenon, <1>2
<1>4. u = SetEntry(t, p, g, f)
  BY Zenon DEF SetEntry
<1> HIDE DEF d
<1>5. u \in [Procs -> Directory]
  BY Zenon, <1>1
<1>6. u[p] = d /\ \A q \in Procs \ {p} : u[q] = t[q]
  OBVIOUS
<1> HIDE DEF u
<1>7. Differ(t, u, p, g)
  BY Zenon, <1>3, <1>6 DEF Differ
<1> QED
  BY Zenon, <1>3, <1>4, <1>5, <1>6, <1>7

-----------------------------------------------------------------------------
(* One lemma per action.                                                   *)

\* kalloc() takes a frame that nobody refers to.
LEMMA FreshFrame ==
  ASSUME SetLaws, IInv, NEW f \in free
  PROVE  /\ f \in Frames /\ refs[f] = 0 /\ Total(map, Counted, frame, f) = 0
         /\ \A q \in Procs : frame[q] # f /\ \A h \in Pages : map[q][h] # f /\ dir[q][h] # f /\ Counted[q][h] # f
<1>1. f \in Frames /\ refs[f] = 0
  BY Zenon DEF IInv, CountsExact, TypeOK, FreeInv
<1>2. Total(map, Counted, frame, f) = 0
  BY Zenon, <1>1, CountIs
<1>3. \A q \in Procs : frame[q] # f /\ \A h \in Pages : map[q][h] # f /\ dir[q][h] # f
  BY Zenon, <1>1, Unused
<1>4. \A q \in Procs, h \in Pages : Counted[q][h] # f
  BY Zenon, <1>1, <1>3, MemAssumption DEF Counted
<1> QED
  BY Zenon, <1>1, <1>2, <1>3, <1>4

\* What kalloc() and the caller do to the frames.
LEMMA Allocated ==
  ASSUME IInv, NEW f \in free, NEW v \in Values \cup {JUNK}, kalloc(f, v)
  PROVE  /\ free' \in SUBSET Frames /\ refs' \in [Frames -> 0 .. 255]
         /\ data' \in [Frames -> Values \cup {JUNK}]
         /\ refs'[f] = 1 /\ data'[f] = v
         /\ \A x \in Frames \ {f} : refs'[x] = refs[x] /\ data'[x] = data[x]
         /\ FreeInv'
<1>1. TypeOK /\ FreeInv
  BY Zenon DEF IInv, CountsExact
<1>2. f \in Frames
  BY Zenon, <1>1 DEF TypeOK
<1>3. /\ free' \in SUBSET Frames /\ refs' \in [Frames -> 0 .. 255]
      /\ data' \in [Frames -> Values \cup {JUNK}]
  BY <1>1, <1>2 DEF TypeOK, kalloc
<1>4. /\ refs'[f] = 1 /\ data'[f] = v
      /\ \A x \in Frames \ {f} : refs'[x] = refs[x] /\ data'[x] = data[x]
  BY <1>1, <1>2 DEF TypeOK, kalloc
<1>5. FreeInv'
  BY Zenon, <1>1, <1>4 DEF TypeOK, kalloc, FreeInv
<1> QED
  BY Zenon, <1>3, <1>4, <1>5

\* What decref() does to the count of a frame with a reference.
LEMMA Decremented ==
  ASSUME IInv, NEW f \in Frames, refs[f] >= 1, decref(f)
  PROVE  /\ refs' \in [Frames -> 0 .. 255] /\ refs'[f] = refs[f] - 1
         /\ \A x \in Frames \ {f} : refs'[x] = refs[x]
         /\ FreeInv' /\ free' = free /\ data' = data
<1>1. refs \in [Frames -> 0 .. 255] /\ FreeInv /\ free \in SUBSET Frames
  BY Zenon DEF IInv, CountsExact, TypeOK
<1>2. refs[f] \in 1 .. 255
  BY SMTT(30), <1>1
<1>3. (refs[f] - 1) % 256 = refs[f] - 1 /\ refs[f] - 1 \in 0 .. 255
  BY <1>2
<1>4. refs' = [refs EXCEPT ![f] = refs[f] - 1] /\ free' = free /\ data' = data
  BY Zenon, <1>3 DEF decref
<1>5. refs' \in [Frames -> 0 .. 255]
  BY Zenon, <1>1, <1>3, <1>4
<1>6. refs'[f] = refs[f] - 1 /\ \A x \in Frames \ {f} : refs'[x] = refs[x]
  BY Zenon, <1>1, <1>4
<1>7. FreeInv'
  BY <1>1, <1>2, <1>4, <1>6 DEF FreeInv
<1> QED BY Zenon, <1>4, <1>5, <1>6, <1>7

\* Stores and page faults keep the invariant.
LEMMA FaultSteps ==
  ASSUME SetLaws
  PROVE  \A p \in Procs :
           IInv /\ (\/ \E g \in Pages : handlepgflt(p, g) \/ \E v \in Values : store(p, g, v)
                    \/ pgflt_own(p) \/ pgflt_copy(p) \/ pgflt_decref(p)) => IInv'
  \* A store goes to a frame that the process alone refers to.
<1>StoreStep.
      ASSUME IInv, NEW p \in Procs, NEW g \in Pages, NEW v \in Values, store(p, g, v)
      PROVE  IInv'
  <2> USE <1>StoreStep
  <2>1. /\ pc[p] = "user" /\ g \in writable[p]
        /\ data' = [data EXCEPT ![map[p][g]] = v]
        /\ UNCHANGED <<free, refs, map, writable, dir, pc, page, frame, child, parent, lock>>
    BY Zenon DEF store, spaces, call, family
  <2>2. TypeOK /\ SpaceOk(p) /\ WriteOk(p) /\ PcOk(p) /\ FreeInv /\ ChildInv
    BY Zenon DEF IInv, ProcInv, CountsExact
  <2>3. map[p][g] \in Frames /\ refs[map[p][g]] = 1
    BY <2>1, <2>2 DEF WriteOk, Present, TypeOK, Directory
  <2>4. TypeOK'
    BY Zenon, <2>1, <2>2, <2>3 DEF TypeOK
  <2>5. \A f \in Frames : refs'[f] = Total(map', Counted', frame', f)
    <3>1. \A q \in Procs, h \in Pages : Counted'[q][h] = Counted[q][h]
      BY Zenon, <2>1, CountedKept
    <3> QED BY Zenon, <2>1, <3>1, SameTotal
  <2>6. /\ \A f \in Frames : refs'[f] # refs[f] \/ data'[f] # data[f] => refs[f] = 0 \/ Uses(p, f)
        /\ \A f \in Frames : data'[f] # data[f] => refs[f] =< 1
    BY <2>1, <2>2, <2>3 DEF Uses, TypeOK
  <2>7. SpaceOk(p)' /\ WriteOk(p)' /\ PcOk(p)'
    BY Zenon, <2>1, <2>2 DEF SpaceOk, WriteOk, PcOk, Copied, Pending
  <2>8. child[p] = NOPROC /\ FreeInv'
    BY Zenon, <2>1, <2>2 DEF ChildInv, FreeInv
  <2> QED
    BY Zenon, <2>1, <2>4, <2>5, <2>6, <2>7, <2>8, OwnStep
  \* refcount() of a page without PTE_W: a count of 1 is that of p's own reference.
<1>FaultStep.
      ASSUME IInv, NEW p \in Procs, NEW g \in Pages, handlepgflt(p, g)
      PROVE  IInv'
  <2> USE <1>FaultStep
  <2>1. /\ pc[p] = "user" /\ g \in Present(map[p])
        /\ page' = [page EXCEPT ![p] = g]
        /\ \/ refs[map[p][g]] > 1 /\ pc' = [pc EXCEPT ![p] = "copy"]
           \/ ~(refs[map[p][g]] > 1) /\ pc' = [pc EXCEPT ![p] = "own"]
        /\ UNCHANGED <<free, refs, data, map, writable, dir, frame, child, parent, lock>>
    BY Zenon DEF handlepgflt, kmem, spaces, family, Goto, Shared
  <2>2. TypeOK /\ SpaceOk(p) /\ WriteOk(p) /\ PcOk(p) /\ FreeInv /\ ChildInv
    BY Zenon DEF IInv, ProcInv, CountsExact
  <2>3. /\ pc'[p] \in {"copy", "own"} /\ page'[p] = g
        /\ \A q \in Procs \ {p} : pc'[q] = pc[q] /\ page'[q] = page[q]
    BY <2>1, <2>2 DEF TypeOK
  <2>4. TypeOK'
    <3>1. pc' \in [Procs -> Pc] /\ page' \in [Procs -> 0 .. NPAGES]
      BY <2>1, <2>2, MemAssumption DEF TypeOK, Pc, Pages
    <3> QED BY Zenon, <2>1, <2>2, <3>1 DEF TypeOK
  <2>5. \A f \in Frames : refs'[f] = Total(map', Counted', frame', f)
    <3>1. \A q \in Procs, h \in Pages : Counted'[q][h] = Counted[q][h]
      BY SMTT(30), <2>1, <2>3, CountedKept, CountedDir
    <3> QED BY Zenon, <2>1, <3>1, SameTotal
  <2>6. pc'[p] = "own" => refs[map[p][g]] = 1
    <3>1. map[p][g] \in Frames
      BY <2>1, <2>2 DEF Present, TypeOK, Directory
    <3>2. refs[map[p][g]] >= 1 /\ refs[map[p][g]] \in 0 .. 192
      BY Zenon, <3>1, Sharing, CountBound
    <3>3. pc'[p] = "own" => ~(refs[map[p][g]] > 1)
      BY Zenon, <2>1, <2>2 DEF TypeOK
    <3> QED BY Zenon, <3>2, <3>3, OneOrMore
  <2>7. SpaceOk(p)' /\ WriteOk(p)' /\ PcOk(p)'
    BY Zenon, <2>1, <2>2, <2>3, <2>6 DEF SpaceOk, WriteOk, PcOk
  <2>8. child[p] = NOPROC /\ FreeInv'
    BY Zenon, <2>1, <2>2 DEF ChildInv, FreeInv
  <2> QED
    BY Zenon, <2>1, <2>3, <2>4, <2>5, <2>7, <2>8, OwnStep
  \* The page with the only reference becomes writable.
<1>FaultOwnStep.
      ASSUME IInv, NEW p \in Procs, pgflt_own(p)
      PROVE  IInv'
  <2> USE <1>FaultOwnStep
  <2>1. /\ pc[p] = "own"
        /\ writable' = [writable EXCEPT ![p] = @ \cup {page[p]}]
        /\ page' = [page EXCEPT ![p] = 0] /\ pc' = [pc EXCEPT ![p] = "user"]
        /\ UNCHANGED <<free, refs, data, map, dir, frame, child, parent, lock>>
    BY Zenon DEF pgflt_own, kmem, family, Goto, Return
  <2>2. TypeOK /\ SpaceOk(p) /\ WriteOk(p) /\ PcOk(p) /\ FreeInv /\ ChildInv
    BY Zenon DEF IInv, ProcInv, CountsExact
  <2>3. /\ pc'[p] = "user" /\ page'[p] = 0 /\ writable'[p] = writable[p] \cup {page[p]}
        /\ \A q \in Procs \ {p} : pc'[q] = pc[q] /\ page'[q] = page[q] /\ writable'[q] = writable[q]
    BY <2>1, <2>2 DEF TypeOK
  <2>4. TypeOK'
    <3>1. pc' \in [Procs -> Pc] /\ page' \in [Procs -> 0 .. NPAGES]
      BY <2>1, <2>2, MemAssumption DEF TypeOK, Pc
    <3>2. page[p] \in Pages
      BY Zenon, <2>1, <2>2 DEF PcOk, Present
    <3>3. writable' \in [Procs -> SUBSET Pages]
      BY <2>1, <2>2, <3>2 DEF TypeOK
    <3> QED BY Zenon, <2>1, <2>2, <3>1, <3>3 DEF TypeOK
  <2>5. \A f \in Frames : refs'[f] = Total(map', Counted', frame', f)
    <3>1. \A q \in Procs, h \in Pages : Counted'[q][h] = Counted[q][h]
      BY <2>1, <2>3, CountedKept, CountedDir
    <3> QED BY Zenon, <2>1, <3>1, SameTotal
  <2>7. SpaceOk(p)' /\ WriteOk(p)' /\ PcOk(p)'
    BY Zenon, <2>1, <2>2, <2>3 DEF SpaceOk, WriteOk, PcOk
  <2>8. child[p] = NOPROC /\ FreeInv'
    BY Zenon, <2>1, <2>2 DEF ChildInv, FreeInv
  <2> QED
    BY Zenon, <2>1, <2>3, <2>4, <2>5, <2>7, <2>8, OwnStep
  \* The frame that handlepgflt() has replaced loses its reference.
<1>FaultDecrefStep.
      ASSUME IInv, NEW p \in Procs, pgflt_decref(p)
      PROVE  IInv'
  <2> USE <1>FaultDecrefStep
  <2> DEFINE f == frame[p]
  <2>1. /\ pc[p] = "decref" /\ decref(f)
        /\ frame' = [frame EXCEPT ![p] = NOFRAME]
        /\ page' = [page EXCEPT ![p] = 0] /\ pc' = [pc EXCEPT ![p] = "user"]
        /\ UNCHANGED <<map, writable, dir, child, parent, lock>>
    BY Zenon DEF pgflt_decref, spaces, family, Goto, Return
  <2>2. TypeOK /\ SpaceOk(p) /\ WriteOk(p) /\ PcOk(p) /\ ChildInv
    BY Zenon DEF IInv, ProcInv, CountsExact
  <2>3. f \in Frames /\ f # NOFRAME /\ Uses(p, f)
    BY Zenon, <2>1, <2>2 DEF PcOk, TypeOK, Uses
  <2>4. refs[f] >= 1 /\ \A h \in Pages : map[p][h] = f => refs[f] >= 2
    BY Zenon, <2>3, Sharing
  <2>5. /\ refs' \in [Frames -> 0 .. 255] /\ refs'[f] = refs[f] - 1
        /\ \A x \in Frames \ {f} : refs'[x] = refs[x]
        /\ FreeInv' /\ free' = free /\ data' = data
    BY Zenon, <2>1, <2>3, <2>4, Decremented
  <2>6. /\ frame' \in [Procs -> Frames \cup {NOFRAME}] /\ frame'[p] = NOFRAME
        /\ pc' \in [Procs -> Pc] /\ page' \in [Procs -> 0 .. NPAGES]
        /\ pc'[p] = "user" /\ page'[p] = 0
        /\ \A q \in Procs \ {p} : pc'[q] = pc[q] /\ page'[q] = page[q] /\ frame'[q] = frame[q]
    BY SMTT(30), <2>1, <2>2, MemAssumption DEF TypeOK, Pc
  <2>7. TypeOK'
    BY Zenon, <2>1, <2>2, <2>5, <2>6 DEF TypeOK
  <2>8. \A x \in Frames : refs'[x] = Total(map', Counted', frame', x)
    <3> SUFFICES ASSUME NEW x \in Frames PROVE refs'[x] = Total(map', Counted', frame', x)
      OBVIOUS
    <3>1. Occurs(Counted', x) = Occurs(Counted, x)
      <4>1. \A q \in Procs, h \in Pages : Counted[q][h] = Counted'[q][h]
        BY SMTT(30), <2>1, <2>6, CountedKept, CountedDir
      <4> QED BY ZenonT(30), <4>1, OccursSame
    <3>2. /\ refs[x] = Occurs(map, x) + Occurs(Counted, x) + Cardinality(Holders(frame, x))
          /\ Occurs(map, x) \in Nat /\ Occurs(Counted, x) \in Nat /\ Cardinality(Holders(frame, x)) \in Nat
      BY Zenon, CountIs
    <3>3. CASE x = f
      <4>1. Cardinality(Holders(frame, x)) = Cardinality(Holders(frame', x)) + 1
        <5>1. frame'[p] # x /\ frame[p] = x /\ \A q \in Procs \ {p} : frame[q] = frame'[q]
          BY Zenon, <2>3, <2>6, <3>3
        <5> QED BY Zenon, <5>1, HoldersGain
      <4>2. Cardinality(Holders(frame', x)) \in Nat
        BY Zenon, HoldersNat
      <4> QED BY SMTT(30), <2>1, <2>5, <3>1, <3>2, <3>3, <4>1, <4>2 DEF Total
    <3>4. CASE x # f
      <4>1. Cardinality(Holders(frame', x)) = Cardinality(Holders(frame, x))
        BY SMTT(30), <2>3, <2>6, <3>4, MemAssumption, HoldersKeep
      <4> QED BY ZenonT(30), <2>1, <2>5, <3>1, <3>2, <3>4, <4>1 DEF Total
    <3> QED BY Zenon, <3>3, <3>4
  <2> HIDE DEF f
  <2>9. WriteOk(p)'
    <3> SUFFICES ASSUME NEW h \in writable[p] PROVE h \in Present(map[p]) /\ refs'[map[p][h]] = 1
      BY Zenon, <2>1 DEF WriteOk
    <3>1. h \in Present(map[p]) /\ refs[map[p][h]] = 1 /\ h \in Pages
      BY Zenon, <2>2 DEF WriteOk, Present
    <3>2. map[p][h] \in Frames \ {f}
      BY <2>2, <2>4, <3>1 DEF TypeOK, Directory, Present
    <3> QED BY Zenon, <2>5, <3>1, <3>2
  <2>10. SpaceOk(p)' /\ PcOk(p)'
    BY Zenon, <2>1, <2>2, <2>6 DEF SpaceOk, PcOk
  <2>11. child[p] = NOPROC
    BY Zenon, <2>1, <2>2 DEF ChildInv
  <2>12. /\ \A x \in Frames : refs'[x] # refs[x] \/ data'[x] # data[x] => refs[x] = 0 \/ Uses(p, x)
         /\ \A x \in Frames : data'[x] # data[x] => refs[x] =< 1
    BY Zenon, <2>3, <2>5
  <2> QED
    BY Zenon, <2>1, <2>5, <2>6, <2>7, <2>8, <2>9, <2>10, <2>11, <2>12, OwnStep
  \* A write to a shared page goes to a copy, or there is no memory for it.
<1>FaultCopyStep.
      ASSUME IInv, NEW p \in Procs, pgflt_copy(p)
      PROVE  IInv'
  <2> USE <1>FaultCopyStep
  <2> DEFINE g == page[p]
             v == map[p][g]
  <2>1. TypeOK /\ SpaceOk(p) /\ WriteOk(p) /\ PcOk(p) /\ ChildInv /\ FreeInv
    BY Zenon DEF IInv, ProcInv, CountsExact
  <2>2. /\ pc[p] = "copy" /\ g \in Present(map[p]) /\ g \in Pages /\ v \in Frames /\ v # NOFRAME
        /\ frame[p] = NOFRAME /\ dir[p] = NoPages /\ child[p] = NOPROC
    <3>1. pc[p] = "copy"
      BY Zenon DEF pgflt_copy
    <3>2. g \in Present(map[p]) /\ frame[p] = NOFRAME /\ dir[p] = NoPages /\ child[p] = NOPROC
      BY Zenon, <2>1, <3>1 DEF PcOk, ChildInv
    <3>3. g \in Pages /\ v \in Frames /\ v # NOFRAME
      BY <2>1, <3>2 DEF Present, TypeOK, Directory
    <3> QED BY Zenon, <3>1, <3>2, <3>3
  <2>3. ASSUME NEW f \in free, kalloc(f, data[v]),
               map' = [map EXCEPT ![p][g] = f],
               writable' = [writable EXCEPT ![p] = @ \cup {g}],
               frame' = [frame EXCEPT ![p] = v],
               pc' = [pc EXCEPT ![p] = "decref"],
               UNCHANGED <<page, dir, child, parent, lock>>
        PROVE  IInv'
    <3>1. /\ f \in Frames /\ refs[f] = 0
          /\ \A q \in Procs : frame[q] # f /\ \A h \in Pages : map[q][h] # f /\ dir[q][h] # f /\ Counted[q][h] # f
      BY Zenon, FreshFrame
    <3>2. v # f /\ data[v] \in Values \cup {JUNK}
      BY ZenonT(30), <2>1, <2>2, <3>1 DEF TypeOK
    <3>3. /\ free' \in SUBSET Frames /\ refs' \in [Frames -> 0 .. 255]
          /\ data' \in [Frames -> Values \cup {JUNK}]
          /\ refs'[f] = 1
          /\ \A x \in Frames \ {f} : refs'[x] = refs[x] /\ data'[x] = data[x]
          /\ FreeInv'
      BY <2>3, <3>2, Allocated
    <3>4. map \in [Procs -> Directory] /\ map' = SetEntry(map, p, g, f) /\ f \in Frames \cup {NOFRAME}
      BY ZenonT(30), <2>1, <2>3, <3>1 DEF TypeOK, SetEntry
    <3> HIDE DEF g, v
    <3>5. /\ map' \in [Procs -> Directory] /\ map'[p][g] = f
          /\ \A q \in Procs \ {p} : map'[q] = map[q]
          /\ \A h \in Pages \ {g} : map'[p][h] = map[p][h]
          /\ Differ(map, map', p, g)
      BY SMTT(30), <2>2, <3>4, EntrySet
    <3>6. /\ writable' \in [Procs -> SUBSET Pages] /\ writable'[p] = writable[p] \cup {g}
          /\ frame' \in [Procs -> Frames \cup {NOFRAME}] /\ frame'[p] = v
          /\ pc' \in [Procs -> Pc] /\ pc'[p] = "decref"
          /\ \A q \in Procs \ {p} : writable'[q] = writable[q] /\ frame'[q] = frame[q] /\ pc'[q] = pc[q]
      BY <2>1, <2>2, <2>3 DEF TypeOK, Pc
    <3>7. TypeOK'
      BY Zenon, <2>1, <2>3, <3>3, <3>5, <3>6 DEF TypeOK
    <3>8. \A x \in Frames : refs'[x] = Total(map', Counted', frame', x)
      <4> SUFFICES ASSUME NEW x \in Frames PROVE refs'[x] = Total(map', Counted', frame', x)
        OBVIOUS
      <4>1. Occurs(Counted', x) = Occurs(Counted, x)
        <5>1. \A q \in Procs, h \in Pages : Counted[q][h] = Counted'[q][h]
          BY SMTT(30), <2>2, <2>3, <3>6, CountedKept, CountedDir
        <5> QED BY Zenon, <5>1, OccursSame
      <4>2. /\ refs[x] = Occurs(map, x) + Occurs(Counted, x) + Cardinality(Holders(frame, x))
            /\ Occurs(map, x) \in Nat /\ Occurs(Counted, x) \in Nat /\ Cardinality(Holders(frame, x)) \in Nat
        BY Zenon, CountIs
      <4>3. map[p][g] = v /\ Occurs(map', x) \in Nat
        BY ZenonT(30), OccursNat DEF v
      <4>4. CASE x = f
        <5>1. Occurs(map', x) = Occurs(map, x) + 1
          BY SMTT(30), <2>2, <3>2, <3>5, <4>3, <4>4, OccursGain
        <5>2. Cardinality(Holders(frame', x)) = Cardinality(Holders(frame, x))
          BY SMTT(30), <2>2, <3>1, <3>2, <3>6, <4>4, HoldersKeep
        <5> QED BY SMTT(30), <3>1, <3>3, <4>1, <4>2, <4>4, <5>1, <5>2 DEF Total
      <4>5. CASE x = v
        <5>1. Occurs(map', x) = Occurs(map, x) - 1
          <6>1. map[p][g] = x /\ map'[p][g] # x /\ Differ(map, map', p, g)
            BY Zenon, <3>2, <3>5, <4>3, <4>5
          <6> QED BY Zenon, <2>2, <6>1, OccursLose
        <5>2. Cardinality(Holders(frame', x)) = Cardinality(Holders(frame, x)) + 1
          <6>1. frame[p] # x /\ frame'[p] = x /\ \A q \in Procs \ {p} : frame'[q] = frame[q]
            BY Zenon, <2>2, <3>6, <4>5
          <6> QED BY Zenon, <6>1, HoldersGain
        <5> QED BY SMTT(30), <3>2, <3>3, <4>1, <4>2, <4>5, <5>1, <5>2 DEF Total
      <4>6. CASE x # f /\ x # v
        <5>1. Occurs(map', x) = Occurs(map, x)
          BY ZenonT(30), <2>2, <3>5, <4>3, <4>6, OccursKeep
        <5>2. Cardinality(Holders(frame', x)) = Cardinality(Holders(frame, x))
          BY SMTT(30), <2>2, <3>6, <4>6, MemAssumption, HoldersKeep
        <5> QED BY Zenon, <3>3, <4>1, <4>2, <4>6, <5>1, <5>2 DEF Total
      <4> QED BY Zenon, <4>4, <4>5, <4>6
    <3>9. SpaceOk(p)'
      <4>1. Present(map'[p]) = Present(map[p])
        BY ZenonT(30), <2>2, <3>1, <3>5, MemAssumption DEF Present
      <4>2. Distinct(map'[p])
        BY SMTT(30), <2>1, <2>2, <3>1, <3>5 DEF SpaceOk, Distinct
      <4> QED BY Zenon, <2>1, <2>3, <4>1, <4>2 DEF SpaceOk, Contiguous
    <3>10. WriteOk(p)'
      <4> SUFFICES ASSUME NEW h \in writable'[p] PROVE h \in Present(map'[p]) /\ refs'[map'[p][h]] = 1
        BY Zenon DEF WriteOk
      <4>1. CASE h = g
        BY Zenon, <2>2, <3>1, <3>3, <3>5, <4>1, MemAssumption DEF Present
      <4>2. CASE h # g
        <5>1. h \in Present(map[p]) /\ refs[map[p][h]] = 1 /\ map'[p][h] = map[p][h] /\ h \in Pages
          BY Zenon, <2>1, <3>5, <3>6, <4>2 DEF WriteOk, Present
        <5>2. map[p][h] \in Frames \ {f}
          BY <2>1, <3>1, <5>1 DEF TypeOK, Directory, Present
        <5> QED BY Zenon, <3>3, <5>1, <5>2 DEF Present
      <4> QED BY Zenon, <4>1, <4>2
    <3>11. PcOk(p)'
      BY ZenonT(30), <2>1, <2>2, <2>3, <3>6 DEF PcOk
    <3>12. /\ \A x \in Frames : refs'[x] # refs[x] \/ data'[x] # data[x] => refs[x] = 0 \/ Uses(p, x)
           /\ \A x \in Frames : data'[x] # data[x] => refs[x] =< 1
      BY <3>1, <3>3
    <3> QED
      BY Zenon, <2>2, <2>3, <3>3, <3>5, <3>6, <3>7, <3>8, <3>9, <3>10, <3>11, <3>12, OwnStep
  <2>4. ASSUME pc' = [pc EXCEPT ![p] = "user"], page' = [page EXCEPT ![p] = 0],
               UNCHANGED <<free, refs, data, map, writable, frame, dir, child, parent, lock>>
        PROVE  IInv'
    <3>1. /\ pc' \in [Procs -> Pc] /\ page' \in [Procs -> 0 .. NPAGES] /\ pc'[p] = "user" /\ page'[p] = 0
          /\ \A q \in Procs \ {p} : pc'[q] = pc[q] /\ page'[q] = page[q]
      BY <2>1, <2>4, MemAssumption DEF TypeOK, Pc
    <3>2. TypeOK' /\ FreeInv'
      BY Zenon, <2>1, <2>4, <3>1 DEF TypeOK, FreeInv
    <3>3. \A f \in Frames : refs'[f] = Total(map', Counted', frame', f)
      <4>1. \A q \in Procs, h \in Pages : Counted'[q][h] = Counted[q][h]
        BY SMTT(30), <2>2, <2>4, <3>1, CountedKept, CountedDir
      <4> QED BY Zenon, <2>4, <4>1, SameTotal
    <3>4. SpaceOk(p)' /\ WriteOk(p)' /\ PcOk(p)'
      BY Zenon, <2>1, <2>2, <2>4, <3>1 DEF SpaceOk, WriteOk, PcOk
    <3> QED
      BY ZenonT(30), <2>2, <2>4, <3>1, <3>2, <3>3, <3>4, OwnStep
  <2> QED
    BY Zenon, <2>3, <2>4 DEF pgflt_copy, kmem, spaces, family, Goto, Return
<1> QED
  BY Zenon, <1>StoreStep, <1>FaultStep, <1>FaultOwnStep, <1>FaultDecrefStep, <1>FaultCopyStep

-----------------------------------------------------------------------------
(* Steps that give directories up or hand them to another process.         *)

\* A step of process p that begins or ends process c keeps the invariant if it
\* keeps what both have established.
LEMMA PairStep ==
  ASSUME SetLaws, IInv, NEW p \in Procs, NEW c \in Procs, TypeOK',
         \A f \in Frames : refs'[f] = Total(map', Counted', frame', f),
         UNCHANGED <<free, refs, data>>,
         \A q \in Procs \ {p, c} :
           /\ map'[q] = map[q] /\ dir'[q] = dir[q] /\ writable'[q] = writable[q]
           /\ pc'[q] = pc[q] /\ page'[q] = page[q] /\ frame'[q] = frame[q],
         SpaceOk(p)' /\ WriteOk(p)' /\ PcOk(p)',
         SpaceOk(c)' /\ WriteOk(c)' /\ PcOk(c)',
         ChildInv'
  PROVE  IInv'
<1>1. CountsExact'
  BY Zenon, CountsStep
<1>2. \A q \in Procs \ {p, c} : SpaceOk(q)' /\ WriteOk(q)' /\ PcOk(q)'
  BY Zenon, OthersKept
<1>3. ProcInv'
  BY Zenon, <1>2 DEF ProcInv
<1>4. FreeInv'
  BY Zenon DEF IInv, FreeInv
<1> QED
  BY Zenon, <1>1, <1>3, <1>4 DEF IInv

\* sbrk(), exec() and giving up directories keep it.
LEMMA SpaceSteps ==
  ASSUME SetLaws
  PROVE  \A p \in Procs :
           IInv /\ (\/ \E f \in Frames : sbrk_grow(p, f) \/ \E v \in Values : exec(p, f, v)
                    \/ sbrk_shrink(p) \/ exec_bad(p) \/ exec_commit(p)
                    \/ dealloc(p) \/ dealloc_page(p) \/ dealloc_done(p)) => IInv'
  \* growproc() adds one page at the end of the address space.
<1>GrowStep.
      ASSUME IInv, NEW p \in Procs, NEW f \in Frames, sbrk_grow(p, f)
      PROVE  IInv'
  <2> USE <1>GrowStep
  <2> DEFINE g == Size(p)
  <2>1. /\ pc[p] = "user" /\ g < NPAGES
        /\ kalloc(f, ZERO) /\ f \in free
        /\ map' = [map EXCEPT ![p][g] = f]
        /\ writable' = [writable EXCEPT ![p] = @ \cup {g}]
        /\ UNCHANGED <<dir, pc, page, frame, child, parent, lock>>
    BY Zenon DEF sbrk_grow, Room, kalloc, call, family
  <2>2. TypeOK /\ SpaceOk(p) /\ WriteOk(p) /\ PcOk(p) /\ ChildInv
    BY Zenon DEF IInv, ProcInv, CountsExact
  <2>3. /\ refs[f] = 0 /\ Total(map, Counted, frame, f) = 0
        /\ \A q \in Procs : frame[q] # f /\ \A h \in Pages : map[q][h] # f /\ dir[q][h] # f /\ Counted[q][h] # f
    BY Zenon, <2>1, FreshFrame
  <2>4. /\ free' \in SUBSET Frames /\ refs' \in [Frames -> 0 .. 255]
        /\ data' \in [Frames -> Values \cup {JUNK}]
        /\ refs'[f] = 1
        /\ \A x \in Frames \ {f} : refs'[x] = refs[x] /\ data'[x] = data[x]
        /\ FreeInv'
    BY <2>1, Allocated, MemAssumption
  <2>5. g \in Pages /\ Present(map[p]) = 0 .. (g - 1) /\ map[p][g] = NOFRAME /\ g \in Nat
    <3>1. g \in 0 .. NPAGES /\ Present(map[p]) = 0 .. (g - 1)
      BY Zenon, SizeIs
    <3> HIDE DEF g
    <3>2. g \in Pages /\ g \in Nat /\ g \notin 0 .. (g - 1)
      BY <2>1, <3>1, MemAssumption DEF Pages
    <3> QED BY Zenon, <3>1, <3>2 DEF Present
  <2> HIDE DEF g
  <2>6. /\ map' \in [Procs -> Directory] /\ map'[p][g] = f
        /\ \A q \in Procs \ {p} : map'[q] = map[q]
        /\ \A h \in Pages \ {g} : map'[p][h] = map[p][h]
        /\ Differ(map, map', p, g)
    <3>1. map \in [Procs -> Directory]
      BY Zenon, <2>2 DEF TypeOK
    <3>2. map' = SetEntry(map, p, g, f) /\ f \in Frames \cup {NOFRAME}
      BY Zenon, <2>1 DEF SetEntry
    <3> QED BY <2>5, <3>1, <3>2, EntrySet
  <2>7. /\ writable' \in [Procs -> SUBSET Pages] /\ writable'[p] = writable[p] \cup {g}
        /\ \A q \in Procs \ {p} : writable'[q] = writable[q]
    BY <2>1, <2>2, <2>5 DEF TypeOK
  <2>8. TypeOK'
    BY Zenon, <2>1, <2>2, <2>4, <2>6, <2>7 DEF TypeOK
  <2>9. \A x \in Frames : refs'[x] = Total(map', Counted', frame', x)
    <3> SUFFICES ASSUME NEW x \in Frames PROVE refs'[x] = Total(map', Counted', frame', x)
      OBVIOUS
    <3>1. Occurs(Counted', x) = Occurs(Counted, x) /\ frame' = frame
      BY Zenon, <2>1, CountedKept, OccursSame
    <3>2. CASE x = f
      <4>1. Occurs(map', x) = Occurs(map, x) + 1
        BY <2>3, <2>5, <2>6, <3>2, OccursGain
      <4>2. refs[x] = Occurs(map, x) + Occurs(Counted, x) + Cardinality(Holders(frame, x))
            /\ Occurs(map, x) \in Nat /\ Occurs(Counted, x) \in Nat /\ Cardinality(Holders(frame, x)) \in Nat
        BY Zenon, CountIs
      <4> QED BY SMTT(30), <2>3, <2>4, <3>1, <3>2, <4>1, <4>2 DEF Total
    <3>3. CASE x # f
      <4>1. Occurs(map', x) = Occurs(map, x)
        BY Zenon, <2>5, <2>6, <3>3, MemAssumption, OccursKeep
      <4>2. refs[x] = Total(map, Counted, frame, x)
        BY Zenon, CountIs
      <4> QED BY Zenon, <2>4, <3>1, <3>3, <4>1, <4>2 DEF Total
    <3> QED BY Zenon, <3>2, <3>3
  <2>10. SpaceOk(p)' /\ WriteOk(p)' /\ PcOk(p)'
    <3>1. Present(map'[p]) = 0 .. g
      <4>1. Present(map'[p]) = Present(map[p]) \cup {g}
        BY Zenon, <2>5, <2>6, MemAssumption DEF Present
      <4> QED BY <2>5, <4>1
    <3>2. Contiguous(map'[p])
      <4>1. g + 1 \in 0 .. NPAGES /\ (g + 1) - 1 = g
        BY SMTT(30), <2>1, <2>5, MemAssumption
      <4> QED BY Zenon, <3>1, <4>1 DEF Contiguous
    <3>3. Distinct(map'[p])
      <4>1. Distinct(map[p]) /\ \A h \in Pages \ {g} : map'[p][h] = map[p][h] /\ map[p][h] # map'[p][g]
        BY Zenon, <2>2, <2>3, <2>6 DEF SpaceOk
      <4> QED BY Zenon, <2>5, <4>1, DistinctSet
    <3>4. SpaceOk(p)'
      BY Zenon, <2>1, <2>2, <3>2, <3>3 DEF SpaceOk
    <3>5. WriteOk(p)'
      <4> SUFFICES ASSUME NEW h \in writable'[p] PROVE h \in Present(map'[p]) /\ refs'[map'[p][h]] = 1
        BY Zenon DEF WriteOk
      <4>1. CASE h = g
        BY Zenon, <2>4, <2>5, <2>6, <4>1, MemAssumption DEF Present
      <4>2. CASE h # g
        <5>1. h \in Present(map[p]) /\ refs[map[p][h]] = 1 /\ map'[p][h] = map[p][h] /\ h \in Pages
          BY Zenon, <2>2, <2>6, <2>7, <4>2 DEF WriteOk, Present
        <5>2. map[p][h] \in Frames \ {f}
          BY <2>2, <2>3, <5>1 DEF TypeOK, Directory, Present
        <5> QED BY Zenon, <2>4, <5>1, <5>2 DEF Present
      <4> QED BY Zenon, <4>1, <4>2
    <3>6. PcOk(p)'
      BY Zenon, <2>1, <2>2 DEF PcOk
    <3> QED BY Zenon, <3>4, <3>5, <3>6
  <2>11. /\ \A x \in Frames : refs'[x] # refs[x] \/ data'[x] # data[x] => refs[x] = 0 \/ Uses(p, x)
         /\ \A x \in Frames : data'[x] # data[x] => refs[x] =< 1
    BY <2>3, <2>4
  <2>12. child[p] = NOPROC
    BY Zenon, <2>1, <2>2 DEF ChildInv
  <2> QED
    BY Zenon, <2>1, <2>4, <2>6, <2>7, <2>8, <2>9, <2>10, <2>11, <2>12, OwnStep
  \* growproc() takes the last page out of the address space, to be given up.
<1>ShrinkStep.
      ASSUME IInv, NEW p \in Procs, sbrk_shrink(p)
      PROVE  IInv'
  <2> USE <1>ShrinkStep
  <2> DEFINE g == Size(p) - 1
             f == map[p][g]
  <2>1. /\ pc[p] = "user" /\ Size(p) > 1
        /\ dir' = SetEntry(dir, p, g, f) /\ map' = SetEntry(map, p, g, NOFRAME)
        /\ writable' = [writable EXCEPT ![p] = @ \ {g}]
        /\ pc' = [pc EXCEPT ![p] = "free"]
        /\ UNCHANGED <<free, refs, data, page, frame, child, parent, lock>>
    BY Zenon DEF sbrk_shrink, SetEntry, kmem, call, family, Goto
  <2>2. TypeOK /\ SpaceOk(p) /\ WriteOk(p) /\ PcOk(p) /\ ChildInv /\ FreeInv
    BY Zenon DEF IInv, ProcInv, CountsExact
  <2>3. /\ g \in Pages /\ g \in Nat /\ Present(map[p]) = 0 .. g /\ f \in Frames
        /\ dir[p] = NoPages /\ dir[p][g] = NOFRAME
    <3>1. Size(p) \in 0 .. NPAGES /\ Present(map[p]) = 0 .. g
      BY Zenon, SizeIs
    <3>2. g \in Nat /\ g \in Pages /\ g \in Present(map[p])
      BY <2>1, <3>1, MemAssumption DEF Pages
    <3>3. f \in Frames
      BY <2>2, <3>2 DEF Present, TypeOK, Directory
    <3>4. dir[p] = NoPages
      BY Zenon, <2>1, <2>2 DEF PcOk
    <3> QED BY Zenon, <3>1, <3>2, <3>3, <3>4 DEF NoPages
  <2>4. dir \in [Procs -> Directory] /\ map \in [Procs -> Directory]
    BY Zenon, <2>2 DEF TypeOK
  <2> HIDE DEF g, f
  <2>5. /\ dir' \in [Procs -> Directory] /\ dir'[p][g] = f
        /\ \A q \in Procs \ {p} : dir'[q] = dir[q]
        /\ \A h \in Pages \ {g} : dir'[p][h] = dir[p][h]
    BY <2>1, <2>3, <2>4, EntrySet
  <2>6. /\ map' \in [Procs -> Directory] /\ map'[p][g] = NOFRAME
        /\ \A q \in Procs \ {p} : map'[q] = map[q]
        /\ \A h \in Pages \ {g} : map'[p][h] = map[p][h]
        /\ Differ(map, map', p, g)
    BY SMTT(30), <2>1, <2>3, <2>4, EntrySet
  <2>7. /\ writable' \in [Procs -> SUBSET Pages] /\ writable'[p] = writable[p] \ {g}
        /\ pc' \in [Procs -> Pc] /\ pc'[p] = "free"
        /\ \A q \in Procs \ {p} : writable'[q] = writable[q] /\ pc'[q] = pc[q]
    BY <2>1, <2>2 DEF TypeOK, Pc
  <2>8. TypeOK'
    BY Zenon, <2>1, <2>2, <2>5, <2>6, <2>7 DEF TypeOK
  <2>9. \A x \in Frames : refs'[x] = Total(map', Counted', frame', x)
    <3> SUFFICES ASSUME NEW x \in Frames PROVE refs'[x] = Total(map', Counted', frame', x)
      OBVIOUS
    <3>1. Differ(Counted, Counted', p, g) /\ Counted[p][g] = NOFRAME /\ Counted'[p][g] = f
      <4>1. \A h \in Pages : Counted'[p][h] = dir'[p][h] /\ Counted[p][h] = dir[p][h]
        BY <2>1, <2>7, CountedDir
      <4>2. \A q \in Procs \ {p}, h \in Pages : Counted'[q][h] = Counted[q][h]
        BY Zenon, <2>1, <2>5, <2>7, CountedKept
      <4> QED BY Zenon, <2>3, <2>5, <4>1, <4>2 DEF Differ
    <3>2. /\ refs[x] = Occurs(map, x) + Occurs(Counted, x) + Cardinality(Holders(frame, x))
          /\ Occurs(map, x) \in Nat /\ Occurs(Counted, x) \in Nat /\ Cardinality(Holders(frame, x)) \in Nat
      BY Zenon, CountIs
    <3>3. map[p][g] = f
      BY Zenon DEF f
    <3>4. CASE x = f
      <4>1. Occurs(Counted', x) = Occurs(Counted, x) + 1
        BY ZenonT(30), <2>3, <3>1, <3>4, MemAssumption, OccursGain
      <4>2. Occurs(map', x) = Occurs(map, x) - 1
        <5>1. map[p][g] = x /\ map'[p][g] # x
          BY Zenon, <2>6, <3>3, <3>4, MemAssumption
        <5>2. g \in Pages /\ Differ(map, map', p, g)
          BY Zenon, <2>3, <2>6
        <5> QED BY Zenon, <5>1, <5>2, OccursLose
      <4> QED BY <2>1, <3>2, <4>1, <4>2 DEF Total
    <3>5. CASE x # f
      <4>1. Occurs(Counted', x) = Occurs(Counted, x)
        BY Zenon, <2>3, <3>1, <3>5, MemAssumption, OccursKeep
      <4>2. Occurs(map', x) = Occurs(map, x)
        BY SMTT(30), <2>3, <2>6, <3>3, <3>5, MemAssumption, OccursKeep
      <4> QED BY Zenon, <2>1, <3>2, <4>1, <4>2 DEF Total
    <3> QED BY Zenon, <3>4, <3>5
  <2>10. SpaceOk(p)'
    <3>1. Present(map'[p]) = 0 .. (g - 1)
      <4>1. Present(map'[p]) = Present(map[p]) \ {g}
        BY Zenon, <2>3, <2>6 DEF Present
      <4> QED BY <2>3, <4>1
    <3>2. g \in 0 .. NPAGES
      BY <2>3, MemAssumption DEF Pages
    <3>3. Distinct(map'[p])
      BY <2>2, <2>6 DEF SpaceOk, Distinct
    <3>4. Distinct(dir'[p])
      BY Zenon, <2>3, <2>5 DEF Distinct, NoPages
    <3> QED BY Zenon, <3>1, <3>2, <3>3, <3>4 DEF SpaceOk, Contiguous
  <2>11. WriteOk(p)'
    BY <2>1, <2>2, <2>6, <2>7 DEF WriteOk, Present
  <2>12. PcOk(p)'
    BY Zenon, <2>1, <2>2, <2>7 DEF PcOk
  <2>13. child[p] = NOPROC /\ FreeInv'
    BY Zenon, <2>1, <2>2 DEF ChildInv, FreeInv
  <2> QED
    BY Zenon, <2>1, <2>5, <2>6, <2>7, <2>8, <2>9, <2>10, <2>11, <2>12, <2>13, OwnStep
  \* exec() loads one more page into its new directory.
<1>ExecStep.
      ASSUME IInv, NEW p \in Procs, NEW f \in Frames, NEW v \in Values, exec(p, f, v)
      PROVE  IInv'
  <2> USE <1>ExecStep
  <2> DEFINE g == page[p]
  <2>1. /\ pc[p] \in {"user", "exec"} /\ g < NPAGES
        /\ g > 0 => v = data[dir[p][0]]
        /\ kalloc(f, v) /\ f \in free
        /\ dir' = SetEntry(dir, p, g, f)
        /\ page' = [page EXCEPT ![p] = g + 1] /\ pc' = [pc EXCEPT ![p] = "exec"]
        /\ UNCHANGED <<map, writable, frame, child, parent, lock>>
    BY Zenon DEF exec, kalloc, spaces, family, Goto, SetEntry
  <2>2. TypeOK /\ SpaceOk(p) /\ WriteOk(p) /\ PcOk(p) /\ ChildInv
    BY Zenon DEF IInv, ProcInv, CountsExact
  <2>3. /\ refs[f] = 0 /\ Total(map, Counted, frame, f) = 0
        /\ \A q \in Procs : frame[q] # f /\ \A h \in Pages : map[q][h] # f /\ dir[q][h] # f /\ Counted[q][h] # f
    BY Zenon, <2>1, FreshFrame
  <2>4. /\ free' \in SUBSET Frames /\ refs' \in [Frames -> 0 .. 255]
        /\ data' \in [Frames -> Values \cup {JUNK}]
        /\ refs'[f] = 1 /\ data'[f] = v
        /\ \A x \in Frames \ {f} : refs'[x] = refs[x] /\ data'[x] = data[x]
        /\ FreeInv'
    BY Zenon, <2>1, Allocated
  <2>5. g \in Pages /\ g \in Nat /\ Present(dir[p]) = 0 .. (g - 1) /\ dir[p][g] = NOFRAME
    <3>1. g \in Pages /\ g \in Nat /\ g \notin 0 .. (g - 1)
      BY SMTT(30), <2>1, <2>2, MemAssumption DEF TypeOK, Pages
    <3>2. CASE pc[p] = "user"
      <4>1. g = 0 /\ Present(dir[p]) = {}
        BY Zenon, <2>2, <3>2 DEF PcOk, Present, NoPages
      <4> QED BY <3>1, <4>1 DEF Present
    <3>3. CASE pc[p] = "exec"
      BY Zenon, <2>2, <3>1, <3>3 DEF PcOk, Loaded, Present
    <3> QED BY ZenonT(30), <2>1, <3>2, <3>3
  <2> HIDE DEF g
  <2>6. /\ dir' \in [Procs -> Directory] /\ dir'[p][g] = f
        /\ \A q \in Procs \ {p} : dir'[q] = dir[q]
        /\ \A h \in Pages \ {g} : dir'[p][h] = dir[p][h]
        /\ Differ(dir, dir', p, g)
    <3>1. dir \in [Procs -> Directory] /\ f \in Frames \cup {NOFRAME}
      BY Zenon, <2>2 DEF TypeOK
    <3> QED BY <2>1, <2>5, <3>1, EntrySet
  <2>7. /\ pc' \in [Procs -> Pc] /\ page' \in [Procs -> 0 .. NPAGES]
        /\ pc'[p] = "exec" /\ page'[p] = g + 1
        /\ \A q \in Procs \ {p} : pc'[q] = pc[q] /\ page'[q] = page[q]
    <3>1. g + 1 \in 0 .. NPAGES
      BY <2>1, <2>5, MemAssumption
    <3> QED BY ZenonT(30), <2>1, <2>2, <3>1 DEF TypeOK, Pc
  <2>8. TypeOK'
    BY Zenon, <2>1, <2>2, <2>4, <2>6, <2>7 DEF TypeOK
  <2>9. \A x \in Frames : refs'[x] = Total(map', Counted', frame', x)
    <3> SUFFICES ASSUME NEW x \in Frames PROVE refs'[x] = Total(map', Counted', frame', x)
      OBVIOUS
    <3>1. /\ Differ(Counted, Counted', p, g)
          /\ Counted'[p][g] = f /\ Counted[p][g] = NOFRAME
      <4>1. \A h \in Pages : Counted'[p][h] = dir'[p][h] /\ Counted[p][h] = dir[p][h]
        BY SMTT(30), <2>1, <2>7, CountedDir
      <4>2. \A q \in Procs \ {p}, h \in Pages : Counted'[q][h] = Counted[q][h]
        BY ZenonT(30), <2>6, <2>7, CountedKept
      <4> QED BY SMTT(30), <2>5, <2>6, <4>1, <4>2 DEF Differ
    <3>2. CASE x = f
      <4>1. Occurs(Counted', x) = Occurs(Counted, x) + 1
        <5>1. Counted[p][g] # x /\ Counted'[p][g] = x
          BY Zenon, <3>1, <3>2, MemAssumption
        <5> QED BY Zenon, <2>5, <3>1, <5>1, OccursGain
      <4>2. refs[x] = Occurs(map, x) + Occurs(Counted, x) + Cardinality(Holders(frame, x))
            /\ Occurs(map, x) \in Nat /\ Occurs(Counted, x) \in Nat /\ Cardinality(Holders(frame, x)) \in Nat
        BY Zenon, CountIs
      <4> QED BY SMTT(30), <2>1, <2>3, <2>4, <3>2, <4>1, <4>2 DEF Total
    <3>3. CASE x # f
      <4>1. Occurs(Counted', x) = Occurs(Counted, x)
        <5>1. Counted[p][g] # x /\ Counted'[p][g] # x
          BY Zenon, <3>1, <3>3, MemAssumption
        <5> QED BY Zenon, <2>5, <3>1, <5>1, OccursKeep
      <4>2. refs[x] = Total(map, Counted, frame, x)
        BY Zenon, CountIs
      <4> QED BY Zenon, <2>1, <2>4, <3>3, <4>1, <4>2 DEF Total
    <3> QED BY Zenon, <3>2, <3>3
  <2>10. SpaceOk(p)' /\ WriteOk(p)' /\ PcOk(p)'
    <3>1. Present(dir'[p]) = Present(dir[p]) \cup {g}
      BY Zenon, <2>5, <2>6, MemAssumption DEF Present
    <3>2. Present(dir'[p]) = 0 .. (page'[p] - 1) /\ page'[p] > 0
      BY <2>5, <2>7, <3>1
    <3>3. \A h \in Present(dir[p]) :
            data[dir[p][h]] = v /\ refs[dir[p][h]] = 1 /\ dir[p][h] \in Frames \ {f}
      <4>1. \A h \in Present(dir[p]) : dir[p][h] \in Frames \ {f}
        BY SMTT(30), <2>2, <2>3 DEF TypeOK, Directory, Present
      <4>2. CASE g = 0
        BY <2>5, <4>2
      <4>3. CASE g # 0
        <5>1. pc[p] = "exec" /\ g > 0 /\ 0 \in Present(dir[p])
          <6>1. g > 0 /\ 0 \in 0 .. (g - 1)
            BY Zenon, <2>5, <4>3, BelowIt
          <6>2. pc[p] = "exec"
            BY Zenon, <2>1, <2>2, <4>3 DEF PcOk, g
          <6> QED BY Zenon, <2>5, <6>1, <6>2
        <5>2. PICK w \in Values : \A h \in Present(dir[p]) : data[dir[p][h]] = w
          BY Zenon, <2>2, <5>1 DEF PcOk, Loaded
        <5>3. \A h \in Present(dir[p]) : refs[dir[p][h]] = 1
          BY Zenon, <2>2, <5>1 DEF PcOk, Loaded
        <5> QED BY ZenonT(30), <2>1, <4>1, <5>1, <5>2, <5>3
      <4> QED BY Zenon, <4>2, <4>3
    <3>4. \A h \in Present(dir'[p]) : data'[dir'[p][h]] = v /\ refs'[dir'[p][h]] = 1
      BY <2>4, <2>5, <2>6, <3>1, <3>3 DEF Present
    <3>5. Loaded(p)'
      BY ZenonT(30), <3>2, <3>4 DEF Loaded
    <3>6. Distinct(dir'[p])
      <4>1. Distinct(dir[p]) /\ \A h \in Pages \ {g} : dir'[p][h] = dir[p][h] /\ dir[p][h] # dir'[p][g]
        BY Zenon, <2>2, <2>3, <2>6 DEF SpaceOk
      <4> QED BY Zenon, <2>5, <4>1, DistinctSet
    <3>7. SpaceOk(p)'
      BY Zenon, <2>1, <2>2, <3>6 DEF SpaceOk
    <3>8. WriteOk(p)'
      <4> SUFFICES ASSUME NEW h \in writable[p] PROVE h \in Present(map[p]) /\ refs'[map[p][h]] = 1
        BY Zenon, <2>1 DEF WriteOk
      <4>1. h \in Present(map[p]) /\ refs[map[p][h]] = 1 /\ h \in Pages
        BY Zenon, <2>2 DEF WriteOk, Present
      <4>2. map[p][h] \in Frames \ {f}
        BY <2>2, <2>3, <4>1 DEF TypeOK, Directory, Present
      <4> QED BY Zenon, <2>4, <4>1, <4>2
    <3>9. PcOk(p)'
      BY Zenon, <2>1, <2>2, <2>7, <3>5 DEF PcOk
    <3> QED BY Zenon, <3>7, <3>8, <3>9
  <2>11. /\ \A x \in Frames : refs'[x] # refs[x] \/ data'[x] # data[x] => refs[x] = 0 \/ Uses(p, x)
         /\ \A x \in Frames : data'[x] # data[x] => refs[x] =< 1
    BY <2>3, <2>4
  <2>12. child[p] = NOPROC
    BY Zenon, <2>1, <2>2 DEF ChildInv
  <2> QED
    BY Zenon, <2>1, <2>4, <2>6, <2>7, <2>8, <2>9, <2>10, <2>11, <2>12, OwnStep
  \* exec() fails: its directory is given up.
<1>ExecBadStep.
      ASSUME IInv, NEW p \in Procs, exec_bad(p)
      PROVE  IInv'
  <2> USE <1>ExecBadStep
  <2>1. /\ pc[p] = "exec"
        /\ page' = [page EXCEPT ![p] = 0] /\ pc' = [pc EXCEPT ![p] = "free"]
        /\ UNCHANGED <<free, refs, data, map, writable, dir, frame, child, parent, lock>>
    BY Zenon DEF exec_bad, kmem, spaces, family, Goto
  <2>2. TypeOK /\ SpaceOk(p) /\ WriteOk(p) /\ PcOk(p) /\ FreeInv /\ ChildInv
    BY Zenon DEF IInv, ProcInv, CountsExact
  <2>3. /\ pc'[p] = "free" /\ page'[p] = 0
        /\ \A q \in Procs \ {p} : pc'[q] = pc[q] /\ page'[q] = page[q]
    BY <2>1, <2>2 DEF TypeOK
  <2>4. TypeOK'
    <3>1. pc' \in [Procs -> Pc] /\ page' \in [Procs -> 0 .. NPAGES]
      BY <2>1, <2>2, MemAssumption DEF TypeOK, Pc
    <3> QED BY Zenon, <2>1, <2>2, <3>1 DEF TypeOK
  <2>5. \A f \in Frames : refs'[f] = Total(map', Counted', frame', f)
    <3>1. \A q \in Procs, h \in Pages : Counted'[q][h] = Counted[q][h]
      BY <2>1, <2>3, CountedKept, CountedDir
    <3> QED BY Zenon, <2>1, <3>1, SameTotal
  <2>6. SpaceOk(p)' /\ WriteOk(p)' /\ PcOk(p)'
    BY Zenon, <2>1, <2>2, <2>3 DEF SpaceOk, WriteOk, PcOk
  <2>7. child[p] = NOPROC /\ FreeInv'
    BY Zenon, <2>1, <2>2 DEF ChildInv, FreeInv
  <2> QED
    BY Zenon, <2>1, <2>3, <2>4, <2>5, <2>6, <2>7, OwnStep
  \* The new image of exec() becomes the address space, the old one is given up.
<1>ExecCommitStep.
      ASSUME IInv, NEW p \in Procs, exec_commit(p)
      PROVE  IInv'
  <2> USE <1>ExecCommitStep
  <2>1. /\ pc[p] = "exec"
        /\ map' = [map EXCEPT ![p] = dir[p]] /\ dir' = [dir EXCEPT ![p] = map[p]]
        /\ writable' = [writable EXCEPT ![p] = Present(dir[p])]
        /\ pc' = [pc EXCEPT ![p] = "free"] /\ page' = [page EXCEPT ![p] = 0]
        /\ UNCHANGED <<free, refs, data, frame, child, parent, lock>>
    BY Zenon DEF exec_commit, kmem, family, Goto
  <2>2. TypeOK /\ SpaceOk(p) /\ WriteOk(p) /\ PcOk(p) /\ ChildInv /\ FreeInv
    BY Zenon DEF IInv, ProcInv, CountsExact
  <2>3. /\ map'[p] = dir[p] /\ dir'[p] = map[p] /\ writable'[p] = Present(dir[p])
        /\ pc'[p] = "free" /\ page'[p] = 0
        /\ \A q \in Procs \ {p} : /\ map'[q] = map[q] /\ dir'[q] = dir[q] /\ writable'[q] = writable[q]
                                  /\ pc'[q] = pc[q] /\ page'[q] = page[q]
    BY <2>1, <2>2 DEF TypeOK
  <2>4. TypeOK'
    <3>1. map' \in [Procs -> Directory] /\ dir' \in [Procs -> Directory]
      BY Zenon, <2>1, <2>2 DEF TypeOK
    <3>2. Present(dir[p]) \in SUBSET Pages
      BY Zenon DEF Present
    <3>3. writable' \in [Procs -> SUBSET Pages]
      BY Zenon, <2>1, <2>2, <3>2 DEF TypeOK
    <3>4. pc' \in [Procs -> Pc] /\ page' \in [Procs -> 0 .. NPAGES]
      BY <2>1, <2>2, MemAssumption DEF TypeOK, Pc
    <3> QED BY Zenon, <2>1, <2>2, <3>1, <3>3, <3>4 DEF TypeOK
  <2>5. \A x \in Frames : refs'[x] = Total(map', Counted', frame', x)
    <3> SUFFICES ASSUME NEW x \in Frames PROVE refs'[x] = Total(map', Counted', frame', x)
      OBVIOUS
    <3>1. \A h \in Pages : Counted'[p][h] = map[p][h] /\ Counted[p][h] = dir[p][h]
      BY <2>1, <2>3, CountedDir
    <3>2. \A q \in Procs \ {p}, h \in Pages : Counted'[q][h] = Counted[q][h]
      BY Zenon, <2>1, <2>3, CountedKept
    <3>3. InDir(Counted[p], x) = InDir(dir[p], x) /\ InDir(Counted'[p], x) = InDir(map[p], x)
      BY <3>1, InDirSame
    <3>4. /\ InDir(Counted[p], x) \in Nat /\ InDir(Counted'[p], x) \in Nat
          /\ Occurs(Counted', x) = Occurs(Counted, x) - InDir(Counted[p], x) + InDir(Counted'[p], x)
      <4>1. RowsKept(Counted, Counted', p)
        BY Zenon, <3>2 DEF RowsKept
      <4> QED BY <4>1, RowChanged
    <3>5. /\ InDir(map[p], x) \in Nat /\ InDir(map'[p], x) \in Nat
          /\ Occurs(map', x) = Occurs(map, x) - InDir(map[p], x) + InDir(map'[p], x)
      <4>1. RowsKept(map, map', p)
        BY Zenon, <2>3 DEF RowsKept
      <4> QED BY <4>1, RowChanged
    <3>6. /\ refs[x] = Occurs(map, x) + Occurs(Counted, x) + Cardinality(Holders(frame, x))
          /\ Occurs(map, x) \in Nat /\ Occurs(Counted, x) \in Nat /\ Cardinality(Holders(frame, x)) \in Nat
      BY Zenon, CountIs
    <3> QED BY SMTT(30), <2>1, <2>3, <3>3, <3>4, <3>5, <3>6 DEF Total
  <2>6. Loaded(p) /\ page[p] \in 0 .. NPAGES
    BY Zenon, <2>1, <2>2 DEF PcOk, TypeOK
  <2>7. SpaceOk(p)'
    BY Zenon, <2>2, <2>3, <2>6 DEF SpaceOk, Loaded, Contiguous
  <2>8. WriteOk(p)'
    BY <2>1, <2>3, <2>6 DEF WriteOk, Loaded
  <2>9. PcOk(p)'
    BY Zenon, <2>1, <2>2, <2>3 DEF PcOk
  <2>10. child[p] = NOPROC /\ FreeInv'
    BY Zenon, <2>1, <2>2 DEF ChildInv, FreeInv
  <2> QED
    BY Zenon, <2>1, <2>3, <2>4, <2>5, <2>7, <2>8, <2>9, <2>10, OwnStep
  \* refcount() in deallocuvm(): a count of 1 is that of the directory given up.
<1>DeallocStep.
      ASSUME IInv, NEW p \in Procs, dealloc(p)
      PROVE  IInv'
  <2> USE <1>DeallocStep
  <2> DEFINE g == Min(Present(dir[p]))
  <2>1. /\ pc[p] = "free" /\ Present(dir[p]) # {}
        /\ page' = [page EXCEPT ![p] = g]
        /\ \/ refs[dir[p][page'[p]]] = 1 /\ pc' = [pc EXCEPT ![p] = "kfree"]
           \/ pc' = [pc EXCEPT ![p] = "drop"]
        /\ UNCHANGED <<free, refs, data, map, writable, dir, frame, child, parent, lock>>
    BY Zenon DEF dealloc, Last, kmem, spaces, family, Goto
  <2>2. TypeOK /\ SpaceOk(p) /\ WriteOk(p) /\ PcOk(p) /\ FreeInv /\ ChildInv
    BY Zenon DEF IInv, ProcInv, CountsExact
  <2>3. g \in Present(dir[p]) /\ g \in Pages
    <3>1. Present(dir[p]) \in SUBSET Nat
      BY MemAssumption DEF Present, Pages
    <3>2. g \in Present(dir[p])
      BY Zenon, <2>1, <3>1, MinIn
    <3> QED BY Zenon, <3>2 DEF Present
  <2> HIDE DEF g
  <2>4. /\ pc'[p] \in {"kfree", "drop"} /\ page'[p] = g
        /\ pc'[p] = "kfree" => refs[dir[p][g]] = 1
        /\ \A q \in Procs \ {p} : pc'[q] = pc[q] /\ page'[q] = page[q]
    BY <2>1, <2>2 DEF TypeOK
  <2>5. TypeOK'
    <3>1. pc' \in [Procs -> Pc] /\ page' \in [Procs -> 0 .. NPAGES]
      BY <2>1, <2>2, <2>3, MemAssumption DEF TypeOK, Pc, Pages
    <3> QED BY Zenon, <2>1, <2>2, <3>1 DEF TypeOK
  <2>6. \A f \in Frames : refs'[f] = Total(map', Counted', frame', f)
    <3>1. \A q \in Procs, h \in Pages : Counted'[q][h] = Counted[q][h]
      BY <2>1, <2>4, CountedKept, CountedDir
    <3> QED BY Zenon, <2>1, <3>1, SameTotal
  <2>7. SpaceOk(p)' /\ WriteOk(p)' /\ PcOk(p)'
    BY Zenon, <2>1, <2>2, <2>3, <2>4 DEF SpaceOk, WriteOk, PcOk
  <2>8. FreeInv'
    BY Zenon, <2>1, <2>2 DEF FreeInv
  <2> QED
    BY Zenon, <2>1, <2>4, <2>5, <2>6, <2>7, <2>8, OwnStep
  \* deallocuvm() gives one page up: with the last reference the frame is freed.
<1>DeallocPageStep.
      ASSUME IInv, NEW p \in Procs, dealloc_page(p)
      PROVE  IInv'
  <2> USE <1>DeallocPageStep
  <2> DEFINE g == page[p]
             f == dir[p][g]
  <2>1. /\ \/ pc[p] = "kfree" /\ kfree(f)
           \/ pc[p] = "drop" /\ decref(f)
        /\ dir' = SetEntry(dir, p, g, NOFRAME)
        /\ page' = [page EXCEPT ![p] = 0] /\ pc' = [pc EXCEPT ![p] = "free"]
        /\ UNCHANGED <<map, writable, frame, child, parent, lock>>
    BY Zenon DEF dealloc_page, SetEntry, spaces, family, Goto
  <2>2. TypeOK /\ SpaceOk(p) /\ WriteOk(p) /\ PcOk(p) /\ ChildInv /\ FreeInv
    BY Zenon DEF IInv, ProcInv, CountsExact
  <2>3. g \in Pages /\ f \in Frames /\ f # NOFRAME /\ ~Pending(p, g)
    <3>1. g \in Present(dir[p]) /\ ~Pending(p, g)
      BY Zenon, <2>1, <2>2 DEF PcOk, Pending
    <3>2. dir[p] \in [Pages -> Frames \cup {NOFRAME}]
      BY Zenon, <2>2 DEF TypeOK, Directory
    <3>3. g \in Pages /\ f # NOFRAME
      BY Zenon, <3>1 DEF Present
    <3> QED BY Zenon, <3>1, <3>2, <3>3
  <2>4. Uses(p, f) /\ refs[f] >= 1 /\ \A h \in Pages : map[p][h] = f => refs[f] >= 2
    BY <2>3, Sharing DEF Uses
  <2>5. pc[p] = "kfree" => refs[f] = 1
    BY Zenon, <2>2 DEF PcOk
  <2> HIDE DEF f
  <2>6. /\ free' \in SUBSET Frames /\ refs' \in [Frames -> 0 .. 255]
        /\ data' \in [Frames -> Values \cup {JUNK}]
        /\ refs'[f] = refs[f] - 1
        /\ \A x \in Frames \ {f} : refs'[x] = refs[x] /\ data'[x] = data[x]
        /\ data'[f] # data[f] => refs[f] = 1
        /\ FreeInv'
    <3>1. CASE pc[p] = "kfree" /\ kfree(f)
      <4>1. /\ free' = free \cup {f} /\ refs' = [refs EXCEPT ![f] = 0]
            /\ data' = [data EXCEPT ![f] = JUNK]
        BY Zenon, <3>1 DEF kfree
      <4>2. /\ free' \in SUBSET Frames /\ refs' \in [Frames -> 0 .. 255]
            /\ data' \in [Frames -> Values \cup {JUNK}]
        BY <2>2, <2>3, <4>1 DEF TypeOK
      <4>3. refs'[f] = 0 /\ \A x \in Frames \ {f} : refs'[x] = refs[x] /\ data'[x] = data[x]
        BY <2>2, <2>3, <4>1 DEF TypeOK
      <4>4. FreeInv'
        BY Zenon, <2>2, <4>1, <4>3 DEF FreeInv, TypeOK
      <4> QED BY <2>5, <3>1, <4>2, <4>3, <4>4
    <3>2. CASE pc[p] = "drop" /\ decref(f)
      <4>1. /\ refs' \in [Frames -> 0 .. 255] /\ refs'[f] = refs[f] - 1
            /\ \A x \in Frames \ {f} : refs'[x] = refs[x]
            /\ FreeInv' /\ free' = free /\ data' = data
        BY Zenon, <2>3, <2>4, <3>2, Decremented
      <4> QED BY Zenon, <2>2, <4>1 DEF TypeOK
    <3> QED BY Zenon, <2>1, <3>1, <3>2
  <2>7. /\ dir' \in [Procs -> Directory] /\ dir'[p][g] = NOFRAME
        /\ \A q \in Procs \ {p} : dir'[q] = dir[q]
        /\ \A h \in Pages \ {g} : dir'[p][h] = dir[p][h]
    <3>1. dir \in [Procs -> Directory]
      BY Zenon, <2>2 DEF TypeOK
    <3> HIDE DEF g
    <3> QED BY <2>1, <2>3, <3>1, EntrySet
  <2> HIDE DEF g
  <2>8. /\ pc' \in [Procs -> Pc] /\ page' \in [Procs -> 0 .. NPAGES]
        /\ pc'[p] = "free" /\ page'[p] = 0
        /\ \A q \in Procs \ {p} : pc'[q] = pc[q] /\ page'[q] = page[q]
    BY <2>1, <2>2, MemAssumption DEF TypeOK, Pc
  <2>9. TypeOK'
    BY Zenon, <2>1, <2>2, <2>6, <2>7, <2>8 DEF TypeOK
  <2>10. \A x \in Frames : refs'[x] = Total(map', Counted', frame', x)
    <3> SUFFICES ASSUME NEW x \in Frames PROVE refs'[x] = Total(map', Counted', frame', x)
      OBVIOUS
    <3>1. Differ(Counted, Counted', p, g) /\ Counted[p][g] = f /\ Counted'[p][g] = NOFRAME
      <4>1. \A h \in Pages : Counted'[p][h] = dir'[p][h] /\ Counted[p][h] = dir[p][h]
        BY Zenon, <2>1, <2>8, CountedDir
      <4>2. \A q \in Procs \ {p}, h \in Pages : Counted'[q][h] = Counted[q][h]
        BY Zenon, <2>7, <2>8, CountedKept
      <4>3. Counted[p][g] = f
        BY Zenon, <2>3, <4>1 DEF f
      <4> QED BY <2>3, <2>7, <4>1, <4>2, <4>3 DEF Differ
    <3>2. /\ refs[x] = Occurs(map, x) + Occurs(Counted, x) + Cardinality(Holders(frame, x))
          /\ Occurs(map, x) \in Nat /\ Occurs(Counted, x) \in Nat /\ Cardinality(Holders(frame, x)) \in Nat
      BY Zenon, CountIs
    <3>3. CASE x = f
      <4>1. Occurs(Counted', x) = Occurs(Counted, x) - 1
        <5>1. Counted[p][g] = x /\ Counted'[p][g] # x
          BY Zenon, <2>3, <3>1, <3>3
        <5> QED BY Zenon, <2>3, <3>1, <5>1, OccursLose
      <4> QED BY SMTT(30), <2>1, <2>6, <3>2, <3>3, <4>1 DEF Total
    <3>4. CASE x # f
      <4>1. Occurs(Counted', x) = Occurs(Counted, x)
        BY Zenon, <2>3, <3>1, <3>4, MemAssumption, OccursKeep
      <4> QED BY Zenon, <2>1, <2>6, <3>2, <3>4, <4>1 DEF Total
    <3> QED BY Zenon, <3>3, <3>4
  <2>11. SpaceOk(p)'
    BY <2>1, <2>2, <2>7 DEF SpaceOk, Distinct
  <2>12. WriteOk(p)'
    <3> SUFFICES ASSUME NEW h \in writable[p] PROVE h \in Present(map[p]) /\ refs'[map[p][h]] = 1
      BY Zenon, <2>1 DEF WriteOk
    <3>1. h \in Present(map[p]) /\ refs[map[p][h]] = 1 /\ h \in Pages
      BY Zenon, <2>2 DEF WriteOk, Present
    <3>2. map[p][h] \in Frames \ {f}
      BY <2>2, <2>4, <3>1 DEF TypeOK, Directory, Present
    <3> QED BY Zenon, <2>6, <3>1, <3>2
  <2>13. PcOk(p)'
    BY Zenon, <2>1, <2>2, <2>8 DEF PcOk
  <2>14. /\ \A x \in Frames : refs'[x] # refs[x] \/ data'[x] # data[x] => refs[x] = 0 \/ Uses(p, x)
         /\ \A x \in Frames : data'[x] # data[x] => refs[x] =< 1
    BY Zenon, <2>4, <2>6
  <2> QED
    BY Zenon, <2>1, <2>6, <2>7, <2>8, <2>9, <2>10, <2>11, <2>12, <2>13, <2>14, OwnStep
  \* The call that gave a directory up returns; the slot of a child is free.
<1>DeallocDoneStep.
      ASSUME IInv, NEW p \in Procs, dealloc_done(p)
      PROVE  IInv'
  <2> USE <1>DeallocDoneStep
  <2>1. /\ pc[p] = "free" /\ Present(dir[p]) = {}
        /\ pc' = [q \in Procs |-> IF q = p THEN "user" ELSE IF q = child[p] THEN "unused" ELSE pc[q]]
        /\ child' = [child EXCEPT ![p] = NOPROC]
        /\ lock' = (IF lock = p THEN NOPROC ELSE lock)
        /\ page' = [page EXCEPT ![p] = 0]
        /\ UNCHANGED <<free, refs, data, map, writable, dir, frame, parent>>
    BY Zenon DEF dealloc_done, kmem, spaces
  <2>2. TypeOK /\ SpaceOk(p) /\ WriteOk(p) /\ PcOk(p) /\ ChildInv
    BY Zenon DEF IInv, ProcInv, CountsExact
  <2>3. /\ pc'[p] = "user" /\ page'[p] = 0 /\ child'[p] = NOPROC
        /\ \A q \in Procs \ {p} : page'[q] = page[q] /\ child'[q] = child[q]
        /\ \A q \in Procs \ {p} : pc'[q] = (IF q = child[p] THEN "unused" ELSE pc[q])
    BY Zenon, <2>1, <2>2 DEF TypeOK
  <2>4. TypeOK'
    <3>1. pc' \in [Procs -> Pc] /\ child' \in [Procs -> Procs \cup {NOPROC}]
      BY Zenon, <2>1, <2>2 DEF TypeOK, Pc
    <3>2. page' \in [Procs -> 0 .. NPAGES] /\ lock' \in Procs \cup {NOPROC}
      BY <2>1, <2>2, MemAssumption DEF TypeOK
    <3> QED BY Zenon, <2>1, <2>2, <3>1, <3>2 DEF TypeOK
  <2>5. dir[p] = NoPages
    <3>1. dir[p] \in [Pages -> Frames \cup {NOFRAME}] /\ \A g \in Pages : dir[p][g] = NOFRAME
      BY Zenon, <2>1, <2>2 DEF TypeOK, Directory, Present
    <3> QED BY Zenon, <3>1 DEF NoPages
  <2>6. child[p] # NOPROC => child[p] \in Procs \ {p} /\ pc[child[p]] \in {"embryo", "zombie"}
    BY Zenon, <2>1, <2>2 DEF ChildInv, TypeOK
  <2>7. \A f \in Frames : refs'[f] = Total(map', Counted', frame', f)
    <3>1. \A q \in Procs : (pc[q] # "incref" /\ pc'[q] # "incref") \/ (q # p /\ pc'[q] = pc[q])
      <4> SUFFICES ASSUME NEW q \in Procs \ {p}
                   PROVE  (pc[q] # "incref" /\ pc'[q] # "incref") \/ pc'[q] = pc[q]
        BY Zenon, <2>1, <2>3
      <4>1. CASE q = child[p]
        <5>1. pc[q] \in {"embryo", "zombie"} /\ pc'[q] = "unused"
          BY Zenon, <2>3, <2>6, <4>1, MemAssumption
        <5> QED BY Zenon, <5>1
      <4>2. CASE q # child[p]
        BY Zenon, <2>3, <4>2
      <4> QED BY Zenon, <4>1, <4>2
    <3>2. \A q \in Procs, h \in Pages : Counted'[q][h] = Counted[q][h]
      BY SMTT(30), <2>1, <2>3, <3>1, CountedKept, CountedDir
    <3> QED BY Zenon, <2>1, <3>2, SameTotal
  <2>8. SpaceOk(p)' /\ WriteOk(p)' /\ PcOk(p)'
    BY ZenonT(30), <2>1, <2>2, <2>3, <2>5 DEF SpaceOk, WriteOk, PcOk
  <2>9. ChildInv'
    <3>1. \A q \in Procs \ {p} : child[q] # NOPROC => child[q] \in Procs \ {p, child[p]}
      BY Zenon, <2>1, <2>2 DEF ChildInv, TypeOK
    <3>2. \A q \in Procs \ {p} : pc'[q] = pc[q] \/ (pc'[q] = "unused" /\ child[q] = NOPROC)
      <4>1. child[p] # NOPROC => child[child[p]] = NOPROC
        BY Zenon, <2>2, <2>6 DEF ChildInv
      <4> QED BY Zenon, <2>3, <4>1, MemAssumption
    <3>3. \A q \in Procs \ {p} : child[q] # NOPROC => pc'[child[q]] = pc[child[q]]
      BY ZenonT(30), <2>3, <3>1
    <3> SUFFICES ASSUME NEW q \in Procs
                 PROVE  /\ pc'[q] \notin {"fork", "incref", "free", "kfree", "drop"} => child'[q] = NOPROC
                        /\ pc'[q] \in {"fork", "incref"} => child'[q] # NOPROC /\ pc'[child'[q]] = "embryo"
                        /\ child'[q] # NOPROC =>
                             /\ map'[child'[q]] = NoPages
                             /\ \/ pc'[child'[q]] = "embryo"
                                \/ pc'[child'[q]] = "zombie" /\ parent'[child'[q]] = NOPROC
                             /\ \A x \in Procs : child'[x] = child'[q] => x = q
      BY Zenon DEF ChildInv, NoPages
    <3>4. CASE q = p
      BY Zenon, <2>3, <3>4
    <3>5. CASE q # p /\ child[q] = NOPROC
      <4>1. child'[q] = NOPROC /\ pc[q] \notin {"fork", "incref"}
        BY Zenon, <2>2, <2>3, <3>5 DEF ChildInv
      <4>2. pc'[q] \notin {"fork", "incref"}
        BY Zenon, <3>2, <3>5, <4>1
      <4> QED BY Zenon, <4>1, <4>2
    <3>6. CASE q # p /\ child[q] # NOPROC
      <4>1. child'[q] = child[q] /\ pc'[q] = pc[q] /\ pc'[child[q]] = pc[child[q]]
        BY Zenon, <2>3, <3>2, <3>3, <3>6
      <4>2. /\ pc[q] \notin {"fork", "incref", "free", "kfree", "drop"} => child[q] = NOPROC
            /\ pc[q] \in {"fork", "incref"} => pc[child[q]] = "embryo"
            /\ map[child[q]] = NoPages
            /\ pc[child[q]] = "embryo" \/ (pc[child[q]] = "zombie" /\ parent[child[q]] = NOPROC)
            /\ \A x \in Procs : child[x] = child[q] => x = q
        BY Zenon, <2>2, <3>6 DEF ChildInv
      <4>3. \A x \in Procs : child'[x] = child[q] => x = q
        BY Zenon, <2>3, <3>6, <4>2
      <4> QED BY Zenon, <2>1, <3>6, <4>1, <4>2, <4>3
    <3> QED BY Zenon, <3>4, <3>5, <3>6
  <2>10. CASE child[p] = NOPROC
    <3>1. \A q \in Procs \ {p} : pc'[q] = pc[q]
      BY Zenon, <2>3, <2>10, MemAssumption
    <3>2. \A q \in Procs \ {p, p} :
             /\ map'[q] = map[q] /\ dir'[q] = dir[q] /\ writable'[q] = writable[q]
             /\ pc'[q] = pc[q] /\ page'[q] = page[q] /\ frame'[q] = frame[q]
      BY Zenon, <2>1, <2>3, <3>1
    <3> QED BY Zenon, <2>1, <2>4, <2>7, <2>8, <2>9, <3>2, PairStep
  <2>11. CASE child[p] # NOPROC
    <3>0. PICK c \in Procs : c = child[p]
      BY Zenon, <2>6, <2>11
    <3>1. c \in Procs \ {p} /\ pc[c] \in {"embryo", "zombie"} /\ map[c] = NoPages /\ pc'[c] = "unused"
      BY Zenon, <2>1, <2>2, <2>6, <2>11, <3>0 DEF ChildInv
    <3>2. SpaceOk(c) /\ WriteOk(c) /\ PcOk(c)
      BY Zenon, <3>1 DEF IInv, ProcInv
    <3>3. SpaceOk(c)' /\ WriteOk(c)' /\ PcOk(c)'
      <4>1. SpaceOk(c)' /\ WriteOk(c)'
        BY Zenon, <2>1, <3>2 DEF SpaceOk, WriteOk
      <4>2. page'[c] = page[c]
        BY Zenon, <2>3, <3>1
      <4>3. page[c] = 0 /\ dir[c] = NoPages /\ frame[c] = NOFRAME
        BY Zenon, <3>1, <3>2 DEF PcOk
      <4> QED BY Zenon, <2>1, <3>1, <4>1, <4>2, <4>3 DEF PcOk
    <3>4. \A q \in Procs \ {p, c} : pc'[q] = pc[q] /\ page'[q] = page[q]
      BY Zenon, <2>3, <3>0
    <3>5. UNCHANGED <<free, refs, data>> /\ c \in Procs
          /\ \A q \in Procs \ {p, c} :
               /\ map'[q] = map[q] /\ dir'[q] = dir[q] /\ writable'[q] = writable[q]
               /\ pc'[q] = pc[q] /\ page'[q] = page[q] /\ frame'[q] = frame[q]
      BY Zenon, <2>1, <3>1, <3>4
    <3> QED BY Zenon, <2>4, <2>7, <2>8, <2>9, <3>3, <3>5, PairStep
  <2> QED BY Zenon, <2>10, <2>11
<1> QED
  BY Zenon, <1>GrowStep, <1>ShrinkStep, <1>ExecStep, <1>ExecBadStep, <1>ExecCommitStep, <1>DeallocStep, <1>DeallocPageStep, <1>DeallocDoneStep

\* At the end of cowuvm() the directory built is a copy of the parent's.
LEMMA ForkCopied ==
  ASSUME SetLaws, IInv, NEW p \in Procs, pc[p] = "fork", page[p] = Size(p)
  PROVE  \A g \in Pages : dir[p][g] = map[p][g]
<1>1. \A g \in Pages : dir[p][g] = IF g < page[p] THEN map[p][g] ELSE NOFRAME
  BY Zenon DEF IInv, ProcInv, PcOk, Copied, Pending
<1>2. Size(p) \in 0 .. NPAGES /\ Present(map[p]) = 0 .. (Size(p) - 1)
  BY Zenon, SizeIs
<1>3. \A g \in Pages : g < Size(p) <=> g \in Present(map[p])
  BY <1>2, MemAssumption DEF Pages
<1>4. \A g \in Pages : ~(g < Size(p)) => map[p][g] = NOFRAME
  BY Zenon, <1>3 DEF Present
<1> QED
  BY Zenon, <1>1, <1>4

\* fork(), exit() and wait() keep it.
LEMMA ForkSteps ==
  ASSUME SetLaws
  PROVE  \A p \in Procs :
           IInv /\ (\/ \E c \in Procs : fork(p, c) \/ wait(p, c)
                    \/ cow_map(p) \/ cow_incref(p) \/ fork_done(p) \/ exit(p)) => IInv'
  \* fork() takes a free slot for the child.
<1>ForkStep.
      ASSUME IInv, NEW p \in Procs, NEW c \in Procs, fork(p, c)
      PROVE  IInv'
  <2> USE <1>ForkStep
  <2>1. /\ pc[p] = "user" /\ pc[c] = "unused"
        /\ pc' = [pc EXCEPT ![p] = "fork", ![c] = "embryo"]
        /\ child' = [child EXCEPT ![p] = c]
        /\ UNCHANGED <<free, refs, data, map, writable, dir, page, frame, parent, lock>>
    BY Zenon DEF fork, kmem, spaces, family
  <2>2. TypeOK /\ SpaceOk(p) /\ WriteOk(p) /\ PcOk(p) /\ SpaceOk(c) /\ WriteOk(c) /\ PcOk(c) /\ ChildInv
    BY Zenon DEF IInv, ProcInv, CountsExact
  <2>3. /\ pc'[p] = "fork" /\ pc'[c] = "embryo" /\ child'[p] = c /\ p # c
        /\ \A q \in Procs \ {p, c} : pc'[q] = pc[q]
        /\ \A q \in Procs \ {p} : child'[q] = child[q]
    BY <2>1, <2>2 DEF TypeOK
  <2>4. TypeOK'
    <3>1. pc' \in [Procs -> Pc] /\ child' \in [Procs -> Procs \cup {NOPROC}]
      BY Zenon, <2>1, <2>2 DEF TypeOK, Pc
    <3> QED BY Zenon, <2>1, <2>2, <3>1 DEF TypeOK
  <2>5. \A f \in Frames : refs'[f] = Total(map', Counted', frame', f)
    <3>1. \A q \in Procs \ {p, c}, h \in Pages : Counted'[q][h] = Counted[q][h]
      BY Zenon, <2>1, <2>3, CountedKept
    <3>2. \A h \in Pages : Counted'[p][h] = Counted[p][h] /\ Counted'[c][h] = Counted[c][h]
      <4>1. \A h \in Pages : Counted'[p][h] = dir'[p][h] /\ Counted[p][h] = dir[p][h]
        BY Zenon, <2>1, <2>3, CountedDir
      <4>2. \A h \in Pages : Counted'[c][h] = dir'[c][h] /\ Counted[c][h] = dir[c][h]
        BY Zenon, <2>1, <2>3, CountedDir
      <4> QED BY Zenon, <2>1, <4>1, <4>2
    <3> QED BY Zenon, <2>1, <3>1, <3>2, SameTotal
  <2>6. dir[p] = NoPages /\ page[p] = 0 /\ map[c] = NoPages /\ page[c] = 0 /\ dir[c] = NoPages
    BY Zenon, <2>1, <2>2 DEF PcOk
  <2>7. Copied(p)'
    BY SMTT(30), <2>1, <2>3, <2>6, MemAssumption DEF Copied, Pending, NoPages, Pages
  <2>8. SpaceOk(p)' /\ WriteOk(p)' /\ PcOk(p)'
    BY Zenon, <2>1, <2>2, <2>3, <2>7 DEF SpaceOk, WriteOk, PcOk
  <2>9. SpaceOk(c)' /\ WriteOk(c)' /\ PcOk(c)'
    BY Zenon, <2>1, <2>2, <2>3, <2>6 DEF SpaceOk, WriteOk, PcOk
  <2>10. ChildInv'
    <3>1. child[p] = NOPROC /\ child[c] = NOPROC /\ c # NOPROC
      BY Zenon, <2>1, <2>2, MemAssumption DEF ChildInv
    <3>2. \A q \in Procs : child[q] # NOPROC => child[q] \in Procs \ {p, c}
      BY ZenonT(30), <2>1, <2>2 DEF ChildInv, TypeOK
    <3> SUFFICES ASSUME NEW q \in Procs
                 PROVE  /\ pc'[q] \notin {"fork", "incref", "free", "kfree", "drop"} => child'[q] = NOPROC
                        /\ pc'[q] \in {"fork", "incref"} => child'[q] # NOPROC /\ pc'[child'[q]] = "embryo"
                        /\ child'[q] # NOPROC =>
                             /\ map'[child'[q]] = NoPages
                             /\ \/ pc'[child'[q]] = "embryo"
                                \/ pc'[child'[q]] = "zombie" /\ parent'[child'[q]] = NOPROC
                             /\ \A r \in Procs : child'[r] = child'[q] => r = q
      BY Zenon DEF ChildInv
    <3>3. CASE q = p
      BY SMTT(30), <2>1, <2>3, <2>6, <3>1, <3>2, <3>3
    <3>4. CASE q = c
      BY Zenon, <2>1, <2>3, <3>1, <3>4
    <3>5. CASE q \notin {p, c}
      <4>1. /\ pc'[q] = pc[q] /\ child'[q] = child[q]
            /\ child[q] # NOPROC => pc'[child[q]] = pc[child[q]] /\ child[q] # c
        BY Zenon, <2>3, <3>2, <3>5
      <4> QED BY SMTT(30), <2>1, <2>2, <2>3, <3>5, <4>1 DEF ChildInv
    <3> QED BY Zenon, <3>3, <3>4, <3>5
  <2> QED
    BY Zenon, <2>1, <2>3, <2>4, <2>5, <2>8, <2>9, <2>10, PairStep
  \* cowuvm() maps the next page into the child, to be counted next, or fails.
<1>CowMapStep.
      ASSUME IInv, NEW p \in Procs, cow_map(p)
      PROVE  IInv'
  <2> USE <1>CowMapStep
  <2>1. /\ pc[p] = "fork" /\ page[p] < Size(p)
        /\ writable' = [writable EXCEPT ![p] = @ \ {page[p]}]
        /\ \/ /\ dir' = [dir EXCEPT ![p][page[p]] = map[p][page[p]]]
              /\ pc' = [pc EXCEPT ![p] = "incref"]
           \/ dir' = dir /\ pc' = [pc EXCEPT ![p] = "free"]
        /\ UNCHANGED <<free, refs, data, map, page, frame, child, parent, lock>>
    BY Zenon DEF cow_map, Protected, kmem, call, family, Goto
  <2>2. TypeOK /\ SpaceOk(p) /\ WriteOk(p) /\ PcOk(p) /\ FreeInv /\ ChildInv
    BY Zenon DEF IInv, ProcInv, CountsExact
  <2>3. page[p] \in Present(map[p]) /\ page[p] \in Pages /\ page[p] \in Nat
    <3>1. page[p] \in 0 .. NPAGES /\ Size(p) \in 0 .. NPAGES /\ Present(map[p]) = 0 .. (Size(p) - 1)
      BY Zenon, <2>2, SizeIs DEF TypeOK
    <3>2. page[p] \in 0 .. (Size(p) - 1) /\ page[p] \in Nat
      BY SMTT(30), <2>1, <3>1, MemAssumption
    <3> QED BY Zenon, <3>1, <3>2 DEF Present
  <2>4. /\ writable'[p] = writable[p] \ {page[p]}
        /\ \A q \in Procs \ {p} : pc'[q] = pc[q] /\ dir'[q] = dir[q] /\ writable'[q] = writable[q]
        /\ \A h \in Pages \ {page[p]} : dir'[p][h] = dir[p][h]
        /\ \/ pc'[p] = "free" /\ dir'[p] = dir[p]
           \/ pc'[p] = "incref" /\ dir'[p][page[p]] = map[p][page[p]]
    BY <2>1, <2>2, <2>3 DEF TypeOK, Directory
  <2>5. Copied(p) /\ \A h \in Pages : dir[p][h] = IF h < page[p] THEN map[p][h] ELSE NOFRAME
    BY Zenon, <2>1, <2>2 DEF PcOk, Copied, Pending
  <2>6. TypeOK'
    <3>1. pc' \in [Procs -> Pc] /\ writable' \in [Procs -> SUBSET Pages]
      BY Zenon, <2>1, <2>2 DEF TypeOK, Pc
    <3>2. dir' \in [Procs -> Directory]
      <4>1. dir \in [Procs -> Directory] /\ map[p][page[p]] \in Frames \cup {NOFRAME}
        BY <2>2, <2>3 DEF TypeOK, Directory
      <4>2. CASE dir' = dir
        BY Zenon, <4>1, <4>2
      <4>3. CASE dir' = [dir EXCEPT ![p][page[p]] = map[p][page[p]]]
        <5>1. dir' = SetEntry(dir, p, page[p], map[p][page[p]])
          BY Zenon, <4>3 DEF SetEntry
        <5> QED BY Zenon, <2>3, <4>1, <5>1, EntrySet
      <4> QED BY Zenon, <2>1, <4>2, <4>3
    <3> QED BY Zenon, <2>1, <2>2, <3>1, <3>2 DEF TypeOK
  <2>7. \A f \in Frames : refs'[f] = Total(map', Counted', frame', f)
    <3>1. \A q \in Procs \ {p}, h \in Pages : Counted'[q][h] = Counted[q][h]
      BY Zenon, <2>1, <2>4, CountedKept
    <3>2. \A h \in Pages : Counted'[p][h] = Counted[p][h]
      BY <2>1, <2>3, <2>4, <2>5 DEF Counted, Pending
    <3> QED BY Zenon, <2>1, <3>1, <3>2, SameTotal
  <2>8. SpaceOk(p)' /\ WriteOk(p)' /\ PcOk(p)'
    <3>1. Copied(p)' \/ pc'[p] = "free"
      BY Zenon, <2>1, <2>4, <2>5 DEF Copied, Pending
    <3>2. Distinct(dir'[p])
      <4>1. CASE dir'[p] = dir[p]
        BY Zenon, <2>2, <4>1 DEF SpaceOk
      <4>2. CASE dir'[p][page[p]] = map[p][page[p]]
        <5>1. map[p][page[p]] # NOFRAME /\ Distinct(map[p]) /\ Distinct(dir[p])
          BY Zenon, <2>2, <2>3 DEF SpaceOk, Present
        <5>2. \A h \in Pages \ {page[p]} : dir[p][h] # map[p][page[p]]
          BY <2>3, <2>5, <5>1 DEF Distinct
        <5>3. \A h \in Pages \ {page[p]} : dir'[p][h] = dir[p][h] /\ dir[p][h] # dir'[p][page[p]]
          BY Zenon, <2>4, <4>2, <5>2
        <5> QED BY Zenon, <2>3, <5>1, <5>3, DistinctSet
      <4> QED BY Zenon, <2>4, <4>1, <4>2
    <3>3. SpaceOk(p)' /\ WriteOk(p)'
      BY Zenon, <2>1, <2>2, <2>4, <3>2 DEF SpaceOk, WriteOk
    <3>4. PcOk(p)'
      BY Zenon, <2>1, <2>2, <2>3, <2>4, <3>1 DEF PcOk
    <3> QED BY Zenon, <3>3, <3>4
  <2>9. FreeInv'
    BY Zenon, <2>1, <2>2 DEF FreeInv
  <2> QED
    BY Zenon, <2>1, <2>4, <2>6, <2>7, <2>8, <2>9, OwnStep
  \* The child's reference is counted, in an unsigned char that has room for it.
<1>CowIncrefStep.
      ASSUME IInv, NEW p \in Procs, cow_incref(p)
      PROVE  IInv'
  <2> USE <1>CowIncrefStep
  <2> DEFINE g == page[p]
             f == dir[p][g]
  <2>1. /\ pc[p] = "incref"
        /\ refs' = [refs EXCEPT ![f] = (@ + 1) % 256]
        /\ page' = [page EXCEPT ![p] = g + 1] /\ pc' = [pc EXCEPT ![p] = "fork"]
        /\ UNCHANGED <<free, data, map, writable, dir, frame, child, parent, lock>>
    BY Zenon DEF cow_incref, incref, spaces, family, Goto
  <2>2. TypeOK /\ SpaceOk(p) /\ WriteOk(p) /\ PcOk(p) /\ ChildInv /\ FreeInv
    BY Zenon DEF IInv, ProcInv, CountsExact
  <2>3. g \in Pages /\ g \in Nat /\ g + 1 \in 0 .. NPAGES /\ g \notin writable[p] /\ map[p][g] = f /\ f \in Frames
    <3>1. g \in Pages /\ g \notin writable[p] /\ map[p][g] \in Frames
      BY <2>1, <2>2 DEF PcOk, Present, TypeOK, Directory
    <3>2. Pending(p, g) /\ Copied(p)
      BY Zenon, <2>1, <2>2 DEF Pending, PcOk
    <3>3. map[p][g] = f
      BY Zenon, <3>1, <3>2 DEF Copied
    <3>4. g \in Nat /\ g + 1 \in 0 .. NPAGES
      BY <3>1, MemAssumption DEF Pages
    <3> QED BY ZenonT(30), <3>1, <3>3, <3>4
  <2>4. /\ refs[f] >= 1 /\ refs[f] \in 0 .. 192
        /\ \A h \in Pages \ {g} : map[p][h] = f => refs[f] >= 2
    <3>1. refs[f] \in 0 .. 192
      BY ZenonT(30), <2>3, CountBound
    <3>2. refs[f] >= 1 /\ \A h \in Pages \ {g} : map[p][h] = f => refs[f] >= 2
      BY <2>3, Sharing
    <3> QED BY Zenon, <3>1, <3>2
  <2> HIDE DEF f
  <2>5. refs' = [refs EXCEPT ![f] = refs[f] + 1] /\ refs[f] + 1 \in 0 .. 255
    <3>1. (refs[f] + 1) % 256 = refs[f] + 1 /\ refs[f] + 1 \in 0 .. 255
      BY SMTT(30), <2>4
    <3> QED BY ZenonT(30), <2>1, <3>1
  <2>6. /\ refs' \in [Frames -> 0 .. 255] /\ refs'[f] = refs[f] + 1
        /\ \A x \in Frames \ {f} : refs'[x] = refs[x]
    BY SMTT(30), <2>2, <2>3, <2>5 DEF TypeOK
  <2>7. /\ pc' \in [Procs -> Pc] /\ page' \in [Procs -> 0 .. NPAGES]
        /\ pc'[p] = "fork" /\ page'[p] = g + 1
        /\ \A q \in Procs \ {p} : pc'[q] = pc[q] /\ page'[q] = page[q]
    BY <2>1, <2>2, <2>3 DEF TypeOK, Pc
  <2>8. TypeOK'
    BY Zenon, <2>1, <2>2, <2>6, <2>7 DEF TypeOK
  <2>9. \A x \in Frames : refs'[x] = Total(map', Counted', frame', x)
    <3> SUFFICES ASSUME NEW x \in Frames PROVE refs'[x] = Total(map', Counted', frame', x)
      OBVIOUS
    <3>1. Differ(Counted, Counted', p, g) /\ Counted[p][g] = NOFRAME /\ Counted'[p][g] = f
      <4>1. \A h \in Pages : Counted'[p][h] = dir[p][h]
        BY Zenon, <2>1, <2>7, CountedDir
      <4>2. \A h \in Pages \ {g} : Counted[p][h] = dir[p][h]
        BY Zenon, <2>1 DEF Counted, Pending
      <4>3. \A q \in Procs \ {p}, h \in Pages : Counted'[q][h] = Counted[q][h]
        BY Zenon, <2>1, <2>7, CountedKept
      <4>4. Counted[p][g] = NOFRAME /\ Counted'[p][g] = f
        BY ZenonT(30), <2>1, <2>3, <4>1 DEF Counted, Pending, f
      <4> QED BY Zenon, <4>1, <4>2, <4>3, <4>4 DEF Differ
    <3>2. /\ refs[x] = Occurs(map, x) + Occurs(Counted, x) + Cardinality(Holders(frame, x))
          /\ Occurs(map, x) \in Nat /\ Occurs(Counted, x) \in Nat /\ Cardinality(Holders(frame, x)) \in Nat
      BY Zenon, CountIs
    <3>3. CASE x = f
      <4>1. Occurs(Counted', x) = Occurs(Counted, x) + 1
        BY Zenon, <2>3, <3>1, <3>3, MemAssumption, OccursGain
      <4>2. refs'[x] = (Occurs(map, x) + Occurs(Counted, x) + Cardinality(Holders(frame, x))) + 1
        BY Zenon, <2>6, <3>2, <3>3
      <4>3. refs'[x] = Occurs(map, x) + Occurs(Counted', x) + Cardinality(Holders(frame, x))
        <5> DEFINE a == Occurs(map, x)
                   b == Occurs(Counted, x)
                   d == Cardinality(Holders(frame, x))
                   e == Occurs(Counted', x)
        <5>1. a \in Nat /\ b \in Nat /\ d \in Nat /\ e = b + 1 /\ refs'[x] = (a + b + d) + 1
          BY Zenon, <3>2, <4>1, <4>2
        <5> HIDE DEF a, b, d, e
        <5>2. refs'[x] = a + e + d
          BY <5>1
        <5> QED BY Zenon, <5>2 DEF a, d, e
      <4>4. map' = map /\ frame' = frame
        BY Zenon, <2>1
      <4> QED BY Zenon, <4>3, <4>4 DEF Total
    <3>4. CASE x # f
      <4>1. Occurs(Counted', x) = Occurs(Counted, x)
        BY Zenon, <2>3, <3>1, <3>4, MemAssumption, OccursKeep
      <4> QED BY Zenon, <2>1, <2>6, <3>2, <3>4, <4>1 DEF Total
    <3> QED BY Zenon, <3>3, <3>4
  <2>10. WriteOk(p)'
    <3> SUFFICES ASSUME NEW h \in writable[p] PROVE h \in Present(map[p]) /\ refs'[map[p][h]] = 1
      BY Zenon, <2>1 DEF WriteOk
    <3>1. h \in Present(map[p]) /\ refs[map[p][h]] = 1 /\ h \in Pages \ {g}
      BY ZenonT(30), <2>2, <2>3 DEF WriteOk, Present
    <3>2. map[p][h] \in Frames \ {f}
      BY SMTT(30), <2>2, <2>4, <3>1 DEF TypeOK, Directory, Present
    <3> QED BY Zenon, <2>6, <3>1, <3>2
  <2>11. Copied(p)'
    <3>1. \A h \in Pages : dir[p][h] = IF h < g \/ h = g THEN map[p][h] ELSE NOFRAME
      BY Zenon, <2>1, <2>2 DEF PcOk, Copied, Pending
    <3>2. \A h \in Pages : (h < g \/ h = g) <=> h < g + 1
      BY <2>3, MemAssumption DEF Pages
    <3> QED BY Zenon, <2>1, <2>7, <3>1, <3>2 DEF Copied, Pending
  <2>12. SpaceOk(p)' /\ PcOk(p)'
    BY ZenonT(30), <2>1, <2>2, <2>7, <2>11 DEF SpaceOk, PcOk
  <2>13. FreeInv'
    <3>1. refs[f] # 0
      <4>1. PICK v : v = refs[f]
        OBVIOUS
      <4>2. v \in 0 .. 192 /\ v >= 1
        BY Zenon, <2>4, <4>1
      <4>3. v # 0
        BY <4>2
      <4> QED BY Zenon, <4>1, <4>3
    <3>2. \A x \in free : x \in Frames \ {f} /\ refs[x] = 0
      BY Zenon, <2>2, <3>1 DEF FreeInv, TypeOK
    <3> QED BY Zenon, <2>1, <2>6, <3>2 DEF FreeInv
  <2>14. \A x \in Frames : refs'[x] # refs[x] \/ data'[x] # data[x] => refs[x] = 0 \/ Uses(p, x)
    BY <2>1, <2>3, <2>6 DEF Uses
  <2> QED
    BY Zenon, <2>1, <2>7, <2>8, <2>9, <2>10, <2>12, <2>13, <2>14, OwnStep
  \* The child gets the directory that cowuvm() built, a copy of its parent's.
<1>ForkDoneStep.
      ASSUME IInv, NEW p \in Procs, fork_done(p)
      PROVE  IInv'
  <2> USE <1>ForkDoneStep
  <2>1. PICK c \in Procs : c = child[p] /\ pc[c] = "embryo" /\ map[c] = NoPages /\ c # p
    BY Zenon DEF fork_done, IInv, CountsExact, TypeOK, ChildInv
  <2>2. /\ pc[p] = "fork" /\ page[p] = Size(p)
        /\ parent' = [parent EXCEPT ![c] = p]
        /\ map' = [map EXCEPT ![c] = dir[p]] /\ dir' = [dir EXCEPT ![p] = NoPages]
        /\ pc' = [pc EXCEPT ![p] = "user", ![c] = "user"]
        /\ child' = [child EXCEPT ![p] = NOPROC] /\ page' = [page EXCEPT ![p] = 0]
        /\ UNCHANGED <<free, refs, data, writable, frame, lock>>
    BY Zenon, <2>1 DEF fork_done, kmem
  <2>3. TypeOK /\ SpaceOk(p) /\ WriteOk(p) /\ PcOk(p) /\ SpaceOk(c) /\ WriteOk(c) /\ PcOk(c) /\ ChildInv
    BY Zenon DEF IInv, ProcInv, CountsExact
  <2>4. /\ map'[c] = dir[p] /\ dir'[p] = NoPages /\ pc'[p] = "user" /\ pc'[c] = "user"
        /\ child'[p] = NOPROC /\ page'[p] = 0
        /\ \A q \in Procs \ {c} : map'[q] = map[q] /\ parent'[q] = parent[q]
        /\ \A q \in Procs \ {p} : dir'[q] = dir[q] /\ child'[q] = child[q] /\ page'[q] = page[q]
        /\ \A q \in Procs \ {p, c} : pc'[q] = pc[q]
    BY <2>1, <2>2, <2>3 DEF TypeOK
  <2>5. TypeOK'
    <3>1. NoPages \in Directory
      BY Zenon DEF NoPages, Directory
    <3>2. map' \in [Procs -> Directory] /\ dir' \in [Procs -> Directory]
      BY Zenon, <2>2, <2>3, <3>1 DEF TypeOK
    <3>3. /\ pc' \in [Procs -> Pc] /\ child' \in [Procs -> Procs \cup {NOPROC}]
          /\ parent' \in [Procs -> Procs \cup {NOPROC}]
      BY Zenon, <2>2, <2>3 DEF TypeOK, Pc
    <3>4. page' \in [Procs -> 0 .. NPAGES]
      BY SMTT(30), <2>2, <2>3, MemAssumption DEF TypeOK
    <3> QED BY Zenon, <2>2, <2>3, <3>2, <3>3, <3>4 DEF TypeOK
  <2>6. \A x \in Frames : refs'[x] = Total(map', Counted', frame', x)
    <3> SUFFICES ASSUME NEW x \in Frames PROVE refs'[x] = Total(map', Counted', frame', x)
      OBVIOUS
    <3>1. \A h \in Pages : Counted'[p][h] = NoPages[h] /\ Counted[p][h] = dir[p][h]
      <4>1. pc[p] # "incref" /\ pc'[p] # "incref"
        BY Zenon, <2>2, <2>4
      <4> QED BY Zenon, <2>4, <4>1, CountedDir
    <3>2. \A q \in Procs \ {p}, h \in Pages : Counted'[q][h] = Counted[q][h]
      <4>1. \A q \in Procs \ {p, c}, h \in Pages : Counted'[q][h] = Counted[q][h]
        BY Zenon, <2>4, CountedKept
      <4>2. \A h \in Pages : Counted'[c][h] = dir'[c][h] /\ Counted[c][h] = dir[c][h]
        BY Zenon, <2>1, <2>4, CountedDir
      <4>3. dir'[c] = dir[c]
        BY Zenon, <2>1, <2>4
      <4> QED BY Zenon, <4>1, <4>2, <4>3
    <3>3. InDir(Counted[p], x) = InDir(dir[p], x) /\ InDir(Counted'[p], x) = InDir(NoPages, x)
      BY <3>1, InDirSame
    <3>4. /\ InDir(Counted[p], x) \in Nat /\ InDir(Counted'[p], x) \in Nat
          /\ Occurs(Counted', x) = Occurs(Counted, x) - InDir(Counted[p], x) + InDir(Counted'[p], x)
      <4>1. RowsKept(Counted, Counted', p)
        BY Zenon, <3>2 DEF RowsKept
      <4> QED BY <4>1, RowChanged
    <3>5. /\ InDir(map[c], x) \in Nat /\ InDir(map'[c], x) \in Nat
          /\ Occurs(map', x) = Occurs(map, x) - InDir(map[c], x) + InDir(map'[c], x)
      <4>1. RowsKept(map, map', c)
        BY Zenon, <2>4 DEF RowsKept
      <4> QED BY <4>1, RowChanged
    <3>6. InDir(NoPages, x) = 0
      BY Zenon, InNoPages
    <3>7. /\ refs[x] = Occurs(map, x) + Occurs(Counted, x) + Cardinality(Holders(frame, x))
          /\ Occurs(map, x) \in Nat /\ Occurs(Counted, x) \in Nat /\ Cardinality(Holders(frame, x)) \in Nat
      BY Zenon, CountIs
    <3> QED BY SMTT(30), <2>1, <2>2, <2>4, <3>3, <3>4, <3>5, <3>6, <3>7 DEF Total
  <2>7. \A g \in Pages : dir[p][g] = map[p][g]
    BY Zenon, ForkCopied, <2>2
  <2>8. SpaceOk(p)' /\ WriteOk(p)' /\ PcOk(p)'
    <3>1. map'[p] = map[p]
      BY Zenon, <2>1, <2>4
    <3>2. Distinct(dir'[p])
      BY Zenon, <2>4 DEF Distinct, NoPages
    <3>3. SpaceOk(p)' /\ WriteOk(p)'
      BY Zenon, <2>2, <2>3, <3>1, <3>2 DEF SpaceOk, WriteOk
    <3> QED BY Zenon, <2>2, <2>3, <2>4, <3>1, <3>3 DEF PcOk
  <2>9. SpaceOk(c)' /\ WriteOk(c)' /\ PcOk(c)'
    <3>1. Present(dir[p]) = Present(map[p])
      BY Zenon, <2>7 DEF Present
    <3>2. dir'[c] = dir[c] /\ page'[c] = page[c]
      BY Zenon, <2>1, <2>4
    <3>3. SpaceOk(c)'
      BY Zenon, <2>3, <2>4, <3>1, <3>2 DEF SpaceOk, Contiguous
    <3>4. writable[c] = {}
      BY Zenon, <2>1, <2>3 DEF WriteOk, Present, NoPages
    <3>5. WriteOk(c)'
      BY Zenon, <2>2, <3>4 DEF WriteOk
    <3>6. PcOk(c)'
      BY ZenonT(30), <2>1, <2>2, <2>3, <2>4, <3>2 DEF PcOk
    <3> QED BY Zenon, <3>3, <3>5, <3>6
  <2>10. ChildInv'
    <3>1. \A q \in Procs \ {p} : child[q] # NOPROC => child[q] \in Procs \ {p, c}
      BY <2>1, <2>2, <2>3 DEF ChildInv, TypeOK
    <3>2. child[c] = NOPROC
      BY Zenon, <2>1, <2>3 DEF ChildInv
    <3>3. \A q \in Procs \ {p} : child[q] # NOPROC =>
            /\ pc'[child[q]] = pc[child[q]] /\ map'[child[q]] = map[child[q]]
            /\ parent'[child[q]] = parent[child[q]]
      BY Zenon, <2>4, <3>1
    <3> QED BY SMTT(30), <2>1, <2>3, <2>4, <3>1, <3>2, <3>3 DEF ChildInv
  <2>11. /\ UNCHANGED <<free, refs, data>>
         /\ \A q \in Procs \ {p, c} :
              /\ map'[q] = map[q] /\ dir'[q] = dir[q] /\ writable'[q] = writable[q]
              /\ pc'[q] = pc[q] /\ page'[q] = page[q] /\ frame'[q] = frame[q]
    BY Zenon, <2>2, <2>4
  <2> QED
    BY Zenon, <2>5, <2>6, <2>8, <2>9, <2>10, <2>11, PairStep
  \* exit() leaves the address space to wait().
<1>ExitStep.
      ASSUME IInv, NEW p \in Procs, exit(p)
      PROVE  IInv'
  <2> USE <1>ExitStep
  <2>1. /\ pc[p] = "user"
        /\ parent' = [q \in Procs |-> IF parent[q] = p THEN INITPROC ELSE parent[q]]
        /\ pc' = [pc EXCEPT ![p] = "zombie"]
        /\ UNCHANGED <<free, refs, data, map, writable, dir, page, frame, child, lock>>
    BY Zenon DEF exit, kmem, spaces, call, Goto
  <2>2. TypeOK /\ SpaceOk(p) /\ WriteOk(p) /\ PcOk(p) /\ ChildInv
    BY Zenon DEF IInv, ProcInv, CountsExact
  <2>3. pc'[p] = "zombie" /\ \A q \in Procs \ {p} : pc'[q] = pc[q]
    BY Zenon, <2>1, <2>2 DEF TypeOK
  <2>4. TypeOK'
    <3>1. pc' \in [Procs -> Pc] /\ parent' \in [Procs -> Procs \cup {NOPROC}]
      BY Zenon, <2>1, <2>2, MemAssumption DEF TypeOK, Pc
    <3> QED BY Zenon, <2>1, <2>2, <3>1 DEF TypeOK
  <2>5. \A f \in Frames : refs'[f] = Total(map', Counted', frame', f)
    <3>1. \A q \in Procs, h \in Pages : Counted'[q][h] = Counted[q][h]
      BY <2>1, <2>3, CountedKept, CountedDir
    <3> QED BY Zenon, <2>1, <3>1, SameTotal
  <2>6. SpaceOk(p)' /\ WriteOk(p)' /\ PcOk(p)'
    BY Zenon, <2>1, <2>2, <2>3 DEF SpaceOk, WriteOk, PcOk
  <2>7. ChildInv'
    <3>1. \A q \in Procs : child[q] # NOPROC => child[q] \in Procs \ {p}
      BY Zenon, <2>1, <2>2 DEF ChildInv, TypeOK
    <3>2. \A q \in Procs : parent[q] = NOPROC => parent'[q] = NOPROC
      BY Zenon, <2>1, MemAssumption
    <3>3. child[p] = NOPROC
      BY Zenon, <2>1, <2>2 DEF ChildInv
    <3> SUFFICES ASSUME NEW q \in Procs
                 PROVE  /\ pc'[q] \notin {"fork", "incref", "free", "kfree", "drop"} => child'[q] = NOPROC
                        /\ pc'[q] \in {"fork", "incref"} => child'[q] # NOPROC /\ pc'[child'[q]] = "embryo"
                        /\ child'[q] # NOPROC =>
                             /\ map'[child'[q]] = NoPages
                             /\ \/ pc'[child'[q]] = "embryo"
                                \/ pc'[child'[q]] = "zombie" /\ parent'[child'[q]] = NOPROC
                             /\ \A x \in Procs : child'[x] = child'[q] => x = q
      BY Zenon DEF ChildInv, NoPages
    <3>4. CASE q = p
      BY Zenon, <2>3, <2>1, <3>3, <3>4
    <3>5. CASE q # p /\ child[q] = NOPROC
      <4>1. child'[q] = NOPROC /\ pc[q] \notin {"fork", "incref"} /\ pc'[q] = pc[q]
        BY Zenon, <2>1, <2>2, <2>3, <3>5 DEF ChildInv
      <4> QED BY Zenon, <4>1
    <3>6. CASE q # p /\ child[q] # NOPROC
      <4>1. child' = child /\ pc'[q] = pc[q] /\ pc'[child[q]] = pc[child[q]]
        BY Zenon, <2>1, <2>3, <3>1, <3>6
      <4>2. /\ pc[q] \notin {"fork", "incref", "free", "kfree", "drop"} => child[q] = NOPROC
            /\ pc[q] \in {"fork", "incref"} => pc[child[q]] = "embryo"
            /\ map[child[q]] = NoPages
            /\ pc[child[q]] = "embryo" \/ (pc[child[q]] = "zombie" /\ parent[child[q]] = NOPROC)
            /\ \A x \in Procs : child[x] = child[q] => x = q
        BY Zenon, <2>2, <3>6 DEF ChildInv
      <4>3. parent[child[q]] = NOPROC => parent'[child[q]] = NOPROC
        BY Zenon, <3>1, <3>2, <3>6
      <4> QED BY Zenon, <2>1, <3>6, <4>1, <4>2, <4>3
    <3> QED BY Zenon, <3>4, <3>5, <3>6
  <2> QED
    BY Zenon, <2>1, <2>3, <2>4, <2>5, <2>6, <2>7, PairStep
  \* wait() takes the address space of a ZOMBIE child, to be given up.
<1>WaitStep.
      ASSUME IInv, NEW p \in Procs, NEW c \in Procs, wait(p, c)
      PROVE  IInv'
  <2> USE <1>WaitStep
  <2>1. /\ pc[p] = "user" /\ pc[c] = "zombie" /\ parent[c] = p /\ lock' = p
        /\ child' = [child EXCEPT ![p] = c] /\ dir' = [dir EXCEPT ![p] = map[c]]
        /\ map' = [map EXCEPT ![c] = NoPages] /\ writable' = [writable EXCEPT ![c] = {}]
        /\ parent' = [parent EXCEPT ![c] = NOPROC] /\ pc' = [pc EXCEPT ![p] = "free"]
        /\ UNCHANGED <<free, refs, data, page, frame>>
    BY Zenon DEF wait, kmem, Goto
  <2>2. TypeOK /\ SpaceOk(p) /\ WriteOk(p) /\ PcOk(p) /\ SpaceOk(c) /\ WriteOk(c) /\ PcOk(c) /\ ChildInv
    BY Zenon DEF IInv, ProcInv, CountsExact
  <2>3. /\ p # c /\ map'[c] = NoPages /\ dir'[p] = map[c] /\ pc'[p] = "free" /\ writable'[c] = {}
        /\ child'[p] = c /\ parent'[c] = NOPROC
        /\ \A q \in Procs \ {c} : map'[q] = map[q] /\ parent'[q] = parent[q] /\ writable'[q] = writable[q]
        /\ \A q \in Procs \ {p} : dir'[q] = dir[q] /\ child'[q] = child[q] /\ pc'[q] = pc[q]
    BY <2>1, <2>2 DEF TypeOK
  <2>4. TypeOK'
    <3>1. NoPages \in Directory
      BY Zenon DEF NoPages, Directory
    <3>2. map' \in [Procs -> Directory] /\ dir' \in [Procs -> Directory]
      BY Zenon, <2>1, <2>2, <3>1 DEF TypeOK
    <3>3. /\ pc' \in [Procs -> Pc] /\ child' \in [Procs -> Procs \cup {NOPROC}]
          /\ parent' \in [Procs -> Procs \cup {NOPROC}] /\ writable' \in [Procs -> SUBSET Pages]
      BY Zenon, <2>1, <2>2 DEF TypeOK, Pc
    <3> QED BY Zenon, <2>1, <2>2, <3>2, <3>3 DEF TypeOK
  <2>5. dir[p] = NoPages /\ dir[c] = NoPages /\ page[p] = 0 /\ page[c] = 0 /\ child[p] = NOPROC
    BY Zenon, <2>1, <2>2 DEF PcOk, ChildInv
  <2>6. \A x \in Frames : refs'[x] = Total(map', Counted', frame', x)
    <3> SUFFICES ASSUME NEW x \in Frames PROVE refs'[x] = Total(map', Counted', frame', x)
      OBVIOUS
    <3>1. \A h \in Pages : Counted'[p][h] = map[c][h] /\ Counted[p][h] = NoPages[h]
      <4>1. pc[p] # "incref" /\ pc'[p] # "incref"
        BY Zenon, <2>1, <2>3
      <4>2. \A h \in Pages : Counted'[p][h] = dir'[p][h] /\ Counted[p][h] = dir[p][h]
        BY Zenon, <4>1, CountedDir
      <4> QED BY Zenon, <2>3, <2>5, <4>2
    <3>2. \A q \in Procs \ {p}, h \in Pages : Counted'[q][h] = Counted[q][h]
      BY Zenon, <2>1, <2>3, CountedKept
    <3>3. InDir(Counted[p], x) = InDir(NoPages, x) /\ InDir(Counted'[p], x) = InDir(map[c], x)
      BY SMTT(30), <3>1, InDirSame
    <3>4. /\ InDir(Counted[p], x) \in Nat /\ InDir(Counted'[p], x) \in Nat
          /\ Occurs(Counted', x) = Occurs(Counted, x) - InDir(Counted[p], x) + InDir(Counted'[p], x)
      <4>1. RowsKept(Counted, Counted', p)
        BY Zenon, <3>2 DEF RowsKept
      <4> QED BY <4>1, RowChanged
    <3>5. /\ InDir(map[c], x) \in Nat /\ InDir(map'[c], x) \in Nat
          /\ Occurs(map', x) = Occurs(map, x) - InDir(map[c], x) + InDir(map'[c], x)
      <4>1. RowsKept(map, map', c)
        BY Zenon, <2>3 DEF RowsKept
      <4> QED BY <4>1, RowChanged
    <3>6. InDir(NoPages, x) = 0
      BY Zenon, InNoPages
    <3>7. /\ refs[x] = Occurs(map, x) + Occurs(Counted, x) + Cardinality(Holders(frame, x))
          /\ Occurs(map, x) \in Nat /\ Occurs(Counted, x) \in Nat /\ Cardinality(Holders(frame, x)) \in Nat
      BY Zenon, CountIs
    <3> QED BY SMTT(30), <2>1, <2>3, <3>3, <3>4, <3>5, <3>6, <3>7 DEF Total
  <2>7. SpaceOk(p)' /\ WriteOk(p)' /\ PcOk(p)'
    <3>1. SpaceOk(p)' /\ WriteOk(p)'
      BY <2>1, <2>2, <2>3 DEF SpaceOk, WriteOk
    <3> QED BY ZenonT(30), <2>1, <2>2, <2>3, <3>1 DEF PcOk
  <2>8. SpaceOk(c)' /\ WriteOk(c)' /\ PcOk(c)'
    <3>1. Contiguous(NoPages) /\ Distinct(NoPages)
      <4>1. Present(NoPages) = {} /\ 0 \in 0 .. NPAGES /\ {} = 0 .. (0 - 1)
        BY MemAssumption DEF Present, NoPages
      <4> QED BY Zenon, <4>1 DEF Contiguous, Distinct, NoPages
    <3>2. dir'[c] = NoPages /\ pc'[c] = "zombie"
      BY Zenon, <2>1, <2>3, <2>5
    <3>3. SpaceOk(c)' /\ WriteOk(c)'
      BY ZenonT(30), <2>3, <3>1, <3>2 DEF SpaceOk, WriteOk
    <3> QED BY Zenon, <2>1, <2>2, <2>3, <3>2, <3>3 DEF PcOk
  <2>9. ChildInv'
    <3>1. \A q \in Procs : child[q] # NOPROC => child[q] \in Procs \ {p, c}
      BY <2>1, <2>2, MemAssumption DEF ChildInv, TypeOK
    <3>2. \A q \in Procs : child[q] # NOPROC =>
            /\ pc'[child[q]] = pc[child[q]] /\ map'[child[q]] = map[child[q]]
            /\ parent'[child[q]] = parent[child[q]]
      BY Zenon, <2>3, <3>1
    <3>3. pc'[c] = "zombie" /\ c # NOPROC
      BY Zenon, <2>1, <2>3, MemAssumption
    <3> SUFFICES ASSUME NEW q \in Procs
                 PROVE  /\ pc'[q] \notin {"fork", "incref", "free", "kfree", "drop"} => child'[q] = NOPROC
                        /\ pc'[q] \in {"fork", "incref"} => child'[q] # NOPROC /\ pc'[child'[q]] = "embryo"
                        /\ child'[q] # NOPROC =>
                             /\ map'[child'[q]] = NoPages
                             /\ \/ pc'[child'[q]] = "embryo"
                                \/ pc'[child'[q]] = "zombie" /\ parent'[child'[q]] = NOPROC
                             /\ \A o \in Procs : child'[o] = child'[q] => o = q
      BY Zenon DEF ChildInv
    <3>4. CASE q = p
      <4>1. \A o \in Procs \ {p} : child'[o] # c
        BY Zenon, <2>3, <3>1, <3>3
      <4> QED BY Zenon, <2>3, <3>3, <3>4, <4>1
    <3>5. CASE q # p
      <4>1. child'[q] = child[q] /\ pc'[q] = pc[q] /\ (child[q] # NOPROC => child[q] # c)
        BY Zenon, <2>3, <3>1, <3>5
      <4>2. child[q] # NOPROC => \A o \in Procs : child'[o] = child[q] => o = q
        <5>1. child[q] # NOPROC => \A o \in Procs : child[o] = child[q] => o = q
          BY Zenon, <2>2 DEF ChildInv
        <5>2. child'[p] = c /\ \A o \in Procs \ {p} : child'[o] = child[o]
          BY Zenon, <2>3
        <5> QED BY Zenon, <4>1, <5>1, <5>2
      <4> QED BY Zenon, <2>2, <3>2, <4>1, <4>2 DEF ChildInv
    <3> QED BY Zenon, <3>4, <3>5
  <2>10. /\ UNCHANGED <<free, refs, data>>
         /\ \A q \in Procs \ {p, c} :
              /\ map'[q] = map[q] /\ dir'[q] = dir[q] /\ writable'[q] = writable[q]
              /\ pc'[q] = pc[q] /\ page'[q] = page[q] /\ frame'[q] = frame[q]
    BY Zenon, <2>1, <2>3
  <2> QED
    BY Zenon, <2>4, <2>6, <2>7, <2>8, <2>9, <2>10, PairStep
<1> QED
  BY Zenon, <1>ForkStep, <1>CowMapStep, <1>CowIncrefStep, <1>ForkDoneStep, <1>ExitStep, <1>WaitStep

-----------------------------------------------------------------------------
(* The invariant.                                                          *)

\* The first process has the only reference to its only page.
LEMMA InitInv ==
  ASSUME SetLaws
  PROVE  Init => IInv
<1> SUFFICES ASSUME Init PROVE IInv
  OBVIOUS
<1>1. PICK f \in Frames :
        /\ free = Frames \ {f}
        /\ refs = [x \in Frames |-> IF x = f THEN 1 ELSE 0]
        /\ data = [x \in Frames |-> IF x = f THEN ZERO ELSE JUNK]
        /\ map = [p \in Procs |-> IF p = INITPROC THEN [NoPages EXCEPT ![0] = f] ELSE NoPages]
        /\ writable = [p \in Procs |-> IF p = INITPROC THEN {0} ELSE {}]
        /\ dir = [p \in Procs |-> NoPages]
        /\ pc = [p \in Procs |-> IF p = INITPROC THEN "user" ELSE "unused"]
        /\ page = [p \in Procs |-> 0]
        /\ frame = [p \in Procs |-> NOFRAME]
        /\ child = [p \in Procs |-> NOPROC]
        /\ parent = [p \in Procs |-> NOPROC]
        /\ lock = NOPROC
  BY Zenon DEF Init
<1>2. 0 \in Pages /\ 0 \in 0 .. NPAGES /\ NOFRAME \notin Frames /\ NOPROC \notin Procs
  BY MemAssumption DEF Pages
<1>3. NoPages \in Directory /\ [NoPages EXCEPT ![0] = f] \in Directory
  BY Zenon, <1>2 DEF NoPages, Directory
<1>4. /\ \A p \in Procs \ {INITPROC} : map[p] = NoPages
      /\ INITPROC \in Procs /\ map[INITPROC] = [NoPages EXCEPT ![0] = f]
      /\ map[INITPROC][0] = f /\ \A g \in Pages \ {0} : map[INITPROC][g] = NOFRAME
  BY Zenon, <1>1, <1>2, MemAssumption DEF NoPages
<1>5. TypeOK
  <2>1. map \in [Procs -> Directory] /\ dir \in [Procs -> Directory]
    BY Zenon, <1>1, <1>3
  <2>2. refs \in [Frames -> 0 .. 255] /\ data \in [Frames -> Values \cup {JUNK}]
    BY <1>1, MemAssumption
  <2>3. pc \in [Procs -> Pc] /\ page \in [Procs -> 0 .. NPAGES] /\ writable \in [Procs -> SUBSET Pages]
    BY Zenon, <1>1, <1>2 DEF Pc
  <2> QED BY Zenon, <1>1, <2>1, <2>2, <2>3 DEF TypeOK
<1>6. CountsExact
  <2> SUFFICES ASSUME NEW x \in Frames PROVE refs[x] = References(x)
    BY Zenon, <1>5 DEF CountsExact
  <2>1. Slots(Counted, x) = {} /\ Holders(frame, x) = {}
    BY Zenon, <1>1, <1>2 DEF Slots, Counted, Holders, NoPages
  <2>2. \A q \in Procs, h \in Pages : map[q][h] = x <=> x = f /\ q = INITPROC /\ h = 0
    BY SMTT(30), <1>2, <1>4 DEF NoPages
  <2>3. Slots(map, x) = IF x = f THEN {<<INITPROC, 0>>} ELSE {}
    BY <1>2, <1>4, <2>2 DEF Slots
  <2>4. Cardinality({}) = 0 /\ Cardinality({<<INITPROC, 0>>}) = 1
    BY Zenon, CardEmpty, CardOne
  <2>5. Total(map, Counted, frame, x) = IF x = f THEN 1 ELSE 0
    BY <2>1, <2>3, <2>4 DEF Total, Occurs
  <2> QED BY Zenon, <1>1, <2>5, RefsTotal
<1>7. FreeInv /\ ChildInv
  BY Zenon, <1>1, <1>2 DEF FreeInv, ChildInv
<1>8. ASSUME NEW p \in Procs PROVE SpaceOk(p) /\ WriteOk(p) /\ PcOk(p)
  <2>1. Present(map[p]) = IF p = INITPROC THEN {0} ELSE {}
    BY <1>2, <1>4 DEF Present, NoPages
  <2>2. {} = 0 .. (0 - 1) /\ {0} = 0 .. (1 - 1) /\ 0 \in 0 .. NPAGES /\ 1 \in 0 .. NPAGES
    BY MemAssumption
  <2>3. Contiguous(map[p])
    BY Zenon, <2>1, <2>2 DEF Contiguous
  <2>4. dir[p] = NoPages /\ \A g \in Pages : NoPages[g] = NOFRAME
    BY Zenon, <1>1 DEF NoPages
  <2>5. Distinct(map[p]) /\ Distinct(dir[p])
    <3>1. \A g \in Pages : map[p][g] # NOFRAME => g = 0
      <4>1. CASE p = INITPROC
        BY Zenon, <1>4, <4>1
      <4>2. CASE p # INITPROC
        <5>1. map[p] = NoPages
          BY Zenon, <1>4, <4>2
        <5> QED BY Zenon, <2>4, <5>1
      <4> QED BY Zenon, <4>1, <4>2
    <3> QED BY Zenon, <2>4, <3>1 DEF Distinct
  <2>6. WriteOk(p)
    BY Zenon, <1>1, <1>2, <1>4, <2>1 DEF WriteOk
  <2>7. PcOk(p)
    BY Zenon, <1>1, <1>2, <1>4, <2>4 DEF PcOk
  <2> QED BY ZenonT(30), <2>3, <2>5, <2>6, <2>7 DEF SpaceOk
<1> QED
  BY Zenon, <1>6, <1>7, <1>8 DEF IInv, ProcInv

\* The invariant depends on the variables only.
LEMMA InvKept == IInv /\ UNCHANGED vars => IInv'
<1> SUFFICES ASSUME IInv, UNCHANGED vars PROVE IInv'
  OBVIOUS
<1>1. CountsExact'
  BY Zenon DEF IInv, CountsExact, TypeOK, References, vars
<1>2. FreeInv' /\ ChildInv'
  BY ZenonT(30) DEF IInv, FreeInv, ChildInv, vars
<1>3. ProcInv'
  <2> SUFFICES ASSUME NEW p \in Procs
               PROVE  SpaceOk(p)' /\ WriteOk(p)' /\ PcOk(p)'
    BY Zenon DEF ProcInv
  <2>1. SpaceOk(p)' /\ WriteOk(p)'
    BY Zenon DEF IInv, ProcInv, SpaceOk, WriteOk, vars
  <2>2. Copied(p)' = Copied(p) /\ Loaded(p)' = Loaded(p)
    BY Zenon DEF Copied, Loaded, Pending, vars
  <2>3. PcOk(p)'
    BY Zenon, <2>2 DEF IInv, ProcInv, PcOk, vars
  <2> QED BY Zenon, <2>1, <2>3
<1> QED
  BY Zenon, <1>1, <1>2, <1>3 DEF IInv

\* Every step of user memory keeps the invariant.
LEMMA InvNext ==
  ASSUME SetLaws
  PROVE  IInv /\ [Next]_vars => IInv'
<1> SUFFICES ASSUME IInv, Next PROVE IInv'
  BY Zenon, InvKept
<1>1. PICK p \in Procs :
        \/ \E g \in Pages : handlepgflt(p, g) \/ \E v \in Values : store(p, g, v)
        \/ pgflt_own(p) \/ pgflt_copy(p) \/ pgflt_decref(p)
        \/ \E c \in Procs : fork(p, c) \/ wait(p, c)
        \/ cow_map(p) \/ cow_incref(p) \/ fork_done(p)
        \/ \E f \in Frames : sbrk_grow(p, f) \/ \E v \in Values : exec(p, f, v)
        \/ sbrk_shrink(p) \/ exec_bad(p) \/ exec_commit(p) \/ exit(p)
        \/ dealloc(p) \/ dealloc_page(p) \/ dealloc_done(p)
  BY Zenon DEF Next
<1> QED
  BY Zenon, <1>1, FaultSteps, SpaceSteps, ForkSteps

\* A writable page has the only entry for its frame in any directory.
LEMMA WriteOwn ==
  ASSUME SetLaws
  PROVE  IInv => WritableIsOwn
<1> SUFFICES ASSUME IInv, NEW p \in Procs, NEW g \in writable[p],
                    NEW q \in Procs, NEW h \in Pages
             PROVE  /\ map[q][h] = map[p][g] => q = p /\ h = g
                    /\ dir[q][h] # map[p][g]
  BY Zenon DEF WritableIsOwn
<1>1. /\ g \in Pages /\ map[p][g] \in Frames /\ refs[map[p][g]] = 1
  BY DEF IInv, CountsExact, ProcInv, WriteOk, TypeOK, Directory, Present
<1>2. PICK f \in Frames : f = map[p][g] /\ refs[f] = 1
  BY Zenon, <1>1
<1>3. map[q][h] = f => q = p /\ h = g
  BY SMTT(30), <1>1, <1>2, Sharing
<1>4. dir[q][h] = f => Pending(q, h)
  BY <1>1, <1>2, Sharing
<1>5. Pending(q, h) => dir[q][h] = map[q][h] /\ h \notin writable[q]
  BY Zenon DEF IInv, ProcInv, PcOk, Pending, Copied
<1> QED
  BY Zenon, <1>2, <1>3, <1>4, <1>5

\* Nothing in use is free, and what a process can write is its own.
LEMMA InvFrames ==
  ASSUME SetLaws
  PROVE  IInv => FramesSafe
<1>1. IInv => NotFreedInUse
  <2> SUFFICES ASSUME IInv, NEW p \in Procs, NEW g \in Pages
               PROVE  map[p][g] \notin free /\ dir[p][g] \notin free
    BY Zenon DEF NotFreedInUse
  <2>1. \A f \in free : f \in Frames /\ refs[f] = 0
    BY Zenon DEF IInv, FreeInv, CountsExact, TypeOK
  <2> QED BY Zenon, <2>1, Unused
<1> QED
  BY Zenon, <1>1, WriteOwn DEF FramesSafe

-----------------------------------------------------------------------------
(* Copy-on-write memory implements private memory.                         *)

\* What process p reads in its page g, and the memory of PrivateMemory.
Seen(p, g) == IF Live(p) /\ map[p][g] # NOFRAME THEN data[map[p][g]] ELSE NOFRAME
Mem == [p \in Procs |-> [g \in Pages |-> Seen(p, g)]]

\* Every step is one of PrivateMemory, or is not seen.
LEMMA PrivateNext ==
  ASSUME SetLaws
  PROVE  IInv /\ [Next]_vars => [Private!Next]_Mem
  \* Nobody sees a step after which all pages read the same.
<1>SeenSame.
      ASSUME \A q \in Procs, h \in Pages : Seen(q, h)' = Seen(q, h)
      PROVE  Mem' = Mem
  BY <1>SeenSame, Zenon DEF Mem
  \* One page of one process changes.
<1>SeenEntry.
      ASSUME NEW p \in Procs, NEW g \in Pages, NEW v, Seen(p, g)' = v,
             \A q \in Procs, h \in Pages : (q # p \/ h # g) => Seen(q, h)' = Seen(q, h)
      PROVE  Mem' = [Mem EXCEPT ![p][g] = v]
  BY <1>SeenEntry, Zenon DEF Mem
  \* The pages of one process change.
<1>SeenRow.
      ASSUME NEW p \in Procs, NEW d, d = [g \in Pages |-> d[g]],
             \A g \in Pages : Seen(p, g)' = d[g],
             \A q \in Procs \ {p}, h \in Pages : Seen(q, h)' = Seen(q, h)
      PROVE  Mem' = [Mem EXCEPT ![p] = d]
  <2> USE <1>SeenRow
  <2> DEFINE M == [Mem EXCEPT ![p] = d]
  <2>1. Mem' = [q \in Procs |-> [g \in Pages |-> Seen(q, g)']]
    BY Zenon DEF Mem
  <2>2. M = [q \in Procs |-> IF q = p THEN d ELSE [g \in Pages |-> Seen(q, g)]]
    BY Zenon DEF Mem
  <2>3. ASSUME NEW q \in Procs
        PROVE  [g \in Pages |-> Seen(q, g)'] = IF q = p THEN d ELSE [g \in Pages |-> Seen(q, g)]
    <3>1. CASE q = p
      <4>1. [g \in Pages |-> Seen(q, g)'] = [g \in Pages |-> d[g]]
        BY Zenon, <3>1
      <4> QED BY Zenon, <3>1, <4>1
    <3>2. CASE q # p
      BY Zenon, <3>2
    <3> QED BY Zenon, <3>1, <3>2
  <2> QED
    BY SMTT(30), <2>1, <2>2, <2>3
  \* What a process reads is what is in the frames it maps: it reads the same when
  \* they and their contents stay.
<1>SeenKept.
      ASSUME NEW q \in Procs, NEW h \in Pages,
             Live(q)' = Live(q), Live(q) => map'[q][h] = map[q][h],
             Live(q) /\ map[q][h] # NOFRAME => data'[map[q][h]] = data[map[q][h]]
      PROVE  Seen(q, h)' = Seen(q, h)
  BY <1>SeenKept, Zenon DEF Seen
  \* A process reads no contents that say that it has no page.
<1>SeenPage.
      ASSUME IInv, NEW p \in Procs, NEW g \in Pages, Live(p)
      PROVE  /\ map[p][g] # NOFRAME => map[p][g] \in Frames /\ Seen(p, g) # NOFRAME
             /\ map[p][g] = NOFRAME => Seen(p, g) = NOFRAME
  <2> USE <1>SeenPage
  <2>1. map[p][g] \in Frames \cup {NOFRAME} /\ \A f \in Frames : data[f] \in Values \cup {JUNK}
    BY DEF IInv, CountsExact, TypeOK, Directory
  <2> QED
    BY Zenon, <2>1, MemAssumption DEF Seen
  \* A store changes one page of one process.
<1>StoreSeen.
      ASSUME IInv, NEW p \in Procs, NEW g \in Pages, NEW v \in Values, store(p, g, v)
      PROVE  Mem[p][g] # NOFRAME /\ Mem' = [Mem EXCEPT ![p][g] = v]
  <2> USE <1>StoreSeen
  <2>1. /\ pc[p] = "user" /\ g \in writable[p]
        /\ data' = [data EXCEPT ![map[p][g]] = v] /\ map' = map /\ pc' = pc
    BY Zenon DEF store, spaces
  <2>2. g \in Present(map[p]) /\ Live(p) /\ map[p][g] # NOFRAME
    BY Zenon, <2>1 DEF IInv, ProcInv, WriteOk, Live, Present
  <2>3. Seen(p, g) # NOFRAME /\ map[p][g] \in Frames
    BY Zenon, <2>2, <1>SeenPage
  <2>4. \A f \in Frames : data'[f] = IF f = map[p][g] THEN v ELSE data[f]
    BY Zenon, <2>1, <2>3 DEF IInv, CountsExact, TypeOK
  <2>5. Seen(p, g)' = v
    BY Zenon, <2>1, <2>2, <2>3, <2>4 DEF Seen, Live
  <2>6. ASSUME NEW q \in Procs, NEW h \in Pages, q # p \/ h # g
        PROVE  Seen(q, h)' = Seen(q, h)
    <3>1. map[q][h] # map[p][g]
      BY <2>1, <2>6, WriteOwn DEF WritableIsOwn
    <3>2. Live(q)' = Live(q)
      BY Zenon, <2>1 DEF Live
    <3>3. map[q][h] # NOFRAME => map[q][h] \in Frames
      BY DEF IInv, CountsExact, TypeOK, Directory
    <3> QED BY Zenon, <2>1, <2>4, <3>1, <3>2, <3>3, <1>SeenKept
  <2>7. Mem[p][g] = Seen(p, g)
    BY Zenon DEF Mem
  <2> QED
    BY SMTT(30), <2>3, <2>5, <2>6, <2>7, <1>SeenEntry
  \* A step that changes neither the frames mapped nor their contents nor who lives.
<1>Unseen.
      ASSUME map' = map, data' = data, \A q \in Procs : Live(q)' = Live(q)
      PROVE  Mem' = Mem
  <2> USE <1>Unseen
  <2>1. \A q \in Procs, h \in Pages : Seen(q, h)' = Seen(q, h)
    BY Zenon, <1>SeenKept
  <2> QED
    BY Zenon, <2>1, <1>SeenSame
  \* Faults that copy nothing, the steps of cowuvm(), and those of exec() and of
  \* deallocuvm() that touch no contents are not seen.
<1>QuietSteps.
      ASSUME IInv, NEW p \in Procs,
             \/ \E g \in Pages : handlepgflt(p, g)
             \/ pgflt_own(p) \/ pgflt_decref(p) \/ cow_map(p) \/ cow_incref(p)
             \/ exec_bad(p) \/ dealloc(p)
      PROVE  Mem' = Mem
  <2> USE <1>QuietSteps
  <2>1. map' = map /\ data' = data
    BY Zenon DEF handlepgflt, pgflt_own, pgflt_decref, cow_map, cow_incref, exec_bad, dealloc,
           decref, incref, kmem, spaces
  <2>2. /\ Live(p) /\ \E l \in {"own", "copy", "user", "fork", "incref", "free", "kfree", "drop"} :
                        pc' = [pc EXCEPT ![p] = l]
    BY Zenon DEF handlepgflt, pgflt_own, pgflt_decref, cow_map, cow_incref, exec_bad, dealloc,
           Goto, Return, Live
  <2>3. \A q \in Procs : Live(q)' = Live(q)
    BY Zenon, <2>2 DEF Live, IInv, CountsExact, TypeOK
  <2> QED
    BY Zenon, <2>1, <2>3, <1>Unseen
  \* Frames that nobody maps are allocated and freed, and the processes not in use
  \* get and lose their slots, without being seen.
<1>UnmappedStep.
      ASSUME IInv, NEW f \in Frames, \A q \in Procs, h \in Pages : map[q][h] # f,
             \A x \in Frames \ {f} : data'[x] = data[x], map' = map,
             \A q \in Procs : Live(q)' = Live(q)
      PROVE  Mem' = Mem
  <2> USE <1>UnmappedStep
  <2>1. \A q \in Procs, h \in Pages : map[q][h] # NOFRAME => map[q][h] \in Frames \ {f}
    BY DEF IInv, CountsExact, TypeOK, Directory
  <2>2. \A q \in Procs, h \in Pages : Seen(q, h)' = Seen(q, h)
    BY Zenon, <2>1, <1>SeenKept
  <2> QED
    BY Zenon, <2>2, <1>SeenSame
  \* A frame on the free list is in no directory, and allocating it changes no other.
<1>AllocUnmapped.
      ASSUME IInv, NEW f, NEW v, kalloc(f, v)
      PROVE  /\ f \in Frames /\ data'[f] = v
             /\ \A q \in Procs, h \in Pages : map[q][h] # f
             /\ \A x \in Frames \ {f} : data'[x] = data[x]
  <2> USE <1>AllocUnmapped
  <2>1. f \in free /\ data' = [data EXCEPT ![f] = v]
    BY Zenon DEF kalloc
  <2>2. f \in Frames /\ refs[f] = 0 /\ data \in [Frames -> Values \cup {JUNK}]
    BY Zenon, <2>1 DEF IInv, FreeInv, CountsExact, TypeOK
  <2> QED
    BY Zenon, <2>1, <2>2, Unused
  \* exec() loads its image unseen.
<1>ExecUnseen.
      ASSUME IInv, NEW p \in Procs, NEW f \in Frames, NEW v \in Values, exec(p, f, v)
      PROVE  Mem' = Mem
  <2> USE <1>ExecUnseen
  <2>1. kalloc(f, v) /\ map' = map /\ pc' = [pc EXCEPT ![p] = "exec"] /\ Live(p)
    BY Zenon DEF exec, spaces, Goto, Live
  <2>2. \A q \in Procs : Live(q)' = Live(q)
    BY Zenon, <2>1 DEF Live, IInv, CountsExact, TypeOK
  <2> QED
    BY Zenon, <2>1, <2>2, <1>AllocUnmapped, <1>UnmappedStep
  \* deallocuvm() frees a frame that nobody maps.
<1>DeallocUnseen.
      ASSUME IInv, NEW p \in Procs, dealloc_page(p)
      PROVE  Mem' = Mem
  <2> USE <1>DeallocUnseen
  <2>1. PICK f : f = dir[p][page[p]]
    OBVIOUS
  <2>2. /\ map' = map /\ pc' = [pc EXCEPT ![p] = "free"] /\ Live(p)
        /\ \/ pc[p] = "kfree" /\ data' = [data EXCEPT ![f] = JUNK]
           \/ data' = data
    BY Zenon, <2>1 DEF dealloc_page, spaces, Goto, Live, kfree, decref
  <2>3. \A q \in Procs : Live(q)' = Live(q)
    BY Zenon, <2>2 DEF Live, IInv, CountsExact, TypeOK
  <2>4. CASE data' = data
    BY Zenon, <2>2, <2>3, <2>4, <1>Unseen
  <2>5. CASE pc[p] = "kfree" /\ data' = [data EXCEPT ![f] = JUNK]
    <3>1. page[p] \in Present(dir[p]) /\ refs[dir[p][page[p]]] = 1
      BY Zenon, <2>5 DEF IInv, ProcInv, PcOk
    <3>2. page[p] \in Pages /\ f \in Frames /\ refs[f] = 1
      BY <2>1, <3>1 DEF Present, IInv, CountsExact, TypeOK, Directory
    <3>3. ~Pending(p, page[p])
      BY Zenon, <2>5 DEF Pending
    <3>4. \A q \in Procs, h \in Pages : map[q][h] # f
      BY SMTT(30), <2>1, <3>2, <3>3, Sharing
    <3>5. \A x \in Frames \ {f} : data'[x] = data[x]
      BY Zenon, <2>5 DEF IInv, CountsExact, TypeOK
    <3> QED BY ZenonT(30), <2>2, <2>3, <3>2, <3>4, <3>5, <1>UnmappedStep
  <2> QED
    BY Zenon, <2>2, <2>4, <2>5
  \* fork() builds a child, and a call ends, without being seen.
<1>SlotsUnseen.
      ASSUME IInv, NEW p \in Procs, dealloc_done(p) \/ \E c \in Procs : fork(p, c)
      PROVE  Mem' = Mem
  <2> USE <1>SlotsUnseen
  <2>1. map' = map /\ data' = data
    BY Zenon DEF dealloc_done, fork, kmem, spaces
  <2>2. TypeOK /\ ChildInv
    BY Zenon DEF IInv, CountsExact
  <2>3. ASSUME NEW q \in Procs PROVE Live(q)' = Live(q)
    <3>1. CASE dealloc_done(p)
      <4>1. /\ pc'[q] = IF q = p THEN "user" ELSE IF q = child[p] THEN "unused" ELSE pc[q]
            /\ pc[p] = "free"
        BY Zenon, <3>1 DEF dealloc_done
      <4>2. q = child[p] => pc[q] \in {"embryo", "zombie"}
        BY Zenon, <2>2, MemAssumption DEF ChildInv
      <4> QED BY Zenon, <4>1, <4>2 DEF Live
    <3>2. CASE \E c \in Procs : fork(p, c)
      <4>1. PICK c \in Procs : pc[p] = "user" /\ pc[c] = "unused"
                               /\ pc' = [pc EXCEPT ![p] = "fork", ![c] = "embryo"]
        BY Zenon, <3>2 DEF fork
      <4> QED BY Zenon, <2>2, <4>1 DEF Live, TypeOK
    <3> QED BY Zenon, <3>1, <3>2
  <2> QED
    BY Zenon, <2>1, <2>3, <1>Unseen
  \* wait() takes the pages of a process that no longer reads them.
<1>WaitUnseen.
      ASSUME IInv, NEW p \in Procs, NEW c \in Procs, wait(p, c)
      PROVE  Mem' = Mem
  <2> USE <1>WaitUnseen
  <2>1. /\ pc[p] = "user" /\ pc[c] = "zombie" /\ pc' = [pc EXCEPT ![p] = "free"]
        /\ map' = [map EXCEPT ![c] = NoPages] /\ data' = data
    BY Zenon DEF wait, kmem, Goto
  <2>2. \A q \in Procs : Live(q)' = Live(q)
    BY Zenon, <2>1 DEF Live, IInv, CountsExact, TypeOK
  <2>3. \A q \in Procs, h \in Pages : Live(q) => map'[q][h] = map[q][h]
    BY Zenon, <2>1 DEF Live, IInv, CountsExact, TypeOK
  <2>4. \A q \in Procs, h \in Pages : Seen(q, h)' = Seen(q, h)
    BY Zenon, <2>1, <2>2, <2>3, <1>SeenKept
  <2> QED
    BY Zenon, <2>4, <1>SeenSame
  \* The copy of a page has the contents of the page.
<1>CopyUnseen.
      ASSUME IInv, NEW p \in Procs, pgflt_copy(p)
      PROVE  Mem' = Mem
  <2> USE <1>CopyUnseen
  <2>1. pc[p] = "copy" /\ TypeOK /\ PcOk(p)
    BY Zenon DEF pgflt_copy, IInv, CountsExact, ProcInv
  <2>2. CASE free = {} /\ Return(p) /\ UNCHANGED <<kmem, spaces, frame>>
    <3>1. \A q \in Procs : Live(q)' = Live(q)
      BY Zenon, <2>1, <2>2 DEF Live, TypeOK, Return, Goto
    <3> QED BY Zenon, <2>2, <3>1, <1>Unseen DEF kmem, spaces
  <2>3. CASE ~(free = {} /\ Return(p) /\ UNCHANGED <<kmem, spaces, frame>>)
    <3>1. PICK g : g = page[p]
      OBVIOUS
    <3>2. PICK f \in free : /\ kalloc(f, data[map[p][g]]) /\ map' = [map EXCEPT ![p][g] = f]
                            /\ pc' = [pc EXCEPT ![p] = "decref"]
      BY Zenon, <2>3, <3>1 DEF pgflt_copy, Goto
    <3>3. /\ f \in Frames /\ data'[f] = data[map[p][g]]
          /\ \A q \in Procs, h \in Pages : map[q][h] # f
          /\ \A x \in Frames \ {f} : data'[x] = data[x]
      BY Zenon, <3>2, <1>AllocUnmapped
    <3>4. g \in Pages /\ map[p][g] # NOFRAME
      BY Zenon, <2>1, <3>1 DEF PcOk, Present
    <3>5. map'[p][g] = f /\ \A q \in Procs, h \in Pages : (q # p \/ h # g) => map'[q][h] = map[q][h]
      BY Zenon, <2>1, <3>2, <3>4 DEF TypeOK, Directory
    <3>6. \A q \in Procs : Live(q)' = Live(q)
      BY Zenon, <2>1, <3>2 DEF Live, TypeOK
    <3>7. \A q \in Procs, h \in Pages : map[q][h] # NOFRAME => map[q][h] \in Frames \ {f}
      BY SMTT(30), <2>1, <3>3 DEF TypeOK, Directory
    <3>8. \A q \in Procs, h \in Pages : (q # p \/ h # g) => Seen(q, h)' = Seen(q, h)
      <4> SUFFICES ASSUME NEW q \in Procs, NEW h \in Pages, q # p \/ h # g
                   PROVE  Seen(q, h)' = Seen(q, h)
        BY Zenon
      <4>1. Live(q)' = Live(q) /\ map'[q][h] = map[q][h]
        BY Zenon, <3>5, <3>6
      <4>2. map[q][h] # NOFRAME => data'[map[q][h]] = data[map[q][h]]
        BY Zenon, <3>3, <3>7
      <4> QED BY Zenon, <4>1, <4>2, <1>SeenKept
    <3>9. Seen(p, g)' = Seen(p, g)
      <4>1. Live(p) /\ Live(p)' /\ f # NOFRAME
        BY Zenon, <2>1, <3>3, <3>6, MemAssumption DEF Live
      <4> QED BY Zenon, <3>3, <3>4, <3>5, <4>1 DEF Seen
    <3>10. \A q \in Procs, h \in Pages : Seen(q, h)' = Seen(q, h)
      BY ZenonT(30), <3>8, <3>9
    <3> QED BY Zenon, <3>10, <1>SeenSame
  <2> QED
    BY Zenon, <2>2, <2>3
  \* sbrk() adds a page of zeroes.
<1>GrowSeen.
      ASSUME IInv, NEW p \in Procs, NEW f \in Frames, sbrk_grow(p, f)
      PROVE  \E g \in Pages : Mem[p][g] = NOFRAME /\ Mem' = [Mem EXCEPT ![p][g] = ZERO]
  <2> USE <1>GrowSeen
  <2>1. PICK g : g = Size(p)
    OBVIOUS
  <2>2. /\ pc[p] = "user" /\ g < NPAGES /\ kalloc(f, ZERO)
        /\ map' = [map EXCEPT ![p][g] = f] /\ pc' = pc
    BY Zenon, <2>1 DEF sbrk_grow, Room
  <2>3. g \in Pages /\ g \notin Present(map[p])
    <3>1. g \in 0 .. NPAGES /\ Present(map[p]) = 0 .. (g - 1)
      BY Zenon, <2>1, SizeIs
    <3>2. g \in Nat /\ ~(g \in 0 .. (g - 1)) /\ g \in Pages
      BY SMTT(30), <2>2, <3>1, MemAssumption DEF Pages
    <3> QED BY Zenon, <3>1, <3>2
  <2>4. TypeOK /\ Live(p) /\ Live(p)' /\ \A q \in Procs : Live(q)' = Live(q)
    BY Zenon, <2>2 DEF IInv, CountsExact, Live
  <2>5. /\ data'[f] = ZERO /\ \A q \in Procs, h \in Pages : map[q][h] # f
        /\ \A x \in Frames \ {f} : data'[x] = data[x]
    BY ZenonT(30), <2>2, <1>AllocUnmapped
  <2>6. map'[p][g] = f /\ \A q \in Procs, h \in Pages : (q # p \/ h # g) => map'[q][h] = map[q][h]
    BY SMTT(30), <2>2, <2>3, <2>4 DEF TypeOK, Directory
  <2>7. \A q \in Procs, h \in Pages : map[q][h] # NOFRAME => map[q][h] \in Frames \ {f}
    BY SMTT(30), <2>4, <2>5 DEF TypeOK, Directory
  <2>8. \A q \in Procs, h \in Pages : (q # p \/ h # g) => Seen(q, h)' = Seen(q, h)
    <3> SUFFICES ASSUME NEW q \in Procs, NEW h \in Pages, q # p \/ h # g
                 PROVE  Seen(q, h)' = Seen(q, h)
      BY Zenon
    <3>1. Live(q)' = Live(q) /\ map'[q][h] = map[q][h]
      BY Zenon, <2>4, <2>6
    <3>2. map[q][h] # NOFRAME => data'[map[q][h]] = data[map[q][h]]
      BY Zenon, <2>5, <2>7
    <3> QED BY Zenon, <3>1, <3>2, <1>SeenKept
  <2>9. Seen(p, g)' = ZERO
    BY Zenon, <2>4, <2>5, <2>6, MemAssumption DEF Seen
  <2>10. Mem[p][g] = NOFRAME
    BY Zenon, <2>3 DEF Mem, Seen, Present
  <2> QED
    BY SMTT(30), <2>3, <2>8, <2>9, <2>10, <1>SeenEntry
  \* sbrk() takes the last page away.
<1>ShrinkSeen.
      ASSUME IInv, NEW p \in Procs, sbrk_shrink(p)
      PROVE  \E g \in Pages : Mem' = [Mem EXCEPT ![p][g] = NOFRAME]
  <2> USE <1>ShrinkSeen
  <2>1. PICK g : g = Size(p) - 1
    OBVIOUS
  <2>2. /\ pc[p] = "user" /\ Size(p) > 1 /\ data' = data
        /\ map' = [map EXCEPT ![p][g] = NOFRAME] /\ pc' = [pc EXCEPT ![p] = "free"]
    BY Zenon, <2>1 DEF sbrk_shrink, kmem, Goto
  <2>3. g \in Pages
    BY SMTT(30), <2>1, <2>2, SizeIs, MemAssumption DEF Pages
  <2>4. TypeOK /\ \A q \in Procs : Live(q)' = Live(q)
    BY Zenon, <2>2 DEF IInv, CountsExact, Live, TypeOK
  <2>5. /\ map'[p][g] = NOFRAME
        /\ \A q \in Procs, h \in Pages : (q # p \/ h # g) => map'[q][h] = map[q][h]
    BY Zenon, <2>2, <2>3, <2>4 DEF TypeOK, Directory
  <2>6. \A q \in Procs, h \in Pages : (q # p \/ h # g) => Seen(q, h)' = Seen(q, h)
    BY Zenon, <2>2, <2>4, <2>5, <1>SeenKept
  <2>7. Seen(p, g)' = NOFRAME
    BY Zenon, <2>5 DEF Seen
  <2> QED
    BY SMTT(30), <2>3, <2>6, <2>7, <1>SeenEntry
  \* exec() replaces all pages by those of the image.
<1>ExecSeen.
      ASSUME IInv, NEW p \in Procs, exec_commit(p)
      PROVE  \E g \in Pages, v \in Values :
               Mem' = [Mem EXCEPT ![p] = [h \in Pages |-> IF h < g + 1 THEN v ELSE NOFRAME]]
  <2> USE <1>ExecSeen
  <2>1. /\ pc[p] = "exec" /\ map' = [map EXCEPT ![p] = dir[p]]
        /\ pc' = [pc EXCEPT ![p] = "free"] /\ data' = data
    BY Zenon DEF exec_commit, kmem, Goto
  <2>2. TypeOK /\ Loaded(p)
    BY Zenon, <2>1 DEF IInv, CountsExact, ProcInv, PcOk
  <2>3. PICK v \in Values : \A h \in Present(dir[p]) : data[dir[p][h]] = v
    BY Zenon, <2>2 DEF Loaded
  <2>4. PICK g \in Pages : page[p] = g + 1 /\ Present(dir[p]) = 0 .. g
    <3>1. page[p] \in 0 .. NPAGES /\ page[p] > 0 /\ Present(dir[p]) = 0 .. (page[p] - 1)
      BY Zenon, <2>2 DEF Loaded, TypeOK
    <3>2. page[p] - 1 \in Pages /\ page[p] = (page[p] - 1) + 1
      BY <3>1, MemAssumption DEF Pages
    <3> QED BY Zenon, <3>1, <3>2
  <2> DEFINE d == [h \in Pages |-> IF h < g + 1 THEN v ELSE NOFRAME]
  <2>5. map'[p] = dir[p] /\ \A q \in Procs \ {p} : map'[q] = map[q]
    BY Zenon, <2>1, <2>2 DEF TypeOK
  <2>6. Live(p)' /\ \A q \in Procs : Live(q)' = Live(q)
    BY Zenon, <2>1, <2>2 DEF Live, TypeOK
  <2>7. ASSUME NEW h \in Pages PROVE Seen(p, h)' = d[h]
    <3>1. h < g + 1 <=> h \in Present(dir[p])
      BY SMTT(30), <2>4, MemAssumption DEF Pages
    <3>2. h \in Present(dir[p]) <=> dir[p][h] # NOFRAME
      BY Zenon DEF Present
    <3> QED BY Zenon, <2>1, <2>3, <2>5, <2>6, <3>1, <3>2 DEF Seen
  <2>8. \A q \in Procs \ {p}, h \in Pages : Seen(q, h)' = Seen(q, h)
    BY Zenon, <2>1, <2>5, <2>6, <1>SeenKept
  <2>9. d = [h \in Pages |-> d[h]]
    OBVIOUS
  <2> HIDE DEF d
  <2>10. Mem' = [Mem EXCEPT ![p] = d]
    BY Zenon, <2>7, <2>8, <2>9, <1>SeenRow
  <2> QED
    BY Zenon, <2>10 DEF d
  \* The memory of a process that exits is gone.
<1>ExitSeen.
      ASSUME IInv, NEW p \in Procs, exit(p)
      PROVE  Mem' = [Mem EXCEPT ![p] = NoPages]
  <2> USE <1>ExitSeen
  <2>1. map' = map /\ data' = data /\ pc' = [pc EXCEPT ![p] = "zombie"]
    BY Zenon DEF exit, kmem, spaces, Goto
  <2>2. ~Live(p)' /\ \A q \in Procs \ {p} : Live(q)' = Live(q)
    BY Zenon, <2>1 DEF Live, IInv, CountsExact, TypeOK
  <2>3. \A g \in Pages : Seen(p, g)' = NoPages[g]
    BY Zenon, <2>2 DEF Seen, NoPages
  <2>4. \A q \in Procs \ {p}, h \in Pages : Seen(q, h)' = Seen(q, h)
    BY Zenon, <2>1, <2>2, <1>SeenKept
  <2>5. NoPages = [g \in Pages |-> NoPages[g]]
    BY Zenon DEF NoPages
  <2> QED
    BY Zenon, <2>3, <2>4, <2>5, <1>SeenRow
  \* The child starts with a copy of what its parent has now, not of what it had
  \* when fork() was called.
<1>ForkSeen.
      ASSUME IInv, NEW p \in Procs, fork_done(p)
      PROVE  \E c \in Procs : Mem[c] = NoPages /\ Mem' = [Mem EXCEPT ![c] = Mem[p]]
  <2> USE <1>ForkSeen
  <2>1. PICK c \in Procs : c = child[p] /\ pc[c] = "embryo" /\ c # p
    BY Zenon DEF fork_done, IInv, CountsExact, TypeOK, ChildInv
  <2>2. /\ pc[p] = "fork" /\ page[p] = Size(p) /\ map' = [map EXCEPT ![c] = dir[p]]
        /\ pc' = [pc EXCEPT ![p] = "user", ![c] = "user"] /\ data' = data
    BY Zenon, <2>1 DEF fork_done, kmem
  <2>3. /\ ~Live(c) /\ Live(c)' /\ Live(p) /\ \A q \in Procs \ {c} : Live(q)' = Live(q)
        /\ map'[c] = dir[p] /\ \A q \in Procs \ {c} : map'[q] = map[q]
    BY Zenon, <2>1, <2>2 DEF Live, IInv, CountsExact, TypeOK
  <2>4. \A g \in Pages : dir[p][g] = map[p][g]
    BY ZenonT(30), <2>2, ForkCopied
  <2>5. \A g \in Pages : Seen(c, g)' = Seen(p, g)
    BY SMTT(30), <2>2, <2>3, <2>4 DEF Seen
  <2>6. \A q \in Procs \ {c}, h \in Pages : Seen(q, h)' = Seen(q, h)
    BY Zenon, <2>2, <2>3, <1>SeenKept
  <2>7. Mem[p] = [g \in Pages |-> Seen(p, g)]
    BY Zenon DEF Mem
  <2>8. Mem[p] = [g \in Pages |-> Mem[p][g]] /\ \A g \in Pages : Seen(c, g)' = Mem[p][g]
    BY Zenon, <2>5, <2>7
  <2>9. Mem' = [Mem EXCEPT ![c] = Mem[p]]
    BY Zenon, <2>6, <2>8, <1>SeenRow
  <2>10. Mem[c] = NoPages
    BY Zenon, <2>3 DEF Mem, Seen, NoPages
  <2> QED
    BY ZenonT(30), <2>9, <2>10
<1> SUFFICES ASSUME IInv, [Next]_vars PROVE Private!Next \/ Mem' = Mem
  OBVIOUS
<1>1. ASSUME NEW p \in Procs, NEW g \in Pages, NEW v \in Values,
             Mem[p][g] # NOFRAME, Mem' = [Mem EXCEPT ![p][g] = v]
      PROVE  Private!Next
  <2>1. Private!Store(p, g, v)
    BY Zenon, <1>1 DEF Private!Store, Mem, Seen
  <2> QED BY Zenon, <2>1 DEF Private!Next
<1>2. ASSUME NEW p \in Procs, NEW g \in Pages,
             Mem[p][g] = NOFRAME, Mem' = [Mem EXCEPT ![p][g] = ZERO]
      PROVE  Private!Next
  BY Zenon, <1>2 DEF Private!Next, Private!Grow, Mem, Seen
<1>3. ASSUME NEW p \in Procs, NEW g \in Pages, Mem' = [Mem EXCEPT ![p][g] = NOFRAME]
      PROVE  Private!Next
  BY Zenon, <1>3 DEF Private!Next, Private!Shrink, Mem, Seen
<1>4. ASSUME NEW p \in Procs, NEW c \in Procs,
             Mem[c] = NoPages, Mem' = [Mem EXCEPT ![c] = Mem[p]]
      PROVE  Private!Next
  BY Zenon, <1>4 DEF Private!Next, Private!Fork, Private!NoPages, NoPages, Mem, Seen
<1>5. ASSUME NEW p \in Procs, NEW g \in Pages, NEW v \in Values,
             Mem' = [Mem EXCEPT ![p] = [h \in Pages |-> IF h < g + 1 THEN v ELSE NOFRAME]]
      PROVE  Private!Next
  <2>1. Private!Exec(p, g + 1, v)
    BY Zenon, <1>5 DEF Private!Exec, Mem, Seen
  <2> QED BY Zenon, <2>1 DEF Private!Next
<1>6. ASSUME NEW p \in Procs, Mem' = [Mem EXCEPT ![p] = NoPages]
      PROVE  Private!Next
  BY Zenon, <1>6 DEF Private!Next, Private!Exit, Private!NoPages, NoPages, Mem, Seen
<1>7. CASE UNCHANGED vars
  BY Zenon, <1>7, <1>Unseen DEF vars, Live
<1>8. CASE Next
  <2>1. PICK p \in Procs :
          \/ \E g \in Pages : handlepgflt(p, g) \/ \E v \in Values : store(p, g, v)
          \/ pgflt_own(p) \/ pgflt_copy(p) \/ pgflt_decref(p)
          \/ \E c \in Procs : fork(p, c) \/ wait(p, c)
          \/ cow_map(p) \/ cow_incref(p) \/ fork_done(p)
          \/ \E f \in Frames : sbrk_grow(p, f) \/ \E v \in Values : exec(p, f, v)
          \/ sbrk_shrink(p) \/ exec_bad(p) \/ exec_commit(p) \/ exit(p)
          \/ dealloc(p) \/ dealloc_page(p) \/ dealloc_done(p)
    BY Zenon, <1>8 DEF Next
  <2>2. CASE \E g \in Pages, v \in Values : store(p, g, v)
    <3>1. PICK g \in Pages, v \in Values : store(p, g, v)
      BY Zenon, <2>2
    <3>2. Mem[p][g] # NOFRAME /\ Mem' = [Mem EXCEPT ![p][g] = v]
      BY Zenon, <3>1, <1>StoreSeen
    <3> QED BY Zenon, <3>2, <1>1
  <2>3. CASE \/ \E g \in Pages : handlepgflt(p, g)
             \/ pgflt_own(p) \/ pgflt_decref(p) \/ cow_map(p) \/ cow_incref(p)
             \/ exec_bad(p) \/ dealloc(p)
    BY Zenon, <2>3, <1>QuietSteps
  <2>4. CASE pgflt_copy(p) \/ dealloc_page(p)
    BY Zenon, <2>4, <1>CopyUnseen, <1>DeallocUnseen
  <2>5. CASE dealloc_done(p) \/ \E c \in Procs : fork(p, c)
    BY Zenon, <2>5, <1>SlotsUnseen
  <2>6. CASE \E c \in Procs : wait(p, c)
    BY ZenonT(30), <2>6, <1>WaitUnseen
  <2>7. CASE fork_done(p)
    BY Zenon, <2>7, <1>4, <1>ForkSeen
  <2>8. CASE \E f \in Frames : sbrk_grow(p, f)
    BY Zenon, <2>8, <1>2, <1>GrowSeen
  <2>9. CASE \E f \in Frames, v \in Values : exec(p, f, v)
    BY Zenon, <2>9, <1>ExecUnseen
  <2>10. CASE sbrk_shrink(p)
    BY Zenon, <2>10, <1>3, <1>ShrinkSeen
  <2>11. CASE exec_commit(p)
    BY ZenonT(30), <2>11, <1>5, <1>ExecSeen
  <2>12. CASE exit(p)
    BY Zenon, <2>12, <1>6, <1>ExitSeen
  <2> QED
    BY Zenon, <2>1, <2>2, <2>3, <2>4, <2>5, <2>6, <2>7, <2>8, <2>9, <2>10, <2>11, <2>12
<1> QED BY Zenon, <1>7, <1>8

\* The first process has the memory that PrivateMemory starts with.
LEMMA PrivateInit == Init => Private!Init
<1> SUFFICES ASSUME Init PROVE Private!Init
  OBVIOUS
<1>1. PICK f \in Frames :
        /\ data = [x \in Frames |-> IF x = f THEN ZERO ELSE JUNK]
        /\ map = [p \in Procs |-> IF p = INITPROC THEN [NoPages EXCEPT ![0] = f] ELSE NoPages]
        /\ pc = [p \in Procs |-> IF p = INITPROC THEN "user" ELSE "unused"]
  BY Zenon DEF Init
<1>2. 0 \in Pages /\ INITPROC \in Procs /\ f # NOFRAME /\ data[f] = ZERO
  BY <1>1, MemAssumption DEF Pages
<1>3. \A q \in Procs, g \in Pages :
        Seen(q, g) = IF q = INITPROC /\ g = 0 THEN ZERO ELSE NOFRAME
  BY Zenon, <1>1, <1>2 DEF Seen, Live, NoPages
<1>4. Mem = [q \in Procs |-> IF q = INITPROC THEN [NoPages EXCEPT ![0] = ZERO] ELSE NoPages]
  BY Zenon, <1>2, <1>3 DEF Mem, NoPages
<1>5. Private!NoPages = NoPages
  BY Zenon DEF Private!NoPages, NoPages
<1>6. \E p \in Procs :
        Mem = [q \in Procs |-> IF q = p THEN [Private!NoPages EXCEPT ![0] = ZERO]
                                        ELSE Private!NoPages]
  BY Zenon, <1>2, <1>4, <1>5
<1> QED BY Zenon, <1>6 DEF Private!Init, Mem, Seen

=============================================================================
