------------------------ MODULE WorkspaceFilesProofs ------------------------
(***************************************************************************)
(* What restore() and SnapshotStore.create() promise, for any number of    *)
(* threads, files, snapshots, faults and deaths of the process.            *)
(***************************************************************************)
EXTENDS WorkspaceFiles, FiniteSetTheorems, WellFoundedInduction, TLAPS

-----------------------------------------------------------------------------
(* The inductive invariant.                                                *)

\* A directory that is there, and one that holds source files only.
Tree == [Path -> Content]
Plain(dir) == dir \in Tree /\ \A p \in Path \ Source : dir[p] = None

\* The variables of the disk, and those of the threads.
Label == {"idle", "check", "put", "copy", "copying", "copied", "discard", "stage", "carry", "swap", "recover", "sweep",
          "return", "raise"}

DirTypes ==
    /\ project \in Dir /\ staging \in Dir /\ trash \in Dir /\ start \in Dir /\ wreck \subseteq Dir
    /\ snaps \in [SnapshotId -> Dir] /\ \A s \in SnapshotId : snaps[s] = Gone \/ Plain(snaps[s])

ThreadTypes ==
    /\ owner \in Thread \cup {None}
    /\ call \in [Thread -> {"write", "create", "snapshot", "restore", None}]
    /\ pc \in [Thread -> Label] /\ todo \in [Thread -> SUBSET Path] /\ arg = [t \in Thread |-> arg[t]]
    /\ copy \in [file : Path \cup {None}, total : Nat]
    /\ \A t \in Thread : IF pc[t] = "idle" THEN call[t] = None ELSE owner = t
    /\ raced \in BOOLEAN /\ faults \in 0..MaxFaults /\ deaths \in 0..MaxDeaths

TypeInv == DirTypes /\ ThreadTypes

\* Where the thread that holds the lock can be in its operation.
Placed(t) ==
    \/ /\ call[t] \in {"write", "create"} /\ pc[t] \in {"check", "put", "return", "raise"}
       /\ arg[t].path \in Path /\ arg[t].size \in Size
    \/ /\ call[t] = "snapshot" /\ pc[t] \in {"copy", "copying", "copied", "discard", "return", "raise"}
       /\ arg[t].id \in SnapshotId /\ todo[t] \subseteq Source
       /\ pc[t] \in {"copying", "copied"} => copy.file \in todo[t]
    \/ /\ call[t] = "restore"
       /\ pc[t] \in {"stage", "carry", "swap", "recover", "sweep", "return", "raise"}
       /\ arg[t].id \in SnapshotId /\ Plain(arg[t].asked)

\* Which directories there are: only a restore has more than the project, and
\* the project is away only between its two renames.
DirsInv(t) ==
    /\ call[t] # "restore" => project # Gone /\ staging = Gone /\ trash = Gone
    /\ call[t] = "restore" =>
         /\ pc[t] \in {"stage", "carry"} => project # Gone /\ staging # Gone /\ trash = Gone
         /\ pc[t] = "swap" => project = Gone /\ staging # Gone /\ trash # Gone
         /\ pc[t] = "sweep" => project # Gone /\ staging = Gone /\ trash # Gone
         /\ pc[t] = "return" => project # Gone /\ staging = Gone /\ trash = Gone
         /\ pc[t] = "recover" => staging # Gone /\ (project = Gone <=> trash # Gone)
         /\ pc[t] = "raise" /\ project = Gone => staging # Gone /\ trash # Gone

LockInv ==
    IF owner = None THEN staging = Gone /\ trash = Gone
    ELSE pc[owner] # "idle" /\ start # Gone /\ Placed(owner) /\ DirsInv(owner)

\* A write has been checked against the project it changes.
WriteInv(t) ==
    call[t] \in {"write", "create"} /\ ~raced =>
        /\ pc[t] \in {"check", "put"} => project = start
        /\ pc[t] = "put" => Fits(arg[t].path, arg[t].size)
        /\ pc[t] = "return" =>
             /\ Bytes(project) <= MaxProjectSize
             /\ Files(project) # Files(start) => Cardinality(Files(project)) <= MaxFiles

\* What create() has copied is what the project was.
Loop == {"copy", "copying", "copied"}
Left(t) == IF pc[t] = "copied" THEN todo[t] \ {copy.file} ELSE todo[t]

CopyInv(t) ==
    call[t] = "snapshot" /\ ~raced =>
        /\ pc[t] \in Loop =>
             /\ project = start /\ todo[t] \subseteq Files(start)
             /\ snaps[arg[t].id] = [p \in Path |-> IF p \in Source \ Left(t) THEN start[p] ELSE None]
        /\ pc[t] = "return" =>
             snaps[arg[t].id] = [p \in Path |-> IF p \in Source THEN start[p] ELSE None]

\* A directory with the project's own files, with those of the snapshot.
Ours(dir) == \A p \in Source \cup Secret : dir[p] = start[p]
Asked(t, dir) == \A p \in Source \cup Secret : dir[p] = arg[t].asked[p]

\* Recovery finds each part of the project in one of two places.
Scattered ==
    /\ staging # Gone
    /\ IF project = Gone THEN Ours(trash) /\ \A d \in Derived : staging[d] = start[d] /\ trash[d] = None
       ELSE /\ Ours(project)
            /\ \A d \in Derived : \/ project[d] = start[d] /\ staging[d] = None
                                  \/ project[d] = None /\ staging[d] = start[d]

Replaced(t) == project = [p \in Path |-> IF p \in Derived THEN start[p] ELSE arg[t].asked[p]]

RestoreInv(t) ==
    call[t] = "restore" /\ ~raced =>
        /\ pc[t] = "stage" =>
             /\ project = start /\ snaps[arg[t].id] = arg[t].asked /\ todo[t] \subseteq Files(arg[t].asked)
             /\ staging = [p \in Path |-> IF p \in todo[t] THEN None ELSE arg[t].asked[p]]
        /\ pc[t] = "carry" =>
             /\ todo[t] \subseteq Derived /\ Ours(project) /\ Asked(t, staging)
             /\ \A d \in Derived : IF d \in todo[t] THEN project[d] = start[d] /\ start[d] # None /\ staging[d] = None
                                   ELSE project[d] = None /\ staging[d] = start[d]
        /\ pc[t] = "swap" =>
             /\ todo[t] = {} /\ Ours(trash) /\ Asked(t, staging)
             /\ \A d \in Derived : staging[d] = start[d] /\ trash[d] = None
        /\ pc[t] = "sweep" => Ours(trash) /\ Replaced(t)
        /\ pc[t] = "return" => Replaced(t)
        /\ pc[t] = "recover" => faults >= 1 /\ Scattered
        /\ pc[t] = "raise" => project = start \/ (faults > 1 /\ Scattered)

OperationInv == owner # None => WriteInv(owner) /\ CopyInv(owner) /\ RestoreInv(owner)

\* A project the process died without is still on the disk.
Saved(places) ==
    /\ \E dir \in places : Ours(dir)
    /\ \A d \in Derived : \E dir \in places : dir[d] = start[d]
WreckInv == owner = None /\ project = Gone /\ ~raced => Saved(wreck)

\* The snapshots f, and what they take of the quota of the store.
Taken(f) == [s \in SnapshotId |-> Bytes(f[s])]
UsedIn(f) == SumFunctionOnSet(Taken(f), SnapshotId)
RestIn(f, s) == SumFunctionOnSet(Taken(f), SnapshotId \ {s})
IdsIn(f) == {s \in SnapshotId : f[s] # Gone}
Bounded(f) ==
    /\ Cardinality(IdsIn(f)) <= MaxSnapshots
    /\ \/ UsedIn(f) <= MaxStorage
       \/ \E s \in SnapshotId : \E p \in Files(f[s]) : UsedIn(f) - f[s][p] <= MaxStorage

\* The arguments a of a create() that goes on, what it has counted, the snapshot dir
\* without the file at hand, and the files that are left.
Fitting(f, a, total, dir, rest) ==
    /\ a.used \in Nat /\ total \in Nat /\ RestIn(f, a.id) <= a.used /\ a.used + total <= MaxStorage
    /\ Cardinality(IdsIn(f) \cup {a.id}) <= MaxSnapshots
    /\ dir \in Tree /\ Bytes(dir) <= total /\ \A p \in rest : dir[p] = None

Without(dir, p) == [Made(dir) EXCEPT ![p] = None]
Counted(t) == IF pc[t] = "copied" THEN Without(snaps[arg[t].id], copy.file) ELSE Made(snaps[arg[t].id])

CopyQuota(t) ==
    /\ pc[t] \in Loop => Fitting(snaps, arg[t], copy.total, Counted(t), todo[t])
    /\ call[t] = "snapshot" /\ pc[t] = "return" => UsedIn(snaps) <= MaxStorage
QuotaInv ==
    /\ Bounded(snaps)
    /\ owner # None => CopyQuota(owner)
    /\ owner = None \/ pc[owner] \notin Loop => copy = NoCopy

IInv == TypeInv /\ LockInv /\ OperationInv /\ WreckInv /\ QuotaInv

-----------------------------------------------------------------------------
(* Sums over a finite set.  The theorems of the library take the induction *)
(* hypothesis as an operator; NaturalInduction takes it as a set, which    *)
(* the provers can be given.                                               *)

\* Induction over the naturals, for a set: no operator is passed.
LEMMA NaturalInduction ==
    ASSUME NEW T \in SUBSET Nat, 0 \in T, \A n \in T : n + 1 \in T
    PROVE  T = Nat
<1> SUFFICES ASSUME Nat \ T # {} PROVE FALSE
  OBVIOUS
<1>1. PICK m \in Nat \ T : \A y \in Nat \ T : ~ (<<y, m>> \in OpToRel(<, Nat))
  BY NatLessThanWellFounded, WFMin, Zenon
<1>2. m - 1 \in Nat /\ m - 1 < m /\ m = (m - 1) + 1
  OBVIOUS
<1>3. <<m - 1, m>> \in OpToRel(<, Nat)
  <2>1. <<m - 1, m>> \in Nat \X Nat /\ <<m - 1, m>>[1] < <<m - 1, m>>[2]
    BY <1>2
  <2> QED BY <2>1, Zenon DEF OpToRel
<1>4. m - 1 \in T
  BY <1>1, <1>2, <1>3, Zenon
<1> QED BY <1>2, <1>4

\* The sum over a set is a recursive function of its subsets.
First(s) == CHOOSE x \in s : TRUE
Body(f, g, s) == IF s = {} THEN 0 ELSE f[First(s)] + g[s \ {First(s)}]
Iter(f, S) == CHOOSE iter : iter = [s \in SUBSET S |-> Body(f, iter, s)]

LEMMA SumIs == ASSUME NEW f, NEW S PROVE SumFunctionOnSet(f, S) = Iter(f, S)[S]
BY DEF SumFunctionOnSet, FoldFunctionOnSet, MapThenFoldSet, Iter, Body, First

LEMMA FirstFacts ==
    ASSUME NEW S, IsFiniteSet(S), S # {}
    PROVE  /\ First(S) \in S
           /\ IsFiniteSet(S \ {First(S)}) /\ Cardinality(S \ {First(S)}) = Cardinality(S) - 1
           /\ Cardinality(S) \in Nat /\ Cardinality(S) > 0
<1>1. First(S) \in S
  BY DEF First
<1> QED BY <1>1, FS_RemoveElement, FS_CardinalityType, FS_EmptySet

LEMMA IterFacts ==
    ASSUME NEW f, NEW S, IsFiniteSet(S)
    PROVE  \A s \in SUBSET S : Iter(f, S)[s] = Body(f, Iter(f, S), s)
<1> DEFINE Good == {n \in Nat : \E g : /\ g = [s \in SUBSET S |-> g[s]]
                                       /\ \A s \in SUBSET S : Cardinality(s) <= n => g[s] = Body(f, g, s)}
<1>0. \A s \in SUBSET S : IsFiniteSet(s) /\ Cardinality(s) \in Nat /\ Cardinality(s) <= Cardinality(S)
  BY FS_Subset, FS_CardinalityType
<1>1. 0 \in Good
  <2> DEFINE g == [s \in SUBSET S |-> 0]
  <2>1. \A s \in SUBSET S : Cardinality(s) <= 0 => g[s] = Body(f, g, s)
    BY <1>0, FS_EmptySet DEF Body
  <2> QED BY <2>1
<1>2. ASSUME NEW n \in Good PROVE n + 1 \in Good
  <2>1. PICK g : /\ g = [s \in SUBSET S |-> g[s]]
                 /\ \A s \in SUBSET S : Cardinality(s) <= n => g[s] = Body(f, g, s)
    BY <1>2
  <2> DEFINE h == [s \in SUBSET S |-> Body(f, g, s)]
  <2>2. ASSUME NEW s \in SUBSET S, Cardinality(s) <= n + 1 PROVE h[s] = Body(f, h, s)
    <3>1. CASE s = {}
      BY <3>1 DEF Body
    <3>2. CASE s # {}
      <4>1. /\ s \ {First(s)} \in SUBSET S /\ Cardinality(s \ {First(s)}) <= n
        BY <2>2, <3>2, <1>0, FirstFacts
      <4>2. h[s \ {First(s)}] = g[s \ {First(s)}]
        BY <4>1, <2>1
      <4> QED BY <4>2 DEF Body
    <3> QED BY <3>1, <3>2
  <2>3. h = [s \in SUBSET S |-> h[s]]
    OBVIOUS
  <2> HIDE DEF h
  <2>4. n + 1 \in Nat
    OBVIOUS
  <2> QED BY <2>2, <2>3, <2>4, Zenon
<1>3. Good = Nat
  <2> HIDE DEF Good
  <2> QED BY <1>1, <1>2, NaturalInduction DEF Good
<1>4. PICK g : /\ g = [s \in SUBSET S |-> g[s]]
               /\ \A s \in SUBSET S : Cardinality(s) <= Cardinality(S) => g[s] = Body(f, g, s)
  BY <1>3, FS_CardinalityType
<1>5. g = [s \in SUBSET S |-> Body(f, g, s)]
  BY <1>0, <1>4
<1>6. Iter(f, S) = [s \in SUBSET S |-> Body(f, Iter(f, S), s)]
  BY <1>5 DEF Iter
<1> QED BY <1>6

\* Two functions that keep the recursion agree.
LEMMA IterSame ==
    ASSUME NEW f, NEW e, NEW S, IsFiniteSet(S), NEW g, NEW h,
           \A x \in S : f[x] = e[x],
           \A s \in SUBSET S : g[s] = Body(f, g, s) /\ h[s] = Body(e, h, s)
    PROVE  g[S] = h[S]
<1> DEFINE Good == {n \in Nat : \A s \in SUBSET S : Cardinality(s) = n => g[s] = h[s]}
<1>0. \A s \in SUBSET S : IsFiniteSet(s) /\ Cardinality(s) \in Nat
  BY FS_Subset, FS_CardinalityType
<1>1. 0 \in Good
  BY <1>0, FS_EmptySet DEF Body
<1>2. ASSUME NEW n \in Good PROVE n + 1 \in Good
  <2>1. ASSUME NEW s \in SUBSET S, Cardinality(s) = n + 1 PROVE g[s] = h[s]
    <3>1. s # {}
      <4>1. n \in Nat /\ IsFiniteSet(s)
        BY <1>0
      <4>2. Cardinality(s) = 0 <=> s = {}
        BY <4>1, FS_EmptySet, Zenon
      <4> QED BY <2>1, <4>1, <4>2
    <3>2. /\ First(s) \in s /\ s \ {First(s)} \in SUBSET S /\ Cardinality(s \ {First(s)}) = n
      BY <2>1, <3>1, <1>0, FirstFacts
    <3> QED BY <3>1, <3>2 DEF Body
  <2> QED BY <2>1
<1>3. Good = Nat
  <2> HIDE DEF Good
  <2> QED BY <1>1, <1>2, NaturalInduction DEF Good
<1> QED BY <1>0, <1>3

LEMMA SumSame ==
    ASSUME NEW S, IsFiniteSet(S), NEW f, NEW g, \A x \in S : f[x] = g[x]
    PROVE  SumFunctionOnSet(f, S) = SumFunctionOnSet(g, S)
BY SumIs, IterFacts, IterSame

LEMMA SumEmpty == ASSUME NEW f PROVE SumFunctionOnSet(f, {}) = 0
BY SumIs, IterFacts, FS_EmptySet DEF Body

LEMMA SumFirst ==
    ASSUME NEW S, IsFiniteSet(S), S # {}, NEW f
    PROVE  SumFunctionOnSet(f, S) = f[First(S)] + SumFunctionOnSet(f, S \ {First(S)})
<1> DEFINE R == S \ {First(S)}
<1>1. IsFiniteSet(R) /\ R \in SUBSET S
  BY FirstFacts
<1>2. Iter(f, S)[R] = Iter(f, R)[R]
  <2>1. \A s \in SUBSET R : Iter(f, S)[s] = Body(f, Iter(f, S), s) /\ Iter(f, R)[s] = Body(f, Iter(f, R), s)
    BY <1>1, IterFacts
  <2> HIDE DEF R
  <2> QED BY <1>1, <2>1, IterSame
<1> QED BY <1>2, SumIs, IterFacts DEF Body

LEMMA SumType ==
    ASSUME NEW S, IsFiniteSet(S), NEW f, \A x \in S : f[x] \in Nat
    PROVE  SumFunctionOnSet(f, S) \in Nat
<1> DEFINE Good == {n \in Nat : \A s \in SUBSET S : Cardinality(s) = n => SumFunctionOnSet(f, s) \in Nat}
<1>0. \A s \in SUBSET S : IsFiniteSet(s) /\ Cardinality(s) \in Nat
  BY FS_Subset, FS_CardinalityType
<1>1. 0 \in Good
  BY <1>0, FS_EmptySet, SumEmpty
<1>2. ASSUME NEW n \in Good PROVE n + 1 \in Good
  <2>1. ASSUME NEW s \in SUBSET S, Cardinality(s) = n + 1 PROVE SumFunctionOnSet(f, s) \in Nat
    <3>1. s # {}
      <4>1. n \in Nat /\ IsFiniteSet(s)
        BY <1>0
      <4>2. Cardinality(s) = 0 <=> s = {}
        BY <4>1, FS_EmptySet, Zenon
      <4> QED BY <2>1, <4>1, <4>2
    <3>2. /\ First(s) \in s /\ s \ {First(s)} \in SUBSET S /\ Cardinality(s \ {First(s)}) = n
      BY <2>1, <3>1, <1>0, FirstFacts
    <3>3. SumFunctionOnSet(f, s \ {First(s)}) \in Nat /\ f[First(s)] \in Nat
      BY <3>2
    <3>4. SumFunctionOnSet(f, s) = f[First(s)] + SumFunctionOnSet(f, s \ {First(s)})
      BY <1>0, <3>1, SumFirst
    <3> QED BY <3>3, <3>4
  <2> QED BY <2>1
<1>3. Good = Nat
  <2> HIDE DEF Good
  <2> QED BY <1>1, <1>2, NaturalInduction DEF Good
<1> QED BY <1>0, <1>3

LEMMA SumZero ==
    ASSUME NEW S, IsFiniteSet(S), NEW f, \A x \in S : f[x] = 0
    PROVE  SumFunctionOnSet(f, S) = 0
<1> DEFINE Good == {n \in Nat : \A s \in SUBSET S : Cardinality(s) = n => SumFunctionOnSet(f, s) = 0}
<1>0. \A s \in SUBSET S : IsFiniteSet(s) /\ Cardinality(s) \in Nat
  BY FS_Subset, FS_CardinalityType
<1>1. 0 \in Good
  BY <1>0, FS_EmptySet, SumEmpty
<1>2. ASSUME NEW n \in Good PROVE n + 1 \in Good
  <2>1. ASSUME NEW s \in SUBSET S, Cardinality(s) = n + 1 PROVE SumFunctionOnSet(f, s) = 0
    <3>1. n \in Nat /\ IsFiniteSet(s) /\ s # {}
      BY <1>0, <2>1, FS_EmptySet
    <3>2. First(s) \in s /\ s \ {First(s)} \in SUBSET S /\ Cardinality(s \ {First(s)}) = n
      BY <2>1, <3>1, FirstFacts
    <3>3. SumFunctionOnSet(f, s) = f[First(s)] + SumFunctionOnSet(f, s \ {First(s)})
      BY <3>1, SumFirst
    <3>4. f[First(s)] = 0 /\ SumFunctionOnSet(f, s \ {First(s)}) = 0
      BY <3>2
    <3> QED BY <3>3, <3>4
  <2> QED BY <2>1
<1>3. Good = Nat
  <2> HIDE DEF Good
  <2> QED BY <1>1, <1>2, NaturalInduction DEF Good
<1> QED BY <1>0, <1>3

LEMMA SumRemove ==
    ASSUME NEW S, IsFiniteSet(S), NEW f, \A x \in S : f[x] \in Nat, NEW y \in S
    PROVE  SumFunctionOnSet(f, S) = f[y] + SumFunctionOnSet(f, S \ {y})
<1> DEFINE Sum(s) == SumFunctionOnSet(f, s)
           Good == {n \in Nat : \A s \in SUBSET S : Cardinality(s) = n =>
                        \A x \in s : Sum(s) = f[x] + Sum(s \ {x})}
<1>0. \A s \in SUBSET S : IsFiniteSet(s) /\ Cardinality(s) \in Nat /\ Sum(s) \in Nat
  BY FS_Subset, FS_CardinalityType, SumType
<1>1. 0 \in Good
  BY <1>0, FS_EmptySet
<1>2. ASSUME NEW n \in Good PROVE n + 1 \in Good
  <2>1. ASSUME NEW s \in SUBSET S, Cardinality(s) = n + 1, NEW x \in s PROVE Sum(s) = f[x] + Sum(s \ {x})
    <3> DEFINE p == First(s)
               r == s \ {p}
               q == s \ {x}
    <3>1. /\ p \in s /\ r \in SUBSET S /\ Cardinality(r) = n
          /\ Sum(s) = f[p] + Sum(r)
      <4>1. n \in Nat
        OBVIOUS
      <4>2. s # {} /\ IsFiniteSet(s)
        BY <1>0, <2>1
      <4>3. p \in s /\ Cardinality(r) = Cardinality(s) - 1
        BY <4>2, FirstFacts
      <4>4. Sum(s) = f[p] + Sum(r)
        BY <4>2, SumFirst
      <4> QED BY <2>1, <4>1, <4>3, <4>4
    <3>2. CASE x = p
      BY <3>1, <3>2
    <3>3. CASE x # p
      <4>1. q \in SUBSET S /\ Cardinality(q) = n /\ x \in r /\ p \in q /\ r \ {x} = q \ {p} /\ q \ {p} \in SUBSET S
        BY <2>1, <1>0, <3>1, <3>3, FS_RemoveElement
      <4>2. Sum(r) = f[x] + Sum(r \ {x}) /\ Sum(q) = f[p] + Sum(q \ {p})
        BY <3>1, <4>1
      <4>3. f[x] \in Nat /\ f[p] \in Nat /\ Sum(q \ {p}) \in Nat
        BY <1>0, <3>1, <4>1
      <4>4. Sum(r \ {x}) = Sum(q \ {p})
        BY <4>1
      <4>5. Sum(s) = f[x] + Sum(q)
        <5> HIDE DEF p, q, r, Sum
        <5> QED BY <3>1, <4>2, <4>3, <4>4
      <4> QED BY <4>5
    <3> QED BY <3>2, <3>3
  <2> QED BY <2>1
<1>3. Good = Nat
  <2> HIDE DEF Good
  <2> QED BY <1>1, <1>2, NaturalInduction DEF Good
<1> QED BY <1>0, <1>3

LEMMA SumGrows ==
    ASSUME NEW S, IsFiniteSet(S), NEW f, NEW g, \A x \in S : f[x] \in Nat /\ g[x] \in Nat /\ f[x] <= g[x]
    PROVE  SumFunctionOnSet(f, S) <= SumFunctionOnSet(g, S)
<1> DEFINE Good == {n \in Nat : \A s \in SUBSET S : Cardinality(s) = n =>
                        SumFunctionOnSet(f, s) <= SumFunctionOnSet(g, s)}
<1>0. \A s \in SUBSET S : IsFiniteSet(s) /\ Cardinality(s) \in Nat
  BY FS_Subset, FS_CardinalityType
<1>1. 0 \in Good
  BY <1>0, FS_EmptySet, SumEmpty
<1>2. ASSUME NEW n \in Good PROVE n + 1 \in Good
  <2>1. ASSUME NEW s \in SUBSET S, Cardinality(s) = n + 1
        PROVE  SumFunctionOnSet(f, s) <= SumFunctionOnSet(g, s)
    <3>1. s # {} /\ IsFiniteSet(s)
      <4>1. n \in Nat /\ IsFiniteSet(s)
        BY <1>0
      <4>2. Cardinality(s) = 0 <=> s = {}
        BY <4>1, FS_EmptySet, Zenon
      <4> QED BY <2>1, <4>1, <4>2
    <3>2. /\ First(s) \in s /\ s \ {First(s)} \in SUBSET S /\ Cardinality(s \ {First(s)}) = n
      BY <2>1, <3>1, <1>0, FirstFacts
    <3>3. SumFunctionOnSet(f, s \ {First(s)}) \in Nat /\ SumFunctionOnSet(g, s \ {First(s)}) \in Nat
      BY <1>0, <3>2, SumType
    <3>4. SumFunctionOnSet(f, s \ {First(s)}) <= SumFunctionOnSet(g, s \ {First(s)})
      BY <3>2
    <3>5. /\ SumFunctionOnSet(f, s) = f[First(s)] + SumFunctionOnSet(f, s \ {First(s)})
          /\ SumFunctionOnSet(g, s) = g[First(s)] + SumFunctionOnSet(g, s \ {First(s)})
      BY <3>1, SumFirst
    <3>6. f[First(s)] \in Nat /\ g[First(s)] \in Nat /\ f[First(s)] <= g[First(s)]
      BY <3>2
    <3> QED BY <3>3, <3>4, <3>5, <3>6
  <2> QED BY <2>1
<1>3. Good = Nat
  <2> HIDE DEF Good
  <2> QED BY <1>1, <1>2, NaturalInduction DEF Good
<1> QED BY <1>0, <1>3

-----------------------------------------------------------------------------
(* The steps keep the invariant, conjunct by conjunct.                     *)

LEMMA Distinct ==
    /\ None \notin Thread /\ None # 0 /\ None \notin Size /\ Size \subseteq Nat
    /\ None \notin {"write", "create", "snapshot", "restore"}
    /\ Gone \notin Tree
    /\ \A p \in Path : (p \in Source => p \notin Secret \cup Derived) /\ (p \in Secret => p \notin Derived)
<1>1. Size \subseteq Nat
  BY WorkspaceFilesAssumption, Zenon DEF WorkspaceFilesAssumption
<1>2. None \notin Nat
  BY WorkspaceFilesAssumption, Zenon DEF WorkspaceFilesAssumption
<1>3. None \notin Thread /\ None \notin {"write", "create", "snapshot", "restore"}
  BY WorkspaceFilesAssumption, Zenon DEF WorkspaceFilesAssumption
<1>4. Gone \notin Tree
  <2>1. \A c \in Content : c \in Nat \/ c = None
    BY <1>1 DEF Content
  <2>2. \A dir \in Tree : dir \in [Path -> Nat \cup {None}]
    BY <2>1 DEF Tree
  <2> QED BY <2>2, WorkspaceFilesAssumption, Zenon DEF WorkspaceFilesAssumption
<1>5. Source \cap (Secret \cup Derived) = {} /\ Secret \cap Derived = {}
  BY WorkspaceFilesAssumption, Zenon DEF WorkspaceFilesAssumption
<1>6. \A p \in Path : (p \in Source => p \notin Secret \cup Derived) /\ (p \in Secret => p \notin Derived)
  BY <1>5
<1>7. None # 0
  BY <1>2
<1>8. None \notin Size
  BY <1>1, <1>2, Zenon
<1> QED BY <1>1, <1>3, <1>4, <1>6, <1>7, <1>8, Zenon

LEMMA DirFacts ==
    /\ Empty \in Tree /\ Plain(Empty) /\ Dir = Tree \cup {Gone}
    /\ \A dir \in Dir : Made(dir) \in Tree
    /\ \A dir \in Dir : Files(dir) \subseteq Path /\ \A p \in Files(dir) : dir \in Tree /\ dir[p] \in Content
    /\ None \in Content /\ 0 \in Content /\ Size \subseteq Content
BY DEF Empty, Plain, Dir, Tree, Made, Files, Content

LEMMA TreePut ==
    ASSUME NEW dir \in Tree, NEW p \in Path, NEW c \in Content
    PROVE  [dir EXCEPT ![p] = c] \in Tree
BY DEF Tree

LEMMA FilesFinite ==
    /\ IsFiniteSet(Path) /\ IsFiniteSet(SnapshotId)
    /\ \A dir : IsFiniteSet(Files(dir)) /\ Cardinality(Files(dir)) \in Nat
<1>1. IsFiniteSet(Path) /\ IsFiniteSet(SnapshotId)
  BY WorkspaceFilesAssumption, Zenon DEF WorkspaceFilesAssumption
<1>2. \A dir : Files(dir) \in SUBSET Path
  BY DEF Files
<1> QED BY <1>1, <1>2, FS_Subset, FS_CardinalityType

LEMMA SizesAreNumbers ==
    \A c \in Content : c # None => c \in Nat
<1>1. Size \subseteq Nat
  BY Distinct
<1> QED BY <1>1 DEF Content

LEMMA BytesType == \A dir \in Dir : Bytes(dir) \in Nat
<1> SUFFICES ASSUME NEW dir \in Dir PROVE Bytes(dir) \in Nat
  OBVIOUS
<1>1. \A p \in Files(dir) : dir[p] \in Nat
  BY DirFacts, SizesAreNumbers DEF Files
<1> QED BY <1>1, FilesFinite, SumType DEF Bytes

LEMMA BytesNone == Bytes(Gone) = 0 /\ Bytes(Empty) = 0
<1>1. Files(Gone) = {} /\ Files(Empty) = {}
  BY DEF Files, Empty
<1> QED BY <1>1, SumEmpty DEF Bytes

LEMMA MaxNumbers == MaxStorage \in Nat /\ MaxSnapshots \in Nat /\ MaxProjectSize \in Nat /\ MaxFiles \in Nat
BY WorkspaceFilesAssumption, Zenon DEF WorkspaceFilesAssumption

\* Whoever is in an operation holds the lock.
LEMMA Holder ==
    ASSUME TypeInv, LockInv, NEW t \in Thread, pc[t] # "idle"
    PROVE  owner = t /\ owner # None /\ start # Gone /\ Placed(t) /\ DirsInv(t)
BY Distinct DEF TypeInv, ThreadTypes, LockInv

\* The operations a thread that does not hold the lock may begin, and what can
\* happen at all.
Calls(t) ==
    \/ Write(t)
    \/ \E p \in Path : DeleteFile(t, p)
    \/ \E p, q \in Path : RenameFile(t, p, q)
    \/ \E s \in SnapshotId : CreateSnapshot(t, s) \/ Restore(t, s)

LEMMA Steps ==
    ASSUME [Next]_vars
    PROVE  \/ UNCHANGED vars \/ Die
           \/ (\E p \in Path : Sandbox(p)) \/ (\E s \in SnapshotId : DeleteSnapshot(s))
           \/ \E t \in Thread : Calls(t) \/ Step(t)
<1>1. CASE Next
  BY <1>1, Zenon DEF Next, Calls
<1> QED BY <1>1

LEMMA DirStep ==
    ASSUME TypeInv, LockInv, [Next]_vars
    PROVE  DirTypes'
<1> USE Distinct, DirFacts DEF TypeInv, DirTypes, Plain
<1>1. CASE UNCHANGED vars
  BY <1>1 DEF vars, dirs
<1>2. ASSUME NEW p \in Path, Sandbox(p) PROVE DirTypes'
  <2>1. project \in Tree
    BY <1>2 DEF Sandbox
  <2>2. PICK content \in Content : project' = [project EXCEPT ![p] = content]
    BY <1>2 DEF Sandbox
  <2>3. project' \in Tree
    <3> HIDE Distinct, DirFacts DEF TypeInv, DirTypes, Plain
    <3> QED BY <2>1, <2>2, TreePut, Zenon
  <2> QED BY <1>2, <2>3 DEF Sandbox
<1>3. ASSUME NEW s \in SnapshotId, DeleteSnapshot(s) PROVE DirTypes'
  BY <1>3 DEF DeleteSnapshot, Dir
<1>4. CASE Die
  BY <1>4 DEF Die, Dir
<1>5. ASSUME NEW t \in Thread,
             \/ Check(t) \/ (\E p \in Path : CheckFile(t, p)) \/ CountFile(t) \/ CopyEnds(t) \/ CopyRaises(t)
             \/ StagePassesOver(t) \/ StageEnds(t) \/ RenameRaises(t) \/ RecoveryRaises(t)
      PROVE  DirTypes'
  BY <1>5 DEF Check, CheckFile, CountFile, CopyEnds, CopyRaises, StagePassesOver, StageEnds, RenameRaises, RecoveryRaises, dirs
<1>6. ASSUME NEW t \in Thread, \/ Write(t)
                                \/ \E s \in SnapshotId : CreateSnapshot(t, s) \/ Restore(t, s)
      PROVE  DirTypes'
  BY <1>6 DEF Write, CreateSnapshot, Restore, Enter
<1>7. ASSUME NEW t \in Thread, NEW p \in Path, DeleteFile(t, p) \/ \E q \in Path : RenameFile(t, p, q)
      PROVE  DirTypes'
  <2>1. project \in Tree /\ None \in Content /\ UNCHANGED <<staging, trash, start, wreck, snaps>>
    BY <1>7 DEF DeleteFile, RenameFile
  <2>2. [project EXCEPT ![p] = None] \in Tree
    BY <2>1, TreePut
  <2>3. ASSUME NEW q \in Path, RenameFile(t, p, q) PROVE project' \in Tree
    <3>1. project[p] \in Content
      BY <2>1, <2>3 DEF RenameFile, Tree
    <3>2. project' = [[project EXCEPT ![p] = None] EXCEPT ![q] = project[p]]
      BY <2>3 DEF RenameFile
    <3> HIDE Distinct, DirFacts DEF TypeInv, DirTypes, Plain
    <3> QED BY <2>2, <3>1, <3>2, TreePut, Zenon
  <2>4. DeleteFile(t, p) => project' \in Tree
    BY <2>2 DEF DeleteFile
  <2> QED BY <1>7, <2>1, <2>3, <2>4
<1>8. ASSUME NEW t \in Thread, Put(t) PROVE DirTypes'
  <2>1. arg[t].path \in Path /\ arg[t].size \in Content /\ 0 \in Content /\ UNCHANGED <<staging, trash, start, wreck, snaps>>
    BY <1>8, Holder DEF Put, Placed
  <2>2. project' = [Made(project) EXCEPT ![arg[t].path] = arg[t].size] \/ project' = [Made(project) EXCEPT ![arg[t].path] = 0]
    BY <1>8 DEF Put
  <2>3. Made(project) \in Tree
    OBVIOUS
  <2>4. project' \in Tree
    <3> HIDE Distinct, DirFacts DEF TypeInv, DirTypes, Plain
    <3> QED BY <2>1, <2>2, <2>3, TreePut, Zenon
  <2> QED BY <2>1, <2>4
<1>9. ASSUME NEW t \in Thread, CopyFile(t) \/ CopyFails(t) PROVE DirTypes'
  <2> DEFINE x == arg[t].id
             p == copy.file
  <2>1. UNCHANGED <<project, staging, trash, start, wreck>>
    BY <1>9 DEF CopyFile, CopyFails
  <2>2. CASE snaps' = snaps
    BY <2>1, <2>2
  <2>3. CASE snaps' # snaps
    <3>1. x \in SnapshotId /\ p \in Source /\ pc[t] = "copying"
      BY <1>9, <2>3, Holder DEF CopyFile, CopyFails, Placed
    <3>2. PICK c \in Content : snaps' = [snaps EXCEPT ![x] = [Made(snaps[x]) EXCEPT ![p] = c]]
      <4>1. CASE CopyFile(t)
        <5>1. snaps' = [snaps EXCEPT ![x] = [Made(snaps[x]) EXCEPT ![p] = project[p]]] /\ p \in Files(project)
          BY <4>1 DEF CopyFile
        <5> QED BY <5>1
      <4>2. CASE CopyFails(t)
        <5>1. PICK c \in Size \cup {0} : snaps' = [snaps EXCEPT ![x] = [Made(snaps[x]) EXCEPT ![p] = c]]
          BY <2>3, <4>2 DEF CopyFails
        <5> QED BY <5>1
      <4> QED BY <1>9, <4>1, <4>2
    <3>3. Plain(Made(snaps[x]))
      BY <3>1 DEF Made
    <3>4. Plain([Made(snaps[x]) EXCEPT ![p] = c])
      BY <3>1, <3>3 DEF Tree
    <3> HIDE DEF x, p
    <3> QED BY <2>1, <3>1, <3>2, <3>4
  <2> QED BY <2>2, <2>3
<1>10. ASSUME NEW t \in Thread, Discard(t) PROVE DirTypes'
  BY <1>10, Holder DEF Discard, Placed
<1>11. ASSUME NEW t \in Thread, NEW p \in Path, StageFile(t, p) PROVE DirTypes'
  <2>1. arg[t].id \in SnapshotId /\ UNCHANGED <<project, trash, start, wreck, snaps>>
    BY <1>11, Holder DEF StageFile, Placed
  <2>2. Made(staging) \in Tree /\ snaps[arg[t].id][p] \in Content
    BY <1>11, <2>1 DEF StageFile
  <2>3. staging' = [Made(staging) EXCEPT ![p] = snaps[arg[t].id][p]]
    BY <1>11 DEF StageFile
  <2>4. staging' \in Tree
    <3> HIDE Distinct, DirFacts DEF TypeInv, DirTypes, Plain
    <3> QED BY <2>2, <2>3, TreePut, Zenon
  <2> QED BY <2>1, <2>4
<1>12. ASSUME NEW t \in Thread,
              \/ Leave(t) \/ StageRaises(t) \/ MoveToTrash(t) \/ Swap(t) \/ RecoverProject(t)
              \/ RecoveryEnds(t) \/ SweepTrash(t)
      PROVE  DirTypes'
  BY <1>12 DEF Leave, StageRaises, MoveToTrash, Swap, RecoverProject, RecoveryEnds, SweepTrash
<1>13. ASSUME NEW t \in Thread, NEW d \in Derived, Carry(t, d) \/ RecoverDir(t, d) PROVE DirTypes'
  <2>1. d \in Path /\ UNCHANGED <<trash, start, wreck, snaps>>
    BY <1>13 DEF Carry, RecoverDir, Path
  <2>2. project \in Tree /\ Made(staging) \in Tree /\ None \in Content
    BY <1>13 DEF Carry, RecoverDir, Files
  <2>3. project[d] \in Content
    BY <2>1, <2>2 DEF Tree
  <2>4. ASSUME Carry(t, d) PROVE project' \in Tree /\ staging' \in Tree
    <3> HIDE Distinct, DirFacts DEF TypeInv, DirTypes, Plain
    <3> QED BY <2>1, <2>2, <2>3, <2>4, TreePut, Zenon DEF Carry
  <2>5. ASSUME RecoverDir(t, d) PROVE project' \in Tree /\ staging' \in Tree
    <3>1. staging \in Tree
      BY <2>5 DEF RecoverDir, Files
    <3>2. staging[d] \in Content
      BY <2>1, <3>1 DEF Tree
    <3> HIDE Distinct, DirFacts DEF TypeInv, DirTypes, Plain
    <3> QED BY <2>1, <2>2, <2>5, <3>1, <3>2, TreePut, Zenon DEF RecoverDir
  <2> QED BY <1>13, <2>1, <2>4, <2>5
<1>14. ASSUME NEW t \in Thread, Calls(t) \/ Step(t) PROVE DirTypes'
  <2>1. CASE Calls(t)
    BY <2>1, <1>6, <1>7, Zenon DEF Calls
  <2>2. CASE Step(t)
    BY <2>2, <1>5, <1>8, <1>9, <1>10, <1>11, <1>12, <1>13, Zenon DEF Step
  <2> QED BY <1>14, <2>1, <2>2
<1> QED BY <1>1, <1>2, <1>3, <1>4, <1>14, Steps, Zenon

\* A step inside of an operation: it moves its own thread, and only that.
Inner(t) ==
    \/ Check(t) \/ Put(t)
    \/ (\E p \in Path : CheckFile(t, p)) \/ CopyFile(t) \/ CountFile(t)
    \/ CopyEnds(t) \/ CopyRaises(t) \/ CopyFails(t) \/ Discard(t)
    \/ (\E p \in Path : StageFile(t, p)) \/ StagePassesOver(t) \/ StageRaises(t) \/ StageEnds(t)
    \/ (\E d \in Derived : Carry(t, d)) \/ MoveToTrash(t) \/ Swap(t) \/ RenameRaises(t)
    \/ RecoverProject(t) \/ (\E d \in Derived : RecoverDir(t, d))
    \/ RecoveryRaises(t) \/ RecoveryEnds(t) \/ SweepTrash(t)

LEMMA Inside ==
    ASSUME TypeInv, LockInv, NEW t \in Thread, Inner(t)
    PROVE  /\ pc[t] # "idle" /\ UNCHANGED <<owner, call, arg, start, raced, deaths, wreck>>
           /\ pc' \in [Thread -> Label] /\ pc'[t] # "idle" /\ \A u \in Thread \ {t} : pc'[u] = pc[u]
           /\ todo' \in [Thread -> SUBSET Path] /\ \A u \in Thread \ {t} : todo'[u] = todo[u]
           /\ faults' \in 0..MaxFaults /\ copy' \in [file : Path \cup {None}, total : Nat]
           /\ call[t] # "snapshot" => copy' = copy
<1> USE DEF TypeInv, ThreadTypes, Goto, Work, Fault, threads, Label
<1>1. MaxFaults \in Nat
  BY WorkspaceFilesAssumption, Zenon DEF WorkspaceFilesAssumption
<1>2. CASE Check(t) \/ Put(t)
  BY <1>1, <1>2 DEF Check, Put, dirs
<1>3. CASE \/ (\E p \in Path : CheckFile(t, p)) \/ CopyFile(t) \/ CountFile(t)
           \/ CopyEnds(t) \/ CopyRaises(t) \/ CopyFails(t) \/ Discard(t)
  <2>0. NoCopy \in [file : Path \cup {None}, total : Nat]
    BY DEF NoCopy
  <2>1. CASE \E p \in Path : CheckFile(t, p)
    <3>1. PICK p \in Path : CheckFile(t, p)
      BY <2>1
    <3>2. copy' \in [file : Path \cup {None}, total : Nat]
      BY <3>1 DEF CheckFile
    <3> QED BY <3>1, <3>2, Holder DEF CheckFile, dirs, Placed
  <2>2. CASE CopyFile(t)
    BY <2>2 DEF CopyFile
  <2>3. CASE CountFile(t)
    <3> DEFINE size == snaps[arg[t].id][copy.file]
    <3>1. size \in Nat
      <4>1. arg[t].id \in SnapshotId
        BY <2>3, Holder DEF CountFile, Placed
      <4>2. size \in Content /\ size # None
        BY <2>3, <4>1, DirFacts DEF CountFile, Files, DirTypes
      <4> QED BY <4>2, SizesAreNumbers
    <3>2. copy' = [file |-> None, total |-> copy.total + size]
      BY <2>3 DEF CountFile
    <3> HIDE DEF size
    <3>3. copy' \in [file : Path \cup {None}, total : Nat]
      BY <3>1, <3>2
    <3> QED BY <2>3, <3>3, Holder DEF CountFile, dirs, Placed
  <2>4. CASE CopyEnds(t)
    BY <2>0, <2>4, Holder DEF CopyEnds, dirs, Placed
  <2>5. CASE CopyRaises(t)
    BY <2>0, <2>5, Holder DEF CopyRaises, dirs, Placed
  <2>6. CASE CopyFails(t)
    BY <1>1, <2>0, <2>6, Holder DEF CopyFails, Placed
  <2>7. CASE Discard(t)
    BY <1>1, <2>7 DEF Discard
  <2> QED BY <1>3, <2>1, <2>2, <2>3, <2>4, <2>5, <2>6, <2>7
<1>4. CASE (\E p \in Path : StageFile(t, p)) \/ StagePassesOver(t) \/ StageRaises(t)
  BY <1>1, <1>4 DEF StageFile, StagePassesOver, StageRaises, dirs
<1>5. CASE StageEnds(t)
  <2>1. ToCarry(t) \subseteq Path
    BY DEF ToCarry, Path
  <2> QED BY <1>5, <2>1 DEF StageEnds, dirs
<1>6. CASE (\E d \in Derived : Carry(t, d)) \/ MoveToTrash(t) \/ Swap(t) \/ RenameRaises(t)
  BY <1>1, <1>6 DEF Carry, MoveToTrash, Swap, RenameRaises, dirs
<1>7. CASE \/ RecoverProject(t) \/ (\E d \in Derived : RecoverDir(t, d))
           \/ RecoveryRaises(t) \/ RecoveryEnds(t) \/ SweepTrash(t)
  BY <1>1, <1>7 DEF RecoverProject, RecoverDir, RecoveryRaises, RecoveryEnds, SweepTrash, dirs
<1> QED BY <1>2, <1>3, <1>4, <1>5, <1>6, <1>7 DEF Inner

LEMMA StepIs == ASSUME NEW t PROVE Step(t) <=> Leave(t) \/ Inner(t)
BY Zenon DEF Step, Inner

\* The lock is taken when it is free, and every local value is set.
Entered(t, operation, label, args) ==
    /\ owner = None /\ owner' = t /\ owner' # None /\ staging = Gone /\ trash = Gone
    /\ start' = project /\ project # Gone /\ raced' = FALSE /\ UNCHANGED <<faults, deaths>>
    /\ call' \in [Thread -> {"write", "create", "snapshot", "restore", None}] /\ call'[t] = operation
    /\ pc' \in [Thread -> Label] /\ pc'[t] = label /\ pc'[t] # "idle"
    /\ arg' = [u \in Thread |-> arg'[u]] /\ arg'[t] = args
    /\ \A u \in Thread \ {t} : pc'[u] = "idle" /\ call'[u] = None

LEMMA Enters ==
    ASSUME TypeInv, LockInv, NEW t \in Thread, NEW operation \in {"write", "create", "snapshot", "restore"},
           NEW label \in Label \ {"idle"}, NEW args, Enter(t, operation, label, args)
    PROVE  Entered(t, operation, label, args)
BY Distinct DEF TypeInv, ThreadTypes, LockInv, Enter, Acquire, Goto, Entered

LEMMA CallsEnter ==
    ASSUME TypeInv, LockInv, NEW t \in Thread
    PROVE  /\ Write(t) => /\ UNCHANGED <<project, staging, trash, snaps, todo, copy>>
                          /\ \E operation \in {"write", "create"}, p \in Path, size \in Size :
                                Entered(t, operation, "check", [path |-> p, size |-> size])
           /\ \A s \in SnapshotId : CreateSnapshot(t, s) =>
                Entered(t, "snapshot", "copy", [id |-> s, used |-> StorageUsed])
           /\ \A s \in SnapshotId : Restore(t, s) =>
                Entered(t, "restore", "stage", [id |-> s, asked |-> snaps[s]])
<1>1. {"check", "copy", "stage"} \subseteq Label \ {"idle"}
  BY DEF Label
<1>2. ASSUME Write(t)
      PROVE  /\ UNCHANGED <<project, staging, trash, snaps, todo, copy>>
             /\ \E operation \in {"write", "create"}, p \in Path, size \in Size :
                   Entered(t, operation, "check", [path |-> p, size |-> size])
  <2>1. PICK operation \in {"write", "create"}, p \in Path, size \in Size :
          Enter(t, operation, "check", [path |-> p, size |-> size])
    BY <1>2, Zenon DEF Write
  <2>2. Entered(t, operation, "check", [path |-> p, size |-> size])
    BY <1>1, <2>1, Enters
  <2>3. UNCHANGED <<project, staging, trash, snaps, todo, copy>>
    BY <1>2, Zenon DEF Write
  <2> QED BY <2>2, <2>3, Zenon
<1>3. ASSUME NEW s \in SnapshotId, CreateSnapshot(t, s)
      PROVE  Entered(t, "snapshot", "copy", [id |-> s, used |-> StorageUsed])
  <2>1. Enter(t, "snapshot", "copy", [id |-> s, used |-> StorageUsed])
    BY <1>3, Zenon DEF CreateSnapshot
  <2> QED BY <1>1, <2>1, Enters
<1>4. ASSUME NEW s \in SnapshotId, Restore(t, s)
      PROVE  Entered(t, "restore", "stage", [id |-> s, asked |-> snaps[s]])
  <2>1. Enter(t, "restore", "stage", [id |-> s, asked |-> snaps[s]])
    BY <1>4, Zenon DEF Restore
  <2> QED BY <1>1, <2>1, Enters
<1> QED BY <1>2, <1>3, <1>4

LEMMA ThreadStep ==
    ASSUME TypeInv, LockInv, [Next]_vars
    PROVE  ThreadTypes'
<1> USE DEF TypeInv, ThreadTypes
<1>1. CASE UNCHANGED vars
  BY <1>1 DEF vars, threads
<1>2. ASSUME NEW p \in Path, Sandbox(p) PROVE ThreadTypes'
  BY <1>2 DEF Sandbox, threads
<1>3. ASSUME NEW s \in SnapshotId, DeleteSnapshot(s) PROVE ThreadTypes'
  <2>1. raced' \in BOOLEAN
    BY <1>3, Zenon DEF DeleteSnapshot
  <2> QED BY <1>3, <2>1 DEF DeleteSnapshot, threads
<1>4. CASE Die
  <2>1. MaxFaults \in Nat /\ MaxDeaths \in Nat
    BY WorkspaceFilesAssumption, Zenon DEF WorkspaceFilesAssumption
  <2> QED BY <1>4, <2>1 DEF Die, Label, NoCopy
<1>5. ASSUME NEW t \in Thread, Calls(t) PROVE ThreadTypes'
  <2>1. CASE Write(t)
    BY <2>1, CallsEnter DEF Entered
  <2>2. CASE \E s \in SnapshotId : CreateSnapshot(t, s) \/ Restore(t, s)
    <3>1. PICK s \in SnapshotId : CreateSnapshot(t, s) \/ Restore(t, s)
      BY <2>2
    <3>2. todo' \in [Thread -> SUBSET Path] /\ copy' = copy
      BY <3>1 DEF CreateSnapshot, Restore, Work, Visible, Files
    <3>3. CASE CreateSnapshot(t, s)
      BY <3>2, <3>3, CallsEnter DEF Entered
    <3>4. CASE Restore(t, s)
      BY <3>2, <3>4, CallsEnter DEF Entered
    <3> QED BY <3>1, <3>3, <3>4
  <2>3. CASE \/ \E p \in Path : DeleteFile(t, p)
             \/ \E p, q \in Path : RenameFile(t, p, q)
    BY <2>3 DEF DeleteFile, RenameFile, threads
  <2> QED BY <1>5, <2>1, <2>2, <2>3 DEF Calls
<1>6. ASSUME NEW t \in Thread, Leave(t) PROVE ThreadTypes'
  <2>1. MaxFaults \in Nat
    BY WorkspaceFilesAssumption, Zenon DEF WorkspaceFilesAssumption
  <2>2. raced' \in BOOLEAN
    BY <1>6, Zenon DEF Leave
  <2>3. owner = t /\ \A u \in Thread \ {t} : pc[u] = "idle" /\ call[u] = None
    BY <1>6, Holder DEF Leave
  <2> QED BY <1>6, <2>1, <2>2, <2>3 DEF Leave, Goto, Work, Label, NoCopy
<1>7. ASSUME NEW t \in Thread, Inner(t) PROVE ThreadTypes'
  BY <1>7, Inside
<1> QED BY <1>1, <1>2, <1>3, <1>4, <1>5, <1>6, <1>7, StepIs, Steps

\* What there is of directories follows the operation that holds the lock.
LEMMA LockStep ==
    ASSUME TypeInv, LockInv, [Next]_vars
    PROVE  LockInv'
<1> USE DEF TypeInv, DirTypes
<1>1. CASE UNCHANGED vars
  BY <1>1 DEF vars, dirs, threads, LockInv, Placed, DirsInv
<1>2. ASSUME NEW p \in Path, Sandbox(p) PROVE LockInv'
  <2>1. project # Gone /\ project' # Gone /\ UNCHANGED <<staging, trash, snaps, threads, start>>
    <3>1. PICK content \in Content : project' = [project EXCEPT ![p] = content]
      BY <1>2 DEF Sandbox, Content
    <3>2. project \in Tree /\ project # Gone /\ UNCHANGED <<staging, trash, snaps, threads, start>>
      BY <1>2, DirFacts DEF Sandbox
    <3> QED BY <3>1, <3>2, TreePut, Distinct
  <2> QED BY <2>1 DEF threads, LockInv, Placed, DirsInv
<1>3. ASSUME NEW s \in SnapshotId, DeleteSnapshot(s) PROVE LockInv'
  BY <1>3 DEF DeleteSnapshot, threads, LockInv, Placed, DirsInv
<1>4. CASE Die
  BY <1>4 DEF Die, LockInv
<1>5. ASSUME NEW t \in Thread, Calls(t) PROVE LockInv'
  <2>1. CASE Write(t)
    <3>1. PICK operation \in {"write", "create"}, p \in Path, size \in Size :
            Entered(t, operation, "check", [path |-> p, size |-> size])
      BY <2>1, CallsEnter
    <3>2. UNCHANGED <<project, staging, trash, snaps, todo, copy>>
      BY <2>1, CallsEnter
    <3>3. arg'[t].path = p /\ arg'[t].size = size /\ call'[t] = operation /\ pc'[t] = "check"
      BY <3>1 DEF Entered
    <3> QED BY <3>1, <3>2, <3>3 DEF Entered, LockInv, Placed, DirsInv
  <2>2. ASSUME NEW s \in SnapshotId, CreateSnapshot(t, s) PROVE LockInv'
    <3>1. Entered(t, "snapshot", "copy", [id |-> s, used |-> StorageUsed])
      BY <2>2, CallsEnter
    <3>2. UNCHANGED <<project, staging, trash>>
      BY <2>2 DEF CreateSnapshot
    <3>3. todo'[t] \subseteq Source
      BY <2>2 DEF CreateSnapshot, Work, Visible, ThreadTypes
    <3> QED BY <3>1, <3>2, <3>3 DEF Entered, LockInv, Placed, DirsInv
  <2>3. ASSUME NEW s \in SnapshotId, Restore(t, s) PROVE LockInv'
    <3>1. Entered(t, "restore", "stage", [id |-> s, asked |-> snaps[s]])
      BY <2>3, CallsEnter
    <3>2. UNCHANGED <<project, trash>> /\ staging' # Gone /\ Plain(snaps[s])
      BY <2>3, DirFacts, Distinct DEF Restore, Ids
    <3> QED BY <3>1, <3>2 DEF Entered, LockInv, Placed, DirsInv, Plain
  <2>4. CASE \/ \E p \in Path : DeleteFile(t, p)
             \/ \E p, q \in Path : RenameFile(t, p, q)
    BY <2>4 DEF DeleteFile, RenameFile, threads, LockInv
  <2> QED BY <1>5, <2>1, <2>2, <2>3, <2>4 DEF Calls
<1>6. ASSUME NEW t \in Thread, Leave(t) PROVE LockInv'
  BY <1>6 DEF Leave, LockInv
<1>7. ASSUME NEW t \in Thread, Inner(t) PROVE LockInv'
  <2>1. /\ owner = t /\ owner' = t /\ owner # None /\ pc'[t] # "idle" /\ pc' \in [Thread -> Label]
        /\ UNCHANGED <<call, arg, start>> /\ start # Gone /\ Placed(t) /\ DirsInv(t)
    BY <1>7, Inside, Holder
  <2> SUFFICES Placed(t)' /\ DirsInv(t)'
    BY <2>1 DEF LockInv
  <2> USE DEF Goto, Work, ThreadTypes
  <2>2. CASE Check(t) \/ Put(t)
    <3>1. call[t] \in {"write", "create"} /\ pc'[t] \in {"put", "return", "raise"} /\ UNCHANGED <<staging, trash>>
      BY <2>1, <2>2 DEF Check, Put, dirs, Placed
    <3>2. project' # Gone
      <4>1. CASE Check(t)
        BY <2>1, <3>1, <4>1 DEF Check, dirs, DirsInv
      <4>2. CASE Put(t)
        <5>1. PICK c \in Content : project' = [Made(project) EXCEPT ![arg[t].path] = c]
          BY <2>1, <3>1, <4>2, DirFacts DEF Put, Placed
        <5>2. Made(project) \in Tree /\ arg[t].path \in Path
          BY <2>1, <3>1, DirFacts DEF Placed
        <5> QED BY <5>1, <5>2, TreePut, Distinct
      <4> QED BY <2>2, <4>1, <4>2
    <3> QED BY <2>1, <3>1, <3>2 DEF Placed, DirsInv
  <2>3. CASE \/ (\E p \in Path : CheckFile(t, p)) \/ CopyFile(t) \/ CountFile(t)
             \/ CopyEnds(t) \/ CopyRaises(t) \/ CopyFails(t) \/ Discard(t)
    <3> DEFINE Goes == /\ call[t] = "snapshot" /\ todo'[t] \subseteq todo[t] /\ UNCHANGED <<project, staging, trash>>
                       /\ pc'[t] \in {"copy", "copying", "copied", "discard", "return", "raise"}
                       /\ pc'[t] \in {"copying", "copied"} => copy'.file \in todo'[t]
    <3>1. ASSUME NEW p \in Path, CheckFile(t, p) PROVE Goes
      BY <2>1, <3>1 DEF CheckFile, dirs, Placed
    <3>2. ASSUME CopyFile(t) \/ CountFile(t) PROVE Goes
      BY <2>1, <3>2 DEF CopyFile, CountFile, dirs, Placed
    <3>3. ASSUME CopyEnds(t) \/ CopyRaises(t) \/ CopyFails(t) \/ Discard(t) PROVE Goes
      BY <2>1, <3>3 DEF CopyEnds, CopyRaises, CopyFails, Discard, dirs, Placed
    <3>4. Goes
      <4> HIDE DEF Goes
      <4> QED BY <2>3, <3>1, <3>2, <3>3
    <3> QED BY <2>1, <3>4 DEF Placed, DirsInv
  <2>4. CASE \E p \in Path : StageFile(t, p)
    <3>1. staging' # Gone
      <4>1. PICK p \in Path : StageFile(t, p)
        BY <2>4
      <4>2. Made(staging) \in Tree /\ snaps[arg[t].id] \in Dir
        BY <2>1, <4>1, DirFacts DEF StageFile, Placed
      <4>3. snaps[arg[t].id][p] \in Content /\ staging' = [Made(staging) EXCEPT ![p] = snaps[arg[t].id][p]]
        BY <4>1, <4>2, DirFacts DEF StageFile
      <4> QED BY <4>2, <4>3, TreePut, Distinct
    <3>2. call[t] = "restore" /\ pc[t] = "stage" /\ pc'[t] = "stage" /\ UNCHANGED <<project, trash>>
      BY <2>1, <2>4 DEF StageFile, Placed
    <3> QED BY <2>1, <3>1, <3>2 DEF Placed, DirsInv
  <2>5. CASE StagePassesOver(t) \/ StageEnds(t) \/ RenameRaises(t) \/ RecoveryRaises(t)
    <3>1. call[t] = "restore" /\ UNCHANGED <<project, staging, trash>>
          /\ \/ pc[t] = "stage" /\ pc'[t] \in {"stage", "carry"}
             \/ pc[t] \in {"carry", "swap"} /\ pc'[t] = "recover"
             \/ pc[t] = "recover" /\ pc'[t] = "raise"
      BY <2>1, <2>5 DEF StagePassesOver, StageEnds, RenameRaises, RecoveryRaises, dirs, Placed
    <3> QED BY <2>1, <3>1 DEF Placed, DirsInv
  <2>6. CASE \E d \in Derived : Carry(t, d) \/ RecoverDir(t, d)
    <3>1. PICK d \in Derived : Carry(t, d) \/ RecoverDir(t, d)
      BY <2>6
    <3>2. d \in Path /\ call[t] = "restore" /\ pc[t] \in {"carry", "recover"} /\ pc' = pc /\ trash' = trash
          /\ project # Gone /\ staging # Gone /\ trash = Gone
      BY <2>1, <3>1 DEF Carry, RecoverDir, Path, threads, Placed, DirsInv
    <3>3. project' # Gone /\ staging' # Gone
      <4>1. project \in Tree /\ staging \in Tree /\ Made(staging) \in Tree /\ None \in Content
        BY <3>2, DirFacts
      <4>2. project[d] \in Content /\ staging[d] \in Content
        BY <3>2, <4>1 DEF Tree
      <4>3. project' \in Tree /\ staging' \in Tree
        <5>1. CASE Carry(t, d)
          BY <3>2, <4>1, <4>2, <5>1, TreePut, Zenon DEF Carry
        <5>2. CASE RecoverDir(t, d)
          BY <3>2, <4>1, <4>2, <5>2, TreePut, Zenon DEF RecoverDir
        <5> QED BY <3>1, <5>1, <5>2
      <4> QED BY <4>3, Distinct
    <3> QED BY <2>1, <3>2, <3>3 DEF Placed, DirsInv
  <2>7. CASE StageRaises(t) \/ MoveToTrash(t) \/ Swap(t) \/ SweepTrash(t)
    BY <2>1, <2>7 DEF StageRaises, MoveToTrash, Swap, SweepTrash, Placed, DirsInv
  <2>8. CASE RecoverProject(t) \/ RecoveryEnds(t)
    BY <2>1, <2>8 DEF RecoverProject, RecoveryEnds, threads, Placed, DirsInv
  <2> QED BY <1>7, <2>2, <2>3, <2>4, <2>5, <2>6, <2>7, <2>8, Zenon DEF Inner
<1> QED BY <1>1, <1>2, <1>3, <1>4, <1>5, <1>6, <1>7, StepIs, Steps

\* What is true of its operation when a thread has just begun it.
LEMMA OperationBegins ==
    ASSUME TypeInv, LockInv, NEW t \in Thread, Calls(t), owner' # None
    PROVE  WriteInv(owner)' /\ CopyInv(owner)' /\ RestoreInv(owner)'
<1> USE DEF TypeInv, DirTypes, ThreadTypes
<1>1. CASE Write(t)
  <2>1. PICK operation \in {"write", "create"}, p \in Path, size \in Size :
          Entered(t, operation, "check", [path |-> p, size |-> size])
    BY <1>1, CallsEnter
  <2>2. owner' = t /\ call'[t] \in {"write", "create"} /\ pc'[t] = "check" /\ start' = project /\ project' = project
    BY <1>1, <2>1, CallsEnter DEF Entered
  <2> QED BY <2>2 DEF WriteInv, CopyInv, RestoreInv
<1>2. ASSUME NEW s \in SnapshotId, CreateSnapshot(t, s)
      PROVE  WriteInv(owner)' /\ CopyInv(owner)' /\ RestoreInv(owner)'
  <2>1. Entered(t, "snapshot", "copy", [id |-> s, used |-> StorageUsed])
    BY <1>2, CallsEnter
  <2>2. /\ owner' = t /\ call'[t] = "snapshot" /\ pc'[t] = "copy" /\ arg'[t].id = s
        /\ start' = project /\ project' = project /\ project \in Tree
    BY <1>2, <2>1, DirFacts DEF Entered, CreateSnapshot
  <2>3. todo'[t] = Visible(project) /\ snaps'[s] = Empty
    BY <1>2 DEF CreateSnapshot, Work
  <2>4. Visible(project) \subseteq Files(project)
        /\ Empty = [p \in Path |-> IF p \in Source \ Visible(project) THEN project[p] ELSE None]
    BY <2>2, Distinct DEF Visible, Files, Empty
  <2> QED BY <2>2, <2>3, <2>4 DEF WriteInv, CopyInv, RestoreInv, Loop, Left
<1>3. ASSUME NEW s \in SnapshotId, Restore(t, s)
      PROVE  WriteInv(owner)' /\ CopyInv(owner)' /\ RestoreInv(owner)'
  <2>1. Entered(t, "restore", "stage", [id |-> s, asked |-> snaps[s]])
    BY <1>3, CallsEnter
  <2>2. /\ owner' = t /\ call'[t] = "restore" /\ pc'[t] = "stage"
        /\ arg'[t].id = s /\ arg'[t].asked = snaps[s]
        /\ start' = project /\ project' = project /\ snaps' = snaps /\ snaps[s] \in Tree
    BY <1>3, <2>1, DirFacts DEF Entered, Restore, Ids
  <2>3. todo'[t] = Files(snaps[s]) /\ staging' = Empty
    BY <1>3 DEF Restore, Work
  <2>4. Empty = [p \in Path |-> IF p \in Files(snaps[s]) THEN None ELSE snaps[s][p]]
    BY <2>2, Distinct DEF Files, Empty
  <2> QED BY <2>2, <2>3, <2>4 DEF WriteInv, CopyInv, RestoreInv
<1>4. CASE \/ \E p \in Path : DeleteFile(t, p)
           \/ \E p, q \in Path : RenameFile(t, p, q)
  BY <1>4 DEF DeleteFile, RenameFile, threads
<1> QED BY <1>1, <1>2, <1>3, <1>4 DEF Calls

\* Nobody but the holder touches what it works on, or the operation is raced.
LEMMA OthersRace ==
    ASSUME TypeInv, LockInv, OperationInv, owner # None,
           \/ \E p \in Path : Sandbox(p)
           \/ \E s \in SnapshotId : DeleteSnapshot(s)
    PROVE  WriteInv(owner)' /\ CopyInv(owner)' /\ RestoreInv(owner)'
<1> USE DEF TypeInv, DirTypes, ThreadTypes
<1>1. CASE \E p \in Path : Sandbox(p)
  <2>1. raced'
    BY <1>1 DEF Sandbox
  <2> QED BY <2>1 DEF WriteInv, CopyInv, RestoreInv
<1>2. ASSUME NEW s \in SnapshotId, DeleteSnapshot(s)
      PROVE  WriteInv(owner)' /\ CopyInv(owner)' /\ RestoreInv(owner)'
  <2>1. owner \in Thread /\ Placed(owner)
    BY DEF LockInv
  <2>2. UNCHANGED <<project, staging, trash, threads, start, faults>>
    BY <1>2 DEF DeleteSnapshot
  <2>3. \/ raced'
        \/ ~raced /\ ~raced' /\ (call[owner] \in {"snapshot", "restore"} => snaps'[arg[owner].id] = snaps[arg[owner].id])
    <3>1. CASE raced \/ \E t \in Thread : call[t] \in {"snapshot", "restore"} /\ arg[t].id = s
      BY <1>2, <3>1, Zenon DEF DeleteSnapshot
    <3>2. CASE ~(raced \/ \E t \in Thread : call[t] \in {"snapshot", "restore"} /\ arg[t].id = s)
      <4>1. ~raced'
        BY <1>2, <3>2, Zenon DEF DeleteSnapshot
      <4>2. call[owner] \in {"snapshot", "restore"} => arg[owner].id # s
        BY <2>1, <3>2
      <4>3. snaps' = [snaps EXCEPT ![s] = Gone]
        BY <1>2 DEF DeleteSnapshot
      <4> QED BY <2>1, <3>2, <4>1, <4>2, <4>3 DEF Placed
    <3> QED BY <3>1, <3>2
  <2>4. CASE raced'
    BY <2>4 DEF WriteInv, CopyInv, RestoreInv
  <2>5. CASE ~raced /\ ~raced' /\ (call[owner] \in {"snapshot", "restore"} => snaps'[arg[owner].id] = snaps[arg[owner].id])
    <3>1. WriteInv(owner)'
      BY <2>2, <2>5 DEF threads, OperationInv, WriteInv, Fits, Files, Bytes
    <3>2. CopyInv(owner)'
      BY <2>2, <2>5 DEF threads, OperationInv, CopyInv, Left
    <3>3. RestoreInv(owner)'
      BY <2>2, <2>5 DEF threads, OperationInv, RestoreInv, Ours, Asked, Replaced, Scattered
    <3> QED BY <3>1, <3>2, <3>3
  <2> QED BY <2>3, <2>4, <2>5
<1> QED BY <1>1, <1>2

LEMMA WriteGoesOn ==
    ASSUME TypeInv, LockInv, NEW t \in Thread, WriteInv(t), Inner(t), call[t] \in {"write", "create"}
    PROVE  WriteInv(t)'
<1>1. pc[t] # "idle" /\ Placed(t) /\ UNCHANGED <<call, arg, raced, start>>
  BY Inside, Holder
<1>2. Check(t) \/ Put(t)
  BY <1>1 DEF Inner, Placed, CheckFile, CopyFile, CountFile, CopyEnds, CopyRaises, CopyFails, Discard, StageFile, StagePassesOver, StageRaises,
              StageEnds, Carry, MoveToTrash, Swap, RenameRaises, RecoverProject, RecoverDir, RecoveryRaises,
              RecoveryEnds, SweepTrash
<1>3. CASE Check(t)
  <2>1. /\ project' = project /\ pc'[t] \in {"put", "raise"} /\ pc[t] = "check"
        /\ pc'[t] = "put" => Fits(arg[t].path, arg[t].size)
    BY <1>3 DEF Check, Goto, dirs, TypeInv, ThreadTypes
  <2> QED BY <1>1, <2>1 DEF WriteInv, Fits, Made, Files, Bytes
<1>4. CASE Put(t)
  <2>1. pc[t] = "put" /\ pc'[t] \in {"return", "raise"}
    BY <1>4 DEF Put, Goto, TypeInv, ThreadTypes
  <2> SUFFICES ASSUME ~raced, pc'[t] = "return"
               PROVE  /\ Bytes(project') <= MaxProjectSize
                      /\ Files(project') # Files(start) => Cardinality(Files(project')) <= MaxFiles
    <3>1. ~raced /\ pc'[t] = "return" =>
            /\ Bytes(project)' <= MaxProjectSize
            /\ Files(project)' # Files(start)' => Cardinality(Files(project)') <= MaxFiles
      BY <1>1 DEF Bytes, Files
    <3> QED BY <1>1, <2>1, <3>1 DEF WriteInv
  <2> DEFINE p == arg[t].path
  <2>2. project = start /\ Fits(p, arg[t].size)
    BY <2>1 DEF WriteInv
  <2>3. p \in Path /\ arg[t].size \in Size /\ project # Gone /\ project \in Tree
    BY <1>1, <2>2, Holder, DirFacts DEF Placed, DirsInv, TypeInv, DirTypes
  <2>4. project' = [project EXCEPT ![p] = arg[t].size]
    BY <1>4, <2>1, <2>3 DEF Put, Goto, Made, TypeInv, ThreadTypes
  <2>5. Bytes(project') <= MaxProjectSize
    BY <2>2, <2>3, <2>4 DEF Fits, Made
  <2>6. ASSUME Files(project') # Files(project) PROVE Cardinality(Files(project')) <= MaxFiles
    <3>1. project' # Gone
      <4>1. arg[t].size \in Content
        BY <2>3 DEF Content
      <4>2. [project EXCEPT ![p] = arg[t].size] \in Tree
        BY <2>3, <4>1, TreePut
      <4> QED BY <2>4, <4>2, Distinct
    <3>2. \A q \in Path \ {p} : project'[q] = project[q]
      BY <2>3, <2>4 DEF Tree
    <3>3. project'[p] # None
      BY <2>3, <2>4, Distinct DEF Tree
    <3>4. Files(project') = Files(project) \cup {p}
      BY <2>3, <3>1, <3>2, <3>3 DEF Files
    <3>5. p \notin Files(project)
      BY <2>6, <3>4
    <3>6. Cardinality(Files(project)) < MaxFiles
      BY <2>2, <3>5 DEF Fits
    <3>7. Cardinality(Files(project) \cup {p}) = Cardinality(Files(project)) + 1
      BY <3>5, FilesFinite, FS_AddElement
    <3> QED BY <3>4, <3>6, <3>7, FilesFinite, MaxNumbers
  <2> QED BY <2>2, <2>5, <2>6
<1> QED BY <1>2, <1>3, <1>4

LEMMA CopyGoesOn ==
    ASSUME TypeInv, LockInv, NEW t \in Thread, CopyInv(t), Inner(t), call[t] = "snapshot"
    PROVE  CopyInv(t)'
<1> USE DEF TypeInv, ThreadTypes, DirTypes, Goto, Work
<1>1. pc[t] # "idle" /\ Placed(t) /\ UNCHANGED <<call, arg, raced, start>>
  BY Inside, Holder
<1>2. start \in Tree /\ arg[t].id \in SnapshotId /\ todo[t] \subseteq Source
  BY <1>1, Holder, DirFacts DEF Placed
<1>3. \/ (\E p \in Path : CheckFile(t, p)) \/ CopyFile(t) \/ CountFile(t)
      \/ CopyEnds(t) \/ CopyRaises(t) \/ CopyFails(t) \/ Discard(t)
  BY <1>1 DEF Inner, Placed, Check, Put, StageFile, StagePassesOver, StageRaises,
              StageEnds, Carry, MoveToTrash, Swap, RenameRaises, RecoverProject, RecoverDir, RecoveryRaises,
              RecoveryEnds, SweepTrash
<1> SUFFICES ASSUME ~raced PROVE CopyInv(t)'
  BY <1>1 DEF CopyInv
<1>4. CASE CopyFile(t)
  <2> DEFINE old == snaps[arg[t].id]
             p == copy.file
             new == [Made(old) EXCEPT ![p] = project[p]]
  <2>1. /\ project = start /\ todo[t] \subseteq Files(start)
        /\ old = [q \in Path |-> IF q \in Source \ todo[t] THEN start[q] ELSE None]
    BY <1>4 DEF CopyFile, CopyInv, Loop, Left
  <2>2. /\ project' = project /\ pc'[t] = "copied" /\ p \in todo[t] /\ copy' = copy
        /\ todo'[t] = todo[t] /\ snaps'[arg[t].id] = new
    BY <1>1, <1>2, <1>4 DEF CopyFile, Placed
  <2>3. Made(old) = old
    <3>1. old \in Tree
      BY <1>2, <2>1, DirFacts, Distinct DEF Tree
    <3> QED BY <3>1, Distinct DEF Made
  <2>4. new = [q \in Path |-> IF q \in Source \ (todo[t] \ {p}) THEN start[q] ELSE None]
    <3>1. new = [q \in Path |-> IF q = p THEN start[p] ELSE old[q]]
      BY <2>1, <2>3
    <3>2. \A q \in Path : old[q] = IF q \in Source \ todo[t] THEN start[q] ELSE None
      BY <2>1
    <3>3. p \in Source
      BY <1>2, <2>2
    <3> HIDE DEF old, new, p
    <3> QED BY <3>1, <3>2, <3>3
  <2> HIDE DEF new
  <2> QED BY <1>1, <2>1, <2>2, <2>4 DEF CopyInv, Left
<1>5. CASE (\E p \in Path : CheckFile(t, p)) \/ CountFile(t)
  <2>1. /\ pc[t] \in Loop /\ pc'[t] \in {"copy", "copying"} /\ UNCHANGED <<project, snaps>>
        /\ todo'[t] = Left(t)
    BY <1>5 DEF CheckFile, CountFile, dirs, Loop, Left
  <2> QED BY <1>1, <2>1 DEF CopyInv, Left
<1>6. CASE CopyEnds(t)
  <2>1. pc'[t] = "return" /\ todo[t] = {} /\ snaps' = snaps /\ pc[t] = "copy"
    BY <1>6 DEF CopyEnds, dirs
  <2> QED BY <1>1, <2>1 DEF CopyInv, Loop, Left
<1>7. CASE CopyRaises(t) \/ CopyFails(t) \/ Discard(t)
  <2>1. pc'[t] \in {"discard", "raise"}
    BY <1>7 DEF CopyRaises, CopyFails, Discard
  <2> QED BY <2>1 DEF CopyInv, Loop
<1> QED BY <1>3, <1>4, <1>5, <1>6, <1>7

\* The value of a directory in which one entry was set.
LEMMA PutFacts ==
    ASSUME NEW dir \in Tree, NEW p \in Path, NEW c \in Content, NEW new, new = [dir EXCEPT ![p] = c]
    PROVE  new \in Tree /\ new[p] = c /\ \A q \in Path \ {p} : new[q] = dir[q]
BY DEF Tree

LEMMA SameTree ==
    ASSUME NEW dir \in Tree, NEW e \in Tree, \A p \in Path : dir[p] = e[p]
    PROVE  dir = e
BY DEF Tree

LEMMA RestoreGoesOn ==
    ASSUME TypeInv, LockInv, NEW t \in Thread, RestoreInv(t), Inner(t), call[t] = "restore"
    PROVE  RestoreInv(t)'
<1> USE DEF TypeInv, ThreadTypes, DirTypes, Goto, Work
<1> DEFINE asked == arg[t].asked
<1>1. /\ pc[t] # "idle" /\ Placed(t) /\ DirsInv(t) /\ UNCHANGED <<call, arg, raced, start>>
  BY Inside, Holder
<1>2. start \in Tree /\ arg[t].id \in SnapshotId /\ asked \in Tree /\ \A p \in Path \ Source : asked[p] = None
  BY <1>1, Holder, DirFacts DEF Placed, Plain
<1>3. faults \in Nat
  <2>1. MaxFaults \in Nat
    BY WorkspaceFilesAssumption, Zenon DEF WorkspaceFilesAssumption
  <2> QED BY <2>1
<1>4. /\ Source \subseteq Path /\ Secret \subseteq Path /\ Derived \subseteq Path
      /\ \A d \in Derived : d \notin Source \cup Secret
      /\ \A p \in Path : p \in Source \cup Secret \/ p \in Derived
  BY Distinct DEF Path
<1> SUFFICES ASSUME ~raced PROVE RestoreInv(t)'
  BY <1>1 DEF RestoreInv
<1>5. ASSUME NEW p \in Path, StageFile(t, p) PROVE RestoreInv(t)'
  <2>1. /\ project = start /\ snaps[arg[t].id] = asked /\ todo[t] \subseteq Files(asked)
        /\ staging = [q \in Path |-> IF q \in todo[t] THEN None ELSE asked[q]]
    BY <1>5 DEF StageFile, RestoreInv
  <2>2. /\ UNCHANGED <<project, snaps>> /\ pc'[t] = "stage" /\ p \in todo[t] /\ todo'[t] = todo[t] \ {p}
        /\ staging' = [Made(staging) EXCEPT ![p] = asked[p]]
    BY <2>1, <1>5 DEF StageFile
  <2>3. Made(staging) = staging
    BY <1>1, <1>5 DEF Made, DirsInv, StageFile
  <2>4. staging' = [q \in Path |-> IF q \in todo[t] \ {p} THEN None ELSE asked[q]]
    <3>1. staging' = [q \in Path |-> IF q = p THEN asked[p] ELSE staging[q]]
      BY <2>1, <2>2, <2>3
    <3>2. \A q \in Path : staging[q] = IF q \in todo[t] THEN None ELSE asked[q]
      BY <2>1
    <3> QED BY <3>1, <3>2
  <2> QED BY <1>1, <2>1, <2>2, <2>4 DEF RestoreInv
<1>6. CASE StagePassesOver(t) \/ StageRaises(t)
  <2>1. project = start /\ snaps[arg[t].id] = asked
    BY <1>6 DEF StagePassesOver, StageRaises, RestoreInv
  <2>2. snaps[arg[t].id] # Gone
    BY <1>2, <2>1, Distinct
  <2>3. project' = project /\ pc'[t] = "raise"
    BY <1>6, <2>2 DEF StagePassesOver, StageRaises
  <2> QED BY <1>1, <2>1, <2>3 DEF RestoreInv
<1>7. CASE StageEnds(t)
  <2>1. /\ project = start /\ staging = [q \in Path |-> IF q \in todo[t] THEN None ELSE asked[q]]
        /\ todo[t] = {}
    BY <1>7 DEF StageEnds, RestoreInv
  <2>2. /\ UNCHANGED <<project, staging>> /\ pc'[t] = "carry" /\ todo'[t] = Files(project) \cap Derived
    <3>1. ToCarry(t) \in SUBSET Path
      BY <1>4 DEF ToCarry
    <3> QED BY <1>7, <3>1 DEF StageEnds, dirs, ToCarry
  <2>3. \A q \in Path : staging[q] = asked[q]
    BY <2>1
  <2>4. Ours(project)' /\ Asked(t, staging)'
    BY <1>1, <1>4, <2>1, <2>2, <2>3 DEF Ours, Asked
  <2>5. \A d \in Derived : IF d \in todo'[t] THEN start[d] # None /\ staging[d] = None
                           ELSE start[d] = None /\ staging[d] = None
    BY <1>2, <1>4, <2>1, <2>2, <2>3, Distinct DEF Files
  <2> QED BY <1>1, <2>1, <2>2, <2>4, <2>5 DEF RestoreInv
<1>8. ASSUME NEW d \in Derived, Carry(t, d) PROVE RestoreInv(t)'
  <2>1. /\ pc[t] = "carry" /\ pc'[t] = "carry" /\ d \in todo[t] /\ todo'[t] = todo[t] \ {d}
        /\ project \in Tree /\ staging \in Tree /\ Made(staging) = staging /\ d \in Path
    BY <1>1, <1>4, <1>8, DirFacts DEF Carry, DirsInv, Made
  <2>2. /\ staging' = [staging EXCEPT ![d] = project[d]] /\ project' = [project EXCEPT ![d] = None]
    BY <1>8, <2>1 DEF Carry
  <2>3. /\ staging'[d] = project[d] /\ project'[d] = None
        /\ \A q \in Path \ {d} : staging'[q] = staging[q] /\ project'[q] = project[q]
    BY <2>1, <2>2 DEF Tree
  <2>4. /\ todo[t] \subseteq Derived /\ Ours(project) /\ Asked(t, staging)
        /\ \A e \in Derived : IF e \in todo[t] THEN project[e] = start[e] /\ start[e] # None /\ staging[e] = None
                               ELSE project[e] = None /\ staging[e] = start[e]
    BY <2>1 DEF RestoreInv
  <2>5. Ours(project)' /\ Asked(t, staging)'
    BY <1>1, <1>4, <2>3, <2>4 DEF Ours, Asked
  <2>6. \A e \in Derived : IF e \in todo'[t] THEN project'[e] = start[e] /\ start[e] # None /\ staging'[e] = None
                           ELSE project'[e] = None /\ staging'[e] = start[e]
    BY <1>4, <2>1, <2>3, <2>4
  <2> QED BY <1>1, <2>1, <2>4, <2>5, <2>6 DEF RestoreInv
<1>9. CASE MoveToTrash(t)
  <2>1. /\ pc[t] = "carry" /\ pc'[t] = "swap" /\ todo[t] = {} /\ trash' = project
        /\ UNCHANGED <<staging, todo>>
    BY <1>9 DEF MoveToTrash
  <2>2. /\ Ours(project) /\ Asked(t, staging) /\ \A d \in Derived : project[d] = None /\ staging[d] = start[d]
    BY <2>1 DEF RestoreInv
  <2> QED BY <1>1, <2>1, <2>2 DEF RestoreInv, Ours, Asked
<1>10. CASE Swap(t)
  <2>1. pc[t] = "swap" /\ pc'[t] = "sweep" /\ project' = staging /\ UNCHANGED trash /\ staging \in Tree
    BY <1>1, <1>10, DirFacts DEF Swap, DirsInv
  <2>2. Ours(trash) /\ Asked(t, staging) /\ \A d \in Derived : staging[d] = start[d]
    BY <2>1 DEF RestoreInv
  <2>3. staging = [p \in Path |-> IF p \in Derived THEN start[p] ELSE asked[p]]
    <3>1. \A p \in Path : staging[p] = IF p \in Derived THEN start[p] ELSE asked[p]
      BY <1>4, <2>2 DEF Asked
    <3> QED BY <2>1, <3>1 DEF Tree
  <2> QED BY <1>1, <2>1, <2>2, <2>3 DEF RestoreInv, Ours, Replaced
<1>11. CASE SweepTrash(t)
  <2>1. pc[t] = "sweep" /\ pc'[t] = "return" /\ UNCHANGED project
    BY <1>11 DEF SweepTrash
  <2> QED BY <1>1, <2>1 DEF RestoreInv, Replaced
<1>12. CASE RenameRaises(t)
  <2>1. pc[t] \in {"carry", "swap"} /\ pc'[t] = "recover" /\ UNCHANGED <<project, staging, trash>>
    BY <1>12 DEF RenameRaises, dirs
  <2>2. pc[t] = "carry" => project \in Tree /\ project # Gone
    BY <1>1, DirFacts DEF DirsInv
  <2>3. \A d \in todo[t] : d \in Files(project)
    <3>1. CASE pc[t] = "carry"
      BY <2>2, <3>1 DEF RestoreInv, Files
    <3>2. CASE pc[t] = "swap"
      BY <3>2 DEF RestoreInv
    <3> QED BY <2>1, <3>1, <3>2
  <2>4. faults' = faults + 1
    BY <1>12, <2>3 DEF RenameRaises, Fault
  <2>5. Scattered
    BY <1>1, <2>1 DEF RestoreInv, DirsInv, Scattered
  <2> QED BY <1>1, <1>3, <2>1, <2>4, <2>5 DEF RestoreInv, Scattered, Ours
<1>13. CASE RecoverProject(t)
  <2>1. /\ pc[t] = "recover" /\ pc'[t] = "recover" /\ project = Gone /\ project' = trash /\ trash # Gone
        /\ UNCHANGED <<staging, faults>>
    BY <1>1, <1>13 DEF RecoverProject, threads, DirsInv
  <2>2. faults >= 1 /\ Ours(trash) /\ \A d \in Derived : staging[d] = start[d] /\ trash[d] = None
    BY <2>1 DEF RestoreInv, Scattered
  <2> QED BY <1>1, <2>1, <2>2 DEF RestoreInv, Scattered, Ours
<1>14. ASSUME NEW d \in Derived, RecoverDir(t, d) PROVE RestoreInv(t)'
  <2>1. /\ pc[t] = "recover" /\ pc'[t] = "recover" /\ UNCHANGED faults /\ d \in Path
        /\ project \in Tree /\ project # Gone /\ staging \in Tree
    BY <1>1, <1>4, <1>14, DirFacts DEF RecoverDir, threads, DirsInv
  <2>2. /\ project' = [project EXCEPT ![d] = staging[d]] /\ staging' = [staging EXCEPT ![d] = None]
        /\ staging[d] # None /\ project[d] = None
    BY <1>14, <2>1 DEF RecoverDir, Files
  <2>3. /\ project'[d] = staging[d] /\ staging'[d] = None /\ project' # Gone /\ staging' # Gone
        /\ \A q \in Path \ {d} : staging'[q] = staging[q] /\ project'[q] = project[q]
    BY <2>1, <2>2, Distinct DEF Tree
  <2>4. /\ faults >= 1 /\ Ours(project)
        /\ \A e \in Derived : \/ project[e] = start[e] /\ staging[e] = None
                              \/ project[e] = None /\ staging[e] = start[e]
    BY <2>1 DEF RestoreInv, Scattered
  <2>5. Ours(project)'
    BY <1>1, <1>4, <2>3, <2>4 DEF Ours
  <2>6. \A e \in Derived : \/ project'[e] = start[e] /\ staging'[e] = None
                           \/ project'[e] = None /\ staging'[e] = start[e]
    BY <1>4, <2>1, <2>2, <2>3, <2>4
  <2>7. Scattered'
    BY <1>1, <2>3, <2>5, <2>6 DEF Scattered
  <2> QED BY <1>1, <2>1, <2>4, <2>7 DEF RestoreInv
<1>15. CASE RecoveryRaises(t)
  <2>1. pc[t] = "recover" /\ pc'[t] = "raise" /\ UNCHANGED <<project, staging, trash>>
    BY <1>15 DEF RecoveryRaises, dirs
  <2>2. faults >= 1 /\ Scattered
    BY <2>1 DEF RestoreInv
  <2>3. \A d \in Files(staging) \cap Derived : d \notin Files(project)
    BY <2>2 DEF Scattered, Files
  <2>4. faults' = faults + 1
    BY <1>15, <2>3 DEF RecoveryRaises, Fault
  <2>5. Scattered'
    BY <1>1, <2>1, <2>2 DEF Scattered, Ours
  <2> QED BY <1>1, <1>3, <2>1, <2>2, <2>4, <2>5 DEF RestoreInv
<1>16. CASE RecoveryEnds(t)
  <2>1. /\ pc[t] = "recover" /\ pc'[t] = "raise" /\ UNCHANGED project /\ project \in Tree /\ project # Gone
        /\ staging # Gone /\ Files(staging) \cap Derived = {}
    BY <1>1, <1>16, DirFacts DEF RecoveryEnds, Recovered, DirsInv
  <2>2. /\ Ours(project)
        /\ \A d \in Derived : \/ project[d] = start[d] /\ staging[d] = None
                              \/ project[d] = None /\ staging[d] = start[d]
    BY <2>1 DEF RestoreInv, Scattered
  <2>3. \A p \in Path : project[p] = start[p]
    <3>1. ASSUME NEW p \in Derived PROVE project[p] = start[p]
      BY <1>4, <2>1, <2>2, <3>1 DEF Files
    <3>2. ASSUME NEW p \in Source \cup Secret PROVE project[p] = start[p]
      BY <2>2, <3>2 DEF Ours
    <3> QED BY <1>4, <3>1, <3>2
  <2>4. project = start
    BY <1>2, <2>1, <2>3, SameTree
  <2> QED BY <1>1, <2>1, <2>4 DEF RestoreInv
<1>17. CASE \/ Check(t) \/ Put(t) \/ (\E p \in Path : CheckFile(t, p)) \/ CopyFile(t) \/ CountFile(t)
            \/ CopyEnds(t) \/ CopyRaises(t) \/ CopyFails(t) \/ Discard(t)
  BY <1>1, <1>17 DEF Check, Put, CheckFile, CopyFile, CountFile, CopyEnds, CopyRaises, CopyFails, Discard, Placed
<1> QED BY <1>5, <1>6, <1>7, <1>8, <1>9, <1>10, <1>11, <1>12, <1>13, <1>14, <1>15, <1>16, <1>17, Zenon DEF Inner

LEMMA OperationStep ==
    ASSUME TypeInv, LockInv, OperationInv, [Next]_vars
    PROVE  OperationInv'
<1>1. CASE UNCHANGED vars
  BY <1>1 DEF vars, dirs, threads, OperationInv, WriteInv, Fits, Files, Bytes, CopyInv, Left, RestoreInv, Ours,
              Asked, Replaced, Scattered
<1>2. CASE (\E p \in Path : Sandbox(p)) \/ (\E s \in SnapshotId : DeleteSnapshot(s))
  <2>1. owner' = owner
    BY <1>2 DEF Sandbox, DeleteSnapshot, threads
  <2> QED BY <1>2, <2>1, OthersRace DEF OperationInv
<1>3. CASE Die
  BY <1>3 DEF Die, OperationInv
<1>4. ASSUME NEW t \in Thread, Calls(t) PROVE OperationInv'
  BY <1>4, OperationBegins DEF OperationInv
<1>5. ASSUME NEW t \in Thread, Leave(t) PROVE OperationInv'
  BY <1>5 DEF Leave, OperationInv
<1>6. ASSUME NEW t \in Thread, Inner(t) PROVE OperationInv'
  <2>1. owner = t /\ owner # None /\ owner' = owner /\ call' = call /\ Placed(t)
    BY <1>6, Inside, Holder
  <2>2. WriteInv(t) /\ CopyInv(t) /\ RestoreInv(t)
    BY <2>1 DEF OperationInv
  <2>3. call[t] \in {"write", "create"} \/ call[t] = "snapshot" \/ call[t] = "restore"
    BY <2>1 DEF Placed
  <2>4. CASE call[t] \in {"write", "create"}
    BY <1>6, <2>1, <2>2, <2>4, WriteGoesOn DEF OperationInv, CopyInv, RestoreInv
  <2>5. CASE call[t] = "snapshot"
    BY <1>6, <2>1, <2>2, <2>5, CopyGoesOn DEF OperationInv, WriteInv, RestoreInv
  <2>6. CASE call[t] = "restore"
    BY <1>6, <2>1, <2>2, <2>6, RestoreGoesOn DEF OperationInv, WriteInv, CopyInv
  <2> QED BY <2>3, <2>4, <2>5, <2>6
<1> QED BY <1>1, <1>2, <1>3, <1>4, <1>5, <1>6, StepIs, Steps

\* Until a restore has returned, all of the project is somewhere on the disk.
LEMMA StillThere ==
    ASSUME TypeInv, LockInv, NEW t \in Thread, RestoreInv(t), call[t] = "restore", pc[t] # "return", ~raced
    PROVE  Saved({project, staging, trash} \ {Gone})
<1> USE DEF TypeInv, DirTypes, ThreadTypes
<1>1. Placed(t) /\ DirsInv(t) /\ start # Gone /\ Derived \subseteq Path
  BY Holder, Distinct DEF Path
<1>2. CASE project = start
  BY <1>1, <1>2 DEF Saved, Ours
<1>3. CASE pc[t] = "carry" \/ (pc[t] \in {"recover", "raise"} /\ project # Gone)
  BY <1>1, <1>2, <1>3 DEF Saved, RestoreInv, Scattered, DirsInv, Ours
<1>4. CASE pc[t] = "swap" \/ (pc[t] \in {"recover", "raise"} /\ project = Gone)
  BY <1>1, <1>2, <1>4 DEF Saved, RestoreInv, Scattered, DirsInv, Ours
<1>5. CASE pc[t] = "sweep"
  BY <1>1, <1>5 DEF Saved, RestoreInv, Replaced, DirsInv
<1>6. CASE pc[t] = "stage"
  BY <1>1, <1>2, <1>6 DEF RestoreInv
<1> QED BY <1>1, <1>3, <1>4, <1>5, <1>6 DEF Placed

LEMMA WreckStep ==
    ASSUME TypeInv, LockInv, OperationInv, WreckInv, [Next]_vars
    PROVE  WreckInv'
<1> SUFFICES ASSUME owner' = None, project' = Gone, ~raced' PROVE Saved(wreck)'
  BY DEF WreckInv
<1> USE DEF TypeInv, DirTypes, ThreadTypes
<1>1. CASE UNCHANGED vars
  BY <1>1 DEF vars, dirs, threads, WreckInv, Saved, Ours
<1>2. ASSUME NEW p \in Path, Sandbox(p) PROVE FALSE
  <2>1. PICK content \in Content : project' = [project EXCEPT ![p] = content]
    BY <1>2 DEF Sandbox, Content
  <2>2. project \in Tree
    BY <1>2, DirFacts DEF Sandbox
  <2>3. [project EXCEPT ![p] = content] \in Tree
    BY <2>2, TreePut
  <2> QED BY <2>1, <2>3, Distinct
<1>3. ASSUME NEW s \in SnapshotId, DeleteSnapshot(s) PROVE Saved(wreck)'
  <2>1. ~raced
    BY <1>3, Zenon DEF DeleteSnapshot
  <2> QED BY <1>3, <2>1 DEF DeleteSnapshot, threads, WreckInv, Saved, Ours
<1>4. ASSUME NEW t \in Thread, owner = t, owner # None, project = Gone, ~raced, start' = start,
             wreck' = {staging, trash} \ {Gone}
      PROVE  Saved(wreck)'
  <2>1. Placed(t) /\ DirsInv(t) /\ RestoreInv(t)
    BY <1>4 DEF LockInv, OperationInv
  <2>2. call[t] = "restore" /\ pc[t] # "return"
    BY <1>4, <2>1 DEF DirsInv
  <2>3. Saved({project, staging, trash} \ {Gone})
    BY <1>4, <2>1, <2>2, StillThere
  <2>4. {project, staging, trash} \ {Gone} = wreck'
    BY <1>4
  <2> QED BY <1>4, <2>3, <2>4 DEF Saved, Ours
<1>5. CASE Die
  <2>1. project = Gone /\ ~raced /\ owner \in Thread /\ owner # None /\ start' = start
        /\ wreck' = {staging, trash} \ {Gone}
    BY <1>5 DEF Die
  <2> QED BY <1>4, <2>1
<1>6. ASSUME NEW t \in Thread, Calls(t) PROVE FALSE
  <2>1. CASE \/ \E p \in Path : DeleteFile(t, p)
             \/ \E p, q \in Path : RenameFile(t, p, q)
    <3>1. project \in Tree /\ None \in Content /\ \A p \in Path : project[p] \in Content
      BY <2>1, DirFacts DEF DeleteFile, RenameFile, Tree
    <3>2. PICK p \in Path : DeleteFile(t, p) \/ \E q \in Path : RenameFile(t, p, q)
      BY <2>1
    <3>3. [project EXCEPT ![p] = None] \in Tree
      BY <3>1, TreePut
    <3>4. project' \in Tree
      <4>1. CASE DeleteFile(t, p)
        BY <3>3, <4>1 DEF DeleteFile
      <4>2. ASSUME NEW q \in Path, RenameFile(t, p, q) PROVE project' \in Tree
        <5>1. project' = [[project EXCEPT ![p] = None] EXCEPT ![q] = project[p]]
          BY <4>2 DEF RenameFile
        <5>2. [[project EXCEPT ![p] = None] EXCEPT ![q] = project[p]] \in Tree
          BY <3>1, <3>3, TreePut
        <5> QED BY <5>1, <5>2
      <4> QED BY <3>2, <4>1, <4>2
    <3> QED BY <3>4, Distinct
  <2>2. CASE Write(t) \/ \E s \in SnapshotId : CreateSnapshot(t, s) \/ Restore(t, s)
    <3>1. owner' # None
      BY <2>2, CallsEnter DEF Entered
    <3> QED BY <3>1
  <2> QED BY <1>6, <2>1, <2>2, Zenon DEF Calls
<1>7. ASSUME NEW t \in Thread, Leave(t) PROVE Saved(wreck)'
  <2>1. project = Gone /\ start' = start /\ wreck' = {staging, trash} \ {Gone} /\ pc[t] # "idle"
    BY <1>7 DEF Leave
  <2>2. ~raced
    BY <1>7, <2>1, Zenon DEF Leave
  <2>3. owner = t /\ owner # None
    BY <2>1, Holder
  <2> QED BY <1>4, <2>1, <2>2, <2>3
<1>8. ASSUME NEW t \in Thread, Inner(t) PROVE FALSE
  BY <1>8, Inside, Holder
<1> QED BY <1>1, <1>2, <1>3, <1>5, <1>6, <1>7, <1>8, StepIs, Steps

-----------------------------------------------------------------------------
(* The quota of the store.                                                 *)

LEMMA BytesPut ==
    ASSUME NEW dir \in Tree, NEW p \in Path, dir[p] = None, NEW c \in Content \ {None}
    PROVE  Bytes([dir EXCEPT ![p] = c]) = Bytes(dir) + c
<1> DEFINE new == [dir EXCEPT ![p] = c]
<1>1. new \in Tree /\ new[p] = c /\ \A q \in Path \ {p} : new[q] = dir[q]
  BY DEF Tree
<1> HIDE DEF new
<1>2. Files(new) = Files(dir) \cup {p} /\ p \notin Files(dir) /\ Files(new) \ {p} = Files(dir)
  BY <1>1, Distinct DEF Files
<1>3. \A q \in Files(new) : new[q] \in Nat
  BY <1>1, DirFacts, SizesAreNumbers DEF Files
<1>4. SumFunctionOnSet(new, Files(new)) = new[p] + SumFunctionOnSet(new, Files(dir))
  <2>1. p \in Files(new) /\ IsFiniteSet(Files(new))
    BY <1>2, FilesFinite
  <2>2. SumFunctionOnSet(new, Files(new)) = new[p] + SumFunctionOnSet(new, Files(new) \ {p})
    BY <1>3, <2>1, SumRemove
  <2> QED BY <1>2, <2>2
<1>5. SumFunctionOnSet(new, Files(dir)) = SumFunctionOnSet(dir, Files(dir))
  BY <1>1, <1>2, FilesFinite, SumSame, Distinct DEF Files
<1>6. c \in Nat /\ Bytes(dir) \in Nat
  BY SizesAreNumbers, BytesType, DirFacts
<1> QED BY <1>1, <1>4, <1>5, <1>6 DEF Bytes, new

LEMMA UsedIs ==
    /\ StorageUsed = UsedIn(snaps) /\ StorageUsed' = UsedIn(snaps')
    /\ Ids = IdsIn(snaps) /\ Ids' = IdsIn(snaps')
BY DEF StorageUsed, SumFunction, UsedIn, Taken, Ids, IdsIn, Bytes, Files

LEMMA QuotaIs ==
    QuotaInv' <=>
        /\ Bounded(snaps')
        /\ owner' # None =>
             /\ pc'[owner'] \in Loop =>
                  Fitting(snaps', arg'[owner'], copy'.total,
                          IF pc'[owner'] = "copied" THEN Without(snaps'[arg'[owner'].id], copy'.file)
                          ELSE Made(snaps'[arg'[owner'].id]),
                          todo'[owner'])
             /\ call'[owner'] = "snapshot" /\ pc'[owner'] = "return" => UsedIn(snaps') <= MaxStorage
        /\ owner' = None \/ pc'[owner'] \notin Loop => copy' = NoCopy
BY DEF QuotaInv, CopyQuota, Counted, Without, Made, Bounded, Fitting, RestIn, UsedIn, Taken, IdsIn, Bytes, Files

\* The storage in use is what one snapshot takes, and the rest.
LEMMA UsedSplit ==
    ASSUME NEW f \in [SnapshotId -> Dir], NEW s \in SnapshotId
    PROVE  /\ UsedIn(f) = Bytes(f[s]) + RestIn(f, s)
           /\ Bytes(f[s]) \in Nat /\ RestIn(f, s) \in Nat /\ UsedIn(f) \in Nat
<1>1. \A x \in SnapshotId : Taken(f)[x] \in Nat
  BY BytesType DEF Taken
<1>2. IsFiniteSet(SnapshotId) /\ IsFiniteSet(SnapshotId \ {s})
  BY FilesFinite, FS_RemoveElement
<1>3. SumFunctionOnSet(Taken(f), SnapshotId) = Taken(f)[s] + SumFunctionOnSet(Taken(f), SnapshotId \ {s})
  BY <1>1, <1>2, SumRemove
<1>4. SumFunctionOnSet(Taken(f), SnapshotId \ {s}) \in Nat /\ SumFunctionOnSet(Taken(f), SnapshotId) \in Nat
  BY <1>1, <1>2, SumType
<1>5. Taken(f)[s] = Bytes(f[s])
  BY DEF Taken
<1> QED BY <1>1, <1>3, <1>4, <1>5 DEF UsedIn, RestIn

\* The others take what they took.
LEMMA OthersTake ==
    \A f, g \in [SnapshotId -> Dir], s \in SnapshotId :
        (\A x \in SnapshotId \ {s} : g[x] = f[x]) => RestIn(g, s) = RestIn(f, s)
<1> SUFFICES ASSUME NEW f \in [SnapshotId -> Dir], NEW g \in [SnapshotId -> Dir], NEW s \in SnapshotId,
                    \A x \in SnapshotId \ {s} : g[x] = f[x]
             PROVE  RestIn(g, s) = RestIn(f, s)
  BY Zenon
<1>1. \A x \in SnapshotId \ {s} : Taken(g)[x] = Taken(f)[x]
  BY DEF Taken
<1>2. IsFiniteSet(SnapshotId \ {s})
  BY FilesFinite, FS_RemoveElement
<1> QED BY <1>1, <1>2, SumSame DEF RestIn

LEMMA IdsFinite ==
    ASSUME NEW f
    PROVE  /\ IsFiniteSet(IdsIn(f)) /\ Cardinality(IdsIn(f)) \in Nat
           /\ \A s \in SnapshotId : IsFiniteSet(IdsIn(f) \cup {s}) /\ Cardinality(IdsIn(f) \cup {s}) \in Nat
<1>1. /\ IsFiniteSet(SnapshotId) /\ IdsIn(f) \in SUBSET SnapshotId
      /\ \A s \in SnapshotId : IdsIn(f) \cup {s} \in SUBSET SnapshotId
  BY FilesFinite DEF IdsIn
<1> QED BY <1>1, FS_Subset, FS_CardinalityType

\* Removing a snapshot only lowers what is in use.
LEMMA Removing ==
    ASSUME NEW f \in [SnapshotId -> Dir], NEW x \in SnapshotId, NEW g, g = [f EXCEPT ![x] = Gone]
    PROVE  /\ Bounded(f) => Bounded(g)
           /\ UsedIn(f) \in Nat /\ UsedIn(g) \in Nat /\ UsedIn(g) <= UsedIn(f)
           /\ \A a, total, dir, rest : a.id \in SnapshotId /\ Fitting(f, a, total, dir, rest) =>
                Fitting(g, a, total, dir, rest)
<1>0. g \in [SnapshotId -> Dir] /\ \A s \in SnapshotId : g[s] = IF s = x THEN Gone ELSE f[s]
  BY DEF Dir
<1>1. \A s \in SnapshotId : Bytes(g[s]) \in Nat /\ Bytes(f[s]) \in Nat /\ Bytes(g[s]) <= Bytes(f[s])
  <2> SUFFICES ASSUME NEW s \in SnapshotId
               PROVE  Bytes(g[s]) \in Nat /\ Bytes(f[s]) \in Nat /\ Bytes(g[s]) <= Bytes(f[s])
    OBVIOUS
  <2>1. Bytes(g[s]) \in Nat /\ Bytes(f[s]) \in Nat
    BY <1>0, BytesType
  <2> QED BY <1>0, <2>1, BytesNone
<1>2. \A s \in SnapshotId : Taken(g)[s] \in Nat /\ Taken(f)[s] \in Nat /\ Taken(g)[s] <= Taken(f)[s]
  BY <1>1 DEF Taken
<1>3. IsFiniteSet(SnapshotId) /\ \A s \in SnapshotId : IsFiniteSet(SnapshotId \ {s})
  BY FilesFinite, FS_RemoveElement
<1>4. UsedIn(g) <= UsedIn(f) /\ UsedIn(f) \in Nat /\ UsedIn(g) \in Nat
  <2>1. UsedIn(g) <= UsedIn(f)
    BY <1>2, <1>3, SumGrows DEF UsedIn
  <2> QED BY <1>0, <2>1, UsedSplit
<1>5. \A s \in SnapshotId : RestIn(g, s) <= RestIn(f, s)
  <2> SUFFICES ASSUME NEW s \in SnapshotId PROVE RestIn(g, s) <= RestIn(f, s)
    OBVIOUS
  <2> QED BY <1>2, <1>3, SumGrows DEF RestIn
<1>6. Cardinality(IdsIn(g)) <= Cardinality(IdsIn(f))
  <2>1. IdsIn(g) \in SUBSET IdsIn(f)
    BY <1>0 DEF IdsIn
  <2> QED BY <2>1, IdsFinite, FS_Subset
<1>7. ASSUME Bounded(f) PROVE Bounded(g)
  <2>1. Cardinality(IdsIn(g)) <= MaxSnapshots
    BY <1>6, <1>7, IdsFinite, MaxNumbers DEF Bounded
  <2>2. CASE UsedIn(f) <= MaxStorage
    <3>1. UsedIn(g) <= MaxStorage
      BY <1>4, <2>2, MaxNumbers
    <3> QED BY <2>1, <3>1 DEF Bounded
  <2>3. CASE \E s \in SnapshotId : \E p \in Files(f[s]) : UsedIn(f) - f[s][p] <= MaxStorage
    <3>0. PICK s \in SnapshotId : \E p \in Files(f[s]) : UsedIn(f) - f[s][p] <= MaxStorage
      BY <2>3
    <3>1. PICK p \in Files(f[s]) : UsedIn(f) - f[s][p] <= MaxStorage
      BY <3>0
    <3>2. f[s][p] \in Nat
      BY DirFacts, SizesAreNumbers DEF Files
    <3>3. CASE s # x
      <4>1. g[s] = f[s]
        BY <1>0, <3>3
      <4>2. UsedIn(g) - f[s][p] <= MaxStorage
        BY <1>4, <3>1, <3>2, MaxNumbers
      <4> QED BY <2>1, <4>1, <4>2 DEF Bounded
    <3>4. CASE s = x
      <4>1. UsedIn(g) = RestIn(f, x) /\ UsedIn(f) = Bytes(f[x]) + RestIn(f, x) /\ RestIn(f, x) \in Nat
        <5>1. UsedIn(g) = Bytes(g[x]) + RestIn(g, x) /\ Bytes(g[x]) = 0 /\ RestIn(g, x) = RestIn(f, x)
          BY <1>0, UsedSplit, BytesNone, OthersTake
        <5> QED BY <5>1, UsedSplit
      <4>2. f[x][p] <= Bytes(f[x]) /\ Bytes(f[x]) \in Nat
        <5>1. \A q \in Files(f[x]) : f[x][q] \in Nat
          BY DirFacts, SizesAreNumbers DEF Files
        <5>2. IsFiniteSet(Files(f[x]))
          BY FilesFinite
        <5>3. p \in Files(f[x]) /\ IsFiniteSet(Files(f[x]) \ {p})
          BY <3>4, <5>2, FS_RemoveElement
        <5>4. Bytes(f[x]) = f[x][p] + SumFunctionOnSet(f[x], Files(f[x]) \ {p})
          BY <5>1, <5>2, <5>3, SumRemove DEF Bytes
        <5>5. SumFunctionOnSet(f[x], Files(f[x]) \ {p}) \in Nat
          BY <5>1, <5>3, SumType
        <5> QED BY <5>1, <5>3, <5>4, <5>5
      <4>3. UsedIn(g) <= MaxStorage
        BY <3>1, <3>2, <3>4, <4>1, <4>2, MaxNumbers
      <4> QED BY <2>1, <4>3 DEF Bounded
    <3> QED BY <3>3, <3>4
  <2> QED BY <1>7, <2>2, <2>3 DEF Bounded
<1>8. ASSUME NEW a, NEW total, NEW dir, NEW rest, a.id \in SnapshotId, Fitting(f, a, total, dir, rest)
      PROVE  Fitting(g, a, total, dir, rest)
  <2> DEFINE s == a.id
  <2>1. RestIn(g, s) \in Nat /\ RestIn(f, s) \in Nat /\ RestIn(g, s) <= RestIn(f, s)
    BY <1>0, <1>5, <1>8, UsedSplit
  <2>2. Cardinality(IdsIn(g) \cup {s}) <= Cardinality(IdsIn(f) \cup {s})
    <3>1. IdsIn(g) \cup {s} \in SUBSET (IdsIn(f) \cup {s})
      BY <1>0 DEF IdsIn
    <3> QED BY <1>8, <3>1, IdsFinite, FS_Subset
  <2>3. a.used \in Nat /\ RestIn(g, s) <= a.used
    BY <1>8, <2>1 DEF Fitting
  <2>4. Cardinality(IdsIn(g) \cup {s}) <= MaxSnapshots
    <3>1. Cardinality(IdsIn(g) \cup {s}) \in Nat /\ Cardinality(IdsIn(f) \cup {s}) \in Nat
      BY <1>8, IdsFinite
    <3> QED BY <1>8, <2>2, <3>1, MaxNumbers DEF Fitting
  <2> QED BY <1>8, <2>3, <2>4 DEF Fitting
<1> QED BY <1>4, <1>7, <1>8

\* Nothing of a snapshot has been counted that is not there.
LEMMA FittingEmpty ==
    ASSUME NEW f, NEW a, NEW total, NEW dir, NEW rest, rest \subseteq Path, Fitting(f, a, total, dir, rest)
    PROVE  Fitting(f, a, total, Empty, rest)
<1>1. Empty \in Tree /\ \A p \in rest : Empty[p] = None
  BY DirFacts DEF Empty
<1>2. Bytes(Empty) <= total
  BY BytesNone DEF Fitting
<1> QED BY <1>1, <1>2 DEF Fitting

\* A new snapshot that is still empty.
LEMMA Adding ==
    ASSUME NEW f \in [SnapshotId -> Dir], NEW s \in SnapshotId, f[s] = Gone,
           Cardinality(IdsIn(f)) < MaxSnapshots, UsedIn(f) < MaxStorage,
           NEW g \in [SnapshotId -> Dir], g[s] = Empty, \A x \in SnapshotId \ {s} : g[x] = f[x],
           NEW a, a.id = s, a.used = UsedIn(f), NEW rest, rest \subseteq Path
    PROVE  Bounded(g) /\ Fitting(g, a, 0, Empty, rest)
<1>1. RestIn(g, s) = RestIn(f, s) /\ Bytes(f[s]) = 0 /\ Bytes(g[s]) = 0
  <2>1. RestIn(g, s) = RestIn(f, s)
    BY OthersTake
  <2> QED BY <2>1, BytesNone
<1>2. /\ UsedIn(f) = Bytes(f[s]) + RestIn(f, s) /\ RestIn(f, s) \in Nat /\ UsedIn(f) \in Nat
      /\ UsedIn(g) = Bytes(g[s]) + RestIn(g, s)
  BY UsedSplit
<1>3. IdsIn(g) = IdsIn(f) \cup {s} /\ s \notin IdsIn(f) /\ IdsIn(g) \cup {s} = IdsIn(g)
  <2>1. Empty # Gone
    BY Distinct DEF Empty, Tree, Content
  <2> QED BY <2>1 DEF IdsIn
<1>4. Cardinality(IdsIn(g)) = Cardinality(IdsIn(f)) + 1
  BY <1>3, IdsFinite, FS_AddElement
<1>5. Cardinality(IdsIn(g)) <= MaxSnapshots
  BY <1>4, IdsFinite, MaxNumbers
<1>6. UsedIn(g) <= MaxStorage /\ RestIn(g, s) <= UsedIn(f) /\ UsedIn(f) + 0 <= MaxStorage
  BY <1>1, <1>2, MaxNumbers
<1>7. Empty \in Tree /\ Bytes(Empty) <= 0 /\ \A p \in rest : Empty[p] = None
  BY DirFacts, BytesNone DEF Empty
<1> QED BY <1>2, <1>3, <1>5, <1>6, <1>7 DEF Bounded, Fitting

\* A file that has been checked is copied, and may have grown: whatever the store
\* has too much is in this file.
LEMMA Growing ==
    ASSUME NEW f \in [SnapshotId -> Dir], NEW a, a.id \in SnapshotId, NEW total, NEW rest, rest \subseteq Path,
           Fitting(f, a, total, Made(f[a.id]), rest), NEW p \in rest, NEW c \in Content \ {None},
           NEW g, g = [f EXCEPT ![a.id] = [Made(f[a.id]) EXCEPT ![p] = c]]
    PROVE  Bounded(g) /\ Fitting(g, a, total, Without(g[a.id], p), rest)
<1> DEFINE s == a.id
           old == Made(f[s])
           new == [old EXCEPT ![p] = c]
<1>1. old \in Tree /\ old[p] = None /\ p \in Path /\ Bytes(old) <= total /\ total \in Nat
  BY DEF Fitting
<1>2. new \in Tree /\ Bytes(new) = Bytes(old) + c /\ new[p] = c
  BY <1>1, TreePut, BytesPut DEF Tree
<1>3. Made(new) = new /\ [new EXCEPT ![p] = None] = old /\ new # Gone
  <2>1. new # Gone
    BY <1>2, Distinct
  <2>2. [new EXCEPT ![p] = None] = old
    BY <1>1 DEF Tree
  <2> QED BY <2>1, <2>2 DEF Made
<1>4. c \in Nat /\ Bytes(old) \in Nat
  BY <1>1, SizesAreNumbers, BytesType, DirFacts
<1>5. f[s] \in Dir /\ \A q \in rest : old[q] = None
  BY DEF Fitting
<1> HIDE DEF new, old
<1>6. g \in [SnapshotId -> Dir] /\ g[s] = new /\ \A x \in SnapshotId \ {s} : g[x] = f[x]
  BY <1>2, DirFacts DEF new, old
<1>7. RestIn(g, s) = RestIn(f, s)
  BY <1>6, OthersTake
<1>8. UsedIn(g) = Bytes(new) + RestIn(f, s) /\ RestIn(f, s) \in Nat
  BY <1>6, <1>7, UsedSplit
<1>9. /\ a.used \in Nat /\ RestIn(f, s) <= a.used /\ a.used + total <= MaxStorage
      /\ Cardinality(IdsIn(f) \cup {s}) <= MaxSnapshots
  BY DEF Fitting
<1>10. IdsIn(g) = IdsIn(f) \cup {s} /\ IdsIn(g) \cup {s} = IdsIn(g)
  BY <1>3, <1>6 DEF IdsIn
<1>11. UsedIn(g) - g[s][p] <= MaxStorage
  <2>1. UsedIn(g) - c = Bytes(old) + RestIn(f, s)
    BY <1>2, <1>4, <1>8
  <2>2. g[s][p] = c
    BY <1>2, <1>6
  <2>3. Bytes(old) + RestIn(f, s) <= MaxStorage
    BY <1>1, <1>4, <1>8, <1>9, MaxNumbers
  <2> QED BY <2>1, <2>2, <2>3
<1>12. p \in Files(g[s])
  BY <1>1, <1>2, <1>3, <1>6 DEF Files
<1>13. Without(g[s], p) = old
  BY <1>3, <1>6 DEF Without
<1>14. Bounded(g)
  BY <1>9, <1>10, <1>11, <1>12 DEF Bounded
<1>15. Fitting(g, a, total, old, rest)
  BY <1>1, <1>5, <1>7, <1>9, <1>10 DEF Fitting
<1> QED BY <1>13, <1>14, <1>15

\* A copied file is counted when it fits.
LEMMA Counting ==
    ASSUME NEW f \in [SnapshotId -> Dir], NEW a, a.id \in SnapshotId, NEW total, NEW rest, rest \subseteq Path,
           NEW p \in Files(f[a.id]), Fitting(f, a, total, Without(f[a.id], p), rest),
           a.used + total + f[a.id][p] <= MaxStorage
    PROVE  Fitting(f, a, total + f[a.id][p], Made(f[a.id]), rest \ {p})
<1> DEFINE dir == f[a.id]
           less == Without(dir, p)
<1>1. p \in Path /\ dir \in Tree /\ dir[p] \in Content \ {None} /\ Made(dir) = dir
  BY DirFacts DEF Files, Made
<1>2. less = [dir EXCEPT ![p] = None] /\ less \in Tree /\ Bytes(less) <= total /\ total \in Nat
      /\ \A q \in rest : less[q] = None
  BY <1>1 DEF Without, Fitting
<1>3. less[p] = None /\ dir = [less EXCEPT ![p] = dir[p]] /\ \A q \in Path \ {p} : less[q] = dir[q]
  BY <1>1, <1>2 DEF Tree
<1> HIDE DEF dir, less
<1>4. Bytes(dir) = Bytes(less) + dir[p]
  BY <1>1, <1>2, <1>3, BytesPut
<1>5. dir[p] \in Nat /\ Bytes(less) \in Nat /\ a.used \in Nat
  <2>1. less \in Dir
    BY <1>2, DirFacts
  <2> QED BY <1>1, <2>1, SizesAreNumbers, BytesType DEF Fitting
<1>6. total + dir[p] \in Nat /\ Bytes(dir) <= total + dir[p] /\ a.used + (total + dir[p]) <= MaxStorage
  BY <1>2, <1>4, <1>5, MaxNumbers DEF dir
<1>7. \A q \in rest \ {p} : dir[q] = None
  BY <1>2, <1>3
<1>8. /\ RestIn(f, a.id) <= a.used /\ Cardinality(IdsIn(f) \cup {a.id}) <= MaxSnapshots
  BY DEF Fitting
<1>9. Fitting(f, a, total + dir[p], dir, rest \ {p})
  BY <1>1, <1>5, <1>6, <1>7, <1>8 DEF Fitting
<1> QED BY <1>1, <1>9 DEF dir

\* A step that leaves the snapshots alone, and the loop of create() as well unless
\* it leaves it.
LEMMA QuotaKept ==
    ASSUME QuotaInv, snaps' = snaps,
           \/ owner' = owner /\ UNCHANGED <<pc, call, arg, todo, copy>>
           \/ /\ \/ owner' = None \/ pc'[owner'] \notin Loop \cup {"return"}
                 \/ call'[owner'] # "snapshot" /\ pc'[owner'] \notin Loop
              /\ copy' = NoCopy
    PROVE  QuotaInv'
<1>1. Bounded(snaps')
  BY DEF QuotaInv
<1>2. CASE owner' = owner /\ UNCHANGED <<pc, call, arg, todo, copy>>
  BY <1>2 DEF QuotaInv, CopyQuota, Counted, Without, Made, Bounded, Fitting, RestIn, UsedIn, Taken, IdsIn, Bytes, Files
<1>3. CASE /\ \/ owner' = None \/ pc'[owner'] \notin Loop \cup {"return"}
              \/ call'[owner'] # "snapshot" /\ pc'[owner'] \notin Loop
           /\ copy' = NoCopy
  BY <1>1, <1>3, QuotaIs
<1> QED BY <1>2, <1>3

LEMMA QuotaStep ==
    ASSUME TypeInv, LockInv, QuotaInv, [Next]_vars
    PROVE  QuotaInv'
<1> USE DEF TypeInv, DirTypes, ThreadTypes
<1>0. snaps \in [SnapshotId -> Dir] /\ Bounded(snaps)
  BY DEF QuotaInv
<1>1. CASE UNCHANGED vars
  BY <1>1, QuotaKept DEF vars, dirs, threads
<1>2. CASE \E p \in Path : Sandbox(p)
  BY <1>2, QuotaKept DEF Sandbox, threads
<1>3. ASSUME NEW x \in SnapshotId, DeleteSnapshot(x) PROVE QuotaInv'
  <2>1. snaps' = [snaps EXCEPT ![x] = Gone]
        /\ owner' = owner /\ pc' = pc /\ call' = call /\ arg' = arg /\ todo' = todo /\ copy' = copy
    BY <1>3 DEF DeleteSnapshot, threads
  <2>2. Bounded(snaps') /\ UsedIn(snaps) \in Nat /\ UsedIn(snaps') \in Nat /\ UsedIn(snaps') <= UsedIn(snaps)
    BY <1>0, <2>1, Removing
  <2>3. ASSUME owner # None, pc[owner] \in Loop
        PROVE  Fitting(snaps', arg[owner], copy.total,
                       IF pc[owner] = "copied" THEN Without(snaps'[arg[owner].id], copy.file)
                       ELSE Made(snaps'[arg[owner].id]),
                       todo[owner])
    <3> DEFINE s == arg[owner].id
               there == IF pc[owner] = "copied" THEN Without(snaps'[s], copy.file) ELSE Made(snaps'[s])
    <3>1. s \in SnapshotId /\ todo[owner] \subseteq Path /\ (pc[owner] = "copied" => copy.file \in Path)
      BY <2>3 DEF LockInv, Placed, Loop
    <3>2. Fitting(snaps, arg[owner], copy.total, Counted(owner), todo[owner])
      BY <2>3 DEF QuotaInv, CopyQuota
    <3>3. Fitting(snaps', arg[owner], copy.total, Counted(owner), todo[owner])
      BY <1>0, <2>1, <3>1, <3>2, Removing
    <3>4. CASE s # x
      <4>1. snaps'[s] = snaps[s]
        BY <2>1, <3>1, <3>4
      <4> QED BY <3>3, <4>1 DEF Counted
    <3>5. CASE s = x
      <4>1. snaps'[s] = Gone
        BY <2>1, <3>1, <3>5
      <4>2. there = Empty
        BY <3>1, <4>1 DEF Without, Made, Empty
      <4>3. Fitting(snaps', arg[owner], copy.total, Empty, todo[owner])
        BY <3>1, <3>3, FittingEmpty
      <4> QED BY <4>2, <4>3
    <3> QED BY <3>4, <3>5
  <2>4. ASSUME owner # None, call[owner] = "snapshot", pc[owner] = "return" PROVE UsedIn(snaps') <= MaxStorage
    <3>1. UsedIn(snaps) <= MaxStorage
      BY <2>4 DEF QuotaInv, CopyQuota
    <3> QED BY <2>2, <3>1, MaxNumbers
  <2>5. owner = None \/ pc[owner] \notin Loop => copy = NoCopy
    BY DEF QuotaInv
  <2> QED BY <2>1, <2>2, <2>3, <2>4, <2>5, QuotaIs
<1>4. CASE Die
  BY <1>4, QuotaKept DEF Die
<1>idle. owner = None => copy = NoCopy
  BY DEF QuotaInv
<1>5. ASSUME NEW t \in Thread, Write(t) \/ \E s \in SnapshotId : Restore(t, s) PROVE QuotaInv'
  <2>1. snaps' = snaps /\ copy' = copy
    BY <1>5 DEF Write, Restore
  <2>2. owner = None /\ owner' = t /\ pc'[t] \in {"check", "stage"}
    BY <1>5, CallsEnter DEF Entered
  <2> QED BY <1>idle, <2>1, <2>2, QuotaKept DEF Loop
<1>6. CASE \E t \in Thread : \/ \E p \in Path : DeleteFile(t, p)
                             \/ \E p, q \in Path : RenameFile(t, p, q)
  BY <1>6, QuotaKept DEF DeleteFile, RenameFile, threads
<1>7. ASSUME NEW t \in Thread, NEW s \in SnapshotId, CreateSnapshot(t, s) PROVE QuotaInv'
  <2>1. Entered(t, "snapshot", "copy", [id |-> s, used |-> StorageUsed])
    BY <1>7, CallsEnter
  <2>2. owner = None /\ owner' = t /\ owner' # None /\ pc'[t] = "copy" /\ arg'[t].id = s /\ arg'[t].used = StorageUsed
    BY <2>1 DEF Entered
  <2>3. /\ snaps' = [snaps EXCEPT ![s] = Empty] /\ s \notin Ids /\ copy' = copy
        /\ Cardinality(Ids) < MaxSnapshots /\ StorageUsed < MaxStorage
    BY <1>7 DEF CreateSnapshot
  <2>4. snaps[s] = Gone /\ Cardinality(IdsIn(snaps)) < MaxSnapshots /\ UsedIn(snaps) < MaxStorage
        /\ arg'[t].used = UsedIn(snaps)
    <3>1. snaps[s] = Gone
      BY <2>3 DEF Ids
    <3> QED BY <2>2, <2>3, <3>1, UsedIs
  <2>5. todo'[t] \subseteq Path
    BY <1>7 DEF CreateSnapshot, Work, Visible, Path
  <2>6. snaps' \in [SnapshotId -> Dir] /\ snaps'[s] = Empty /\ \A x \in SnapshotId \ {s} : snaps'[x] = snaps[x]
    <3>1. Empty \in Dir
      BY DirFacts
    <3> QED BY <1>0, <2>3, <3>1
  <2>7. Bounded(snaps') /\ Fitting(snaps', arg'[t], 0, Empty, todo'[t])
    BY <1>0, <2>2, <2>4, <2>5, <2>6, Adding
  <2>8. copy'.total = 0 /\ Made(snaps'[s]) = Empty
    BY <1>idle, <2>2, <2>3, <2>6, Distinct, DirFacts DEF NoCopy, Made
  <2> QED BY <2>2, <2>7, <2>8, QuotaIs DEF Loop
<1>8. ASSUME NEW t \in Thread, Leave(t) PROVE QuotaInv'
  BY <1>8, QuotaKept DEF Leave
<1>9. ASSUME NEW t \in Thread, Inner(t) PROVE QuotaInv'
  <2> DEFINE s == arg[t].id
  <2>1. /\ owner = t /\ owner' = t /\ owner # None /\ Placed(t)
        /\ arg' = arg /\ call' = call
    BY <1>9, Inside, Holder
  <2>2. pc[t] \in Loop => Fitting(snaps, arg[t], copy.total, Counted(t), todo[t])
    BY <2>1 DEF QuotaInv, CopyQuota
  <2>3. pc[t] \in Loop => s \in SnapshotId /\ todo[t] \subseteq Path /\ (pc[t] # "copy" => copy.file \in todo[t])
    BY <2>1 DEF Placed, Loop
  <2>4. ASSUME NEW p \in Path, CheckFile(t, p) PROVE QuotaInv'
    <3>1. /\ pc[t] = "copy" /\ pc'[t] = "copying" /\ snaps' = snaps /\ todo' = todo /\ copy'.total = copy.total
      BY <2>4 DEF CheckFile, Goto, dirs
    <3>2. Fitting(snaps, arg[t], copy.total, Made(snaps[s]), todo[t])
      BY <2>2, <3>1 DEF Counted, Loop
    <3> QED BY <1>0, <2>1, <3>1, <3>2, QuotaIs DEF Loop
  <2>5. ASSUME CopyFile(t) PROVE QuotaInv'
    <3> DEFINE p == copy.file
    <3>1. /\ pc[t] = "copying" /\ pc'[t] = "copied" /\ todo' = todo /\ copy' = copy
          /\ snaps' = [snaps EXCEPT ![s] = [Made(snaps[s]) EXCEPT ![p] = project[p]]]
      BY <2>5 DEF CopyFile, Goto
    <3>2. project[p] \in Content \ {None}
      BY <2>5, DirFacts DEF CopyFile, Files
    <3>3. Fitting(snaps, arg[t], copy.total, Made(snaps[s]), todo[t]) /\ s \in SnapshotId
          /\ todo[t] \subseteq Path /\ p \in todo[t]
      BY <2>2, <2>3, <3>1 DEF Counted, Loop
    <3>4. Bounded(snaps') /\ Fitting(snaps', arg[t], copy.total, Without(snaps'[s], p), todo[t])
      <4> HIDE DEF p
      <4> QED BY <1>0, <3>1, <3>2, <3>3, Growing
    <3> QED BY <2>1, <3>1, <3>4, QuotaIs DEF Loop
  <2>6. ASSUME CountFile(t) PROVE QuotaInv'
    <3> DEFINE p == copy.file
               size == snaps[s][p]
    <3>1. /\ pc[t] = "copied" /\ pc'[t] = "copy" /\ snaps' = snaps /\ todo'[t] = todo[t] \ {p}
          /\ p \in Files(snaps[s]) /\ arg[t].used + copy.total + size <= MaxStorage
          /\ copy'.total = copy.total + size
      BY <2>6 DEF CountFile, Goto, Work, Stored, dirs
    <3>2. Fitting(snaps, arg[t], copy.total, Without(snaps[s], p), todo[t]) /\ s \in SnapshotId
          /\ todo[t] \subseteq Path
      BY <2>2, <2>3, <3>1 DEF Counted, Loop
    <3>3. Fitting(snaps, arg[t], copy.total + size, Made(snaps[s]), todo[t] \ {p})
      <4> HIDE DEF p
      <4> QED BY <1>0, <3>1, <3>2, Counting
    <3> HIDE DEF p, size
    <3> QED BY <1>0, <2>1, <3>1, <3>3, QuotaIs DEF Loop
  <2>7. ASSUME CopyEnds(t) PROVE QuotaInv'
    <3>1. pc[t] = "copy" /\ pc'[t] = "return" /\ snaps' = snaps /\ copy' = NoCopy
      BY <2>7 DEF CopyEnds, Goto, dirs
    <3>2. Fitting(snaps, arg[t], copy.total, Made(snaps[s]), todo[t]) /\ s \in SnapshotId
      BY <2>2, <2>3, <3>1 DEF Counted, Loop
    <3>3. UsedIn(snaps) <= MaxStorage
      <4>1. UsedIn(snaps) = Bytes(snaps[s]) + RestIn(snaps, s) /\ Bytes(snaps[s]) \in Nat /\ RestIn(snaps, s) \in Nat
        BY <1>0, <3>2, UsedSplit
      <4>2. Bytes(Made(snaps[s])) = Bytes(snaps[s])
        BY BytesNone DEF Made
      <4>3. /\ arg[t].used \in Nat /\ copy.total \in Nat /\ RestIn(snaps, s) <= arg[t].used
            /\ arg[t].used + copy.total <= MaxStorage /\ Bytes(Made(snaps[s])) <= copy.total
        BY <3>2 DEF Fitting
      <4> QED BY <4>1, <4>2, <4>3, MaxNumbers
    <3> QED BY <1>0, <2>1, <3>1, <3>3, QuotaIs DEF Loop
  <2>8. ASSUME CopyRaises(t) PROVE QuotaInv'
    <3>1. pc'[t] = "discard" /\ snaps' = snaps /\ copy' = NoCopy
      BY <2>8 DEF CopyRaises, Goto, dirs
    <3> QED BY <2>1, <3>1, QuotaKept DEF Loop
  <2>9. ASSUME CopyFails(t) PROVE QuotaInv'
    <3> DEFINE p == copy.file
    <3>1. pc'[t] = "discard" /\ copy' = NoCopy
      BY <2>9 DEF CopyFails, Goto
    <3>2. CASE snaps' = snaps
      BY <2>1, <3>1, <3>2, QuotaKept DEF Loop
    <3>3. CASE snaps' # snaps
      <4>1. PICK size \in Size \cup {0} : snaps' = [snaps EXCEPT ![s] = [Made(snaps[s]) EXCEPT ![p] = size]]
        BY <2>9, <3>3 DEF CopyFails
      <4>2. size \in Content \ {None} /\ pc[t] = "copying"
        BY <2>9, <3>3, Distinct DEF CopyFails, Content
      <4>3. Fitting(snaps, arg[t], copy.total, Made(snaps[s]), todo[t]) /\ s \in SnapshotId
            /\ todo[t] \subseteq Path /\ p \in todo[t]
        BY <2>2, <2>3, <4>2 DEF Counted, Loop
      <4>4. Bounded(snaps')
        <5> HIDE DEF p
        <5> QED BY <1>0, <4>1, <4>2, <4>3, Growing
      <4> QED BY <2>1, <3>1, <4>4, QuotaIs DEF Loop
    <3> QED BY <3>2, <3>3
  <2>10. ASSUME Discard(t) PROVE QuotaInv'
    <3>1. pc[t] = "discard" /\ pc'[t] = "raise" /\ copy' = copy /\ s \in SnapshotId
      BY <2>1, <2>10 DEF Discard, Goto, Placed
    <3>2. copy' = NoCopy
      BY <2>1, <3>1 DEF QuotaInv, Loop
    <3>3. CASE snaps' = snaps
      BY <2>1, <3>1, <3>2, <3>3, QuotaKept DEF Loop
    <3>4. CASE snaps' = [snaps EXCEPT ![s] = Gone]
      <4>1. Bounded(snaps')
        <5> HIDE DEF s
        <5> QED BY <1>0, <3>1, <3>4, Removing
      <4> QED BY <2>1, <3>1, <3>2, <4>1, QuotaIs DEF Loop
    <3> QED BY <2>10, <3>3, <3>4 DEF Discard
  <2>11. ASSUME call[t] # "snapshot" PROVE QuotaInv'
    <3>1. pc[t] \notin Loop /\ ~Discard(t) /\ ~CopyFile(t) /\ ~CopyFails(t)
      BY <2>1, <2>11 DEF Placed, Loop, Discard, CopyFile, CopyFails
    <3>2. snaps' = snaps /\ pc'[t] \notin Loop
      BY <1>9, <3>1 DEF Inner, Check, Put, CheckFile, CountFile, CopyEnds, CopyRaises, StageFile, StagePassesOver,
              StageRaises, StageEnds, Carry, MoveToTrash, Swap, RenameRaises, RecoverProject, RecoverDir,
              RecoveryRaises, RecoveryEnds, SweepTrash, dirs, threads, Goto, Loop
    <3>3. copy' = NoCopy
      <4>1. copy' = copy
        BY <1>9, <2>11, Inside
      <4> QED BY <2>1, <3>1, <4>1 DEF QuotaInv
    <3> QED BY <2>1, <2>11, <3>2, <3>3, QuotaKept
  <2>12. ASSUME call[t] = "snapshot", ~(\E p \in Path : CheckFile(t, p)), ~CopyFile(t), ~CountFile(t), ~CopyEnds(t),
                ~CopyRaises(t), ~CopyFails(t), ~Discard(t)
         PROVE  FALSE
    BY <1>9, <2>1, <2>12 DEF Inner, Placed, Check, Put, StageFile, StagePassesOver, StageRaises, StageEnds, Carry,
              MoveToTrash, Swap, RenameRaises, RecoverProject, RecoverDir, RecoveryRaises, RecoveryEnds, SweepTrash
  <2> QED BY <2>4, <2>5, <2>6, <2>7, <2>8, <2>9, <2>10, <2>11, <2>12, Zenon
<1> QED BY <1>1, <1>2, <1>3, <1>4, <1>5, <1>6, <1>7, <1>8, <1>9, StepIs, Steps DEF Calls

-----------------------------------------------------------------------------
(* The theorems.                                                           *)

LEMMA Begins == Init => IInv
<1> SUFFICES ASSUME Init PROVE IInv
  OBVIOUS
<1>1. Empty \in Tree /\ Empty \in Dir /\ Empty # Gone
  <2>1. Empty \in Tree
    BY DEF Empty, Tree, Content
  <2> QED BY <2>1, Distinct DEF Tree, Dir
<1>2. TypeInv
  <2>1. MaxFaults \in Nat /\ MaxDeaths \in Nat
    BY WorkspaceFilesAssumption, Zenon DEF WorkspaceFilesAssumption
  <2>2. DirTypes
    BY <1>1 DEF Init, DirTypes, Dir
  <2>3. raced \in BOOLEAN
    BY Zenon DEF Init
  <2>4. /\ call = [t \in Thread |-> None] /\ pc = [t \in Thread |-> "idle"] /\ todo = [t \in Thread |-> {}]
        /\ arg = [t \in Thread |-> None] /\ owner = None /\ faults = 0 /\ deaths = 0
        /\ copy \in [file : Path \cup {None}, total : Nat]
    BY DEF Init, NoCopy
  <2>5. ThreadTypes
    BY <2>1, <2>3, <2>4 DEF ThreadTypes, Label
  <2> QED BY <2>2, <2>5 DEF TypeInv
<1>3. LockInv /\ OperationInv /\ WreckInv
  BY <1>1 DEF Init, LockInv, OperationInv, WreckInv
<1>4. QuotaInv
  <2>1. IdsIn(snaps) = {}
    BY DEF Init, IdsIn
  <2>2. \A s \in SnapshotId : Taken(snaps)[s] = 0
    BY BytesNone DEF Init, Taken
  <2>3. UsedIn(snaps) = 0
    BY <2>2, FilesFinite, SumZero DEF UsedIn
  <2> QED BY <2>1, <2>3, FS_EmptySet, MaxNumbers DEF Init, Bounded, QuotaInv
<1> QED BY <1>2, <1>3, <1>4 DEF IInv

\* IInv is an inductive invariant.
THEOREM Inductive == Spec => []IInv
<1>1. IInv /\ [Next]_vars => IInv'
  <2> SUFFICES ASSUME TypeInv, LockInv, OperationInv, WreckInv, QuotaInv, [Next]_vars PROVE IInv'
    BY DEF IInv
  <2>1. TypeInv'
    BY DirStep, ThreadStep DEF TypeInv
  <2> QED BY <2>1, LockStep, OperationStep, WreckStep, QuotaStep DEF IInv
<1> QED BY Begins, <1>1, PTL DEF Spec

\* Every variable has the type the model gives it, and a thread is in an
\* operation only with the lock.
THEOREM TypeCorrect == Spec => []TypeOK
<1>1. IInv => TypeOK
  BY DEF IInv, TypeInv, DirTypes, ThreadTypes, TypeOK
<1> QED BY <1>1, Inductive, PTL

\* restore() does all of it or nothing: whatever fails, and whatever the tools
\* that take the lock are asked meanwhile.
THEOREM RestoreAtomic == Spec => []RestoreIsAtomic
<1>1. IInv => RestoreIsAtomic
  <2> SUFFICES ASSUME IInv, NEW t \in Thread, call[t] = "restore", pc[t] \in {"raise", "return"}, ~raced
               PROVE  /\ pc[t] = "raise" /\ faults <= 1 => project = start
                      /\ pc[t] = "return" => Replaced(t)
    BY DEF RestoreIsAtomic, RaisedChangesNothing, ReturnedIsExact, Replaced
  <2>1. RestoreInv(t) /\ faults \in Nat
    BY Holder DEF IInv, OperationInv, TypeInv, ThreadTypes
  <2> QED BY <2>1 DEF RestoreInv
<1> QED BY <1>1, Inductive, PTL

\* create() returns a copy of the files at one moment.
THEOREM SnapshotAtOneMoment == Spec => []SnapshotIsOneMoment
<1>1. IInv => SnapshotIsOneMoment
  <2> SUFFICES ASSUME IInv, NEW t \in Thread, call[t] = "snapshot", pc[t] = "return", ~raced
               PROVE  snaps[arg[t].id] = [p \in Path |-> IF p \in Source THEN start[p] ELSE None]
    BY DEF SnapshotIsOneMoment
  <2>1. CopyInv(t)
    BY Holder DEF IInv, OperationInv
  <2> QED BY <2>1 DEF CopyInv
<1> QED BY <1>1, Inductive, PTL

\* Wherever a restore fails or the process dies, what the project was is on the
\* disk.
THEOREM NothingLost == Spec => []NothingIsLost
<1>1. IInv => NothingIsLost
  <2> DEFINE here == {project, staging, trash} \ {Gone}
  <2> SUFFICES ASSUME IInv, ~raced, (\E t \in Thread : call[t] = "restore" /\ pc[t] # "return") \/ project = Gone
               PROVE  Saved(wreck \cup here)
    BY DEF NothingIsLost, Saved, Ours
  <2>1. Saved(here) => Saved(wreck \cup here)
    BY DEF Saved
  <2>2. ASSUME NEW t \in Thread, call[t] = "restore", pc[t] # "return" PROVE Saved(here)
    <3>1. pc[t] # "idle"
      BY <2>2, Distinct DEF IInv, TypeInv, ThreadTypes
    <3>2. RestoreInv(t)
      BY <3>1, Holder DEF IInv, OperationInv
    <3> QED BY <2>2, <3>2, StillThere DEF IInv
  <2>3. CASE project = Gone
    <3>1. CASE owner = None
      BY <2>3, <3>1 DEF IInv, WreckInv, Saved
    <3>2. CASE owner # None
      <4>1. owner \in Thread /\ DirsInv(owner)
        BY <3>2 DEF IInv, LockInv, TypeInv, ThreadTypes
      <4>2. call[owner] = "restore" /\ pc[owner] # "return"
        BY <2>3, <4>1 DEF DirsInv
      <4> QED BY <2>1, <2>2, <4>1, <4>2
    <3> QED BY <3>1, <3>2
  <2> QED BY <2>1, <2>2, <2>3
<1> QED BY <1>1, Inductive, PTL

\* The limits of the store and of the project are kept, whatever fails and
\* whoever writes at the same time.
THEOREM QuotasKept == Spec => []QuotasHold
<1>1. IInv => SnapshotQuota
  <2> SUFFICES ASSUME IInv PROVE SnapshotQuota
    OBVIOUS
  <2>1. ASSUME NEW t \in Thread, call[t] = "snapshot", pc[t] = "return" PROVE StorageUsed <= MaxStorage
    <3>1. owner = t /\ owner # None
      BY <2>1, Holder DEF IInv
    <3> QED BY <2>1, <3>1, UsedIs DEF IInv, QuotaInv, CopyQuota
  <2> QED BY <2>1, UsedIs DEF IInv, QuotaInv, Bounded, SnapshotQuota
<1>2. IInv => ProjectQuota
  <2> SUFFICES ASSUME IInv, NEW t \in Thread, call[t] \in {"write", "create"}, pc[t] = "return", ~raced
               PROVE  /\ Bytes(project) <= MaxProjectSize
                      /\ Files(project) # Files(start) => Cardinality(Files(project)) <= MaxFiles
    BY DEF ProjectQuota
  <2>1. WriteInv(t)
    BY Holder DEF IInv, OperationInv
  <2> QED BY <2>1 DEF WriteInv
<1> QED BY <1>1, <1>2, Inductive, PTL DEF QuotasHold

=============================================================================
