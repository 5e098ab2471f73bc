---------------------------- MODULE Archive_proofs ----------------------------
(***************************************************************************)
(* Proofs about Archive, for archives of any length and content and any    *)
(* limits: the loop stays within the limits without an overflow, and it    *)
(* returns the documentation of the whole archive or an error.             *)
(***************************************************************************)
EXTENDS Archive, FiniteSetTheorems, WellFoundedInduction, TLAPS

-----------------------------------------------------------------------------
(* Sums.  The library's induction theorems have an operator parameter; the *)
(* same induction, over a set, is first-order.                             *)

\* A set of natural numbers has a least element.
LEMMA NatMin ==
  ASSUME NEW T \in SUBSET Nat, T # {}
  PROVE  \E n \in T : \A m \in T : n <= m
<1>1. \E n \in T : \A m \in T : ~(<<m, n>> \in OpToRel(<, Nat))
  BY WFMin, NatLessThanWellFounded
<1>2. ASSUME NEW m \in Nat, NEW n \in Nat, m < n PROVE <<m, n>> \in OpToRel(<, Nat)
  BY <1>2 DEF OpToRel
<1>3. PICK n \in T : \A m \in T : ~(m < n)
  BY <1>1, <1>2, Zenon
<1>. QED  BY <1>3

\* Induction, for a set of natural numbers.
LEMMA UpTo ==
  ASSUME NEW n \in Nat, NEW S, 0 \in S, \A k \in 1..n : k - 1 \in S => k \in S
  PROVE  0..n \subseteq S
<1> DEFINE T == (0..n) \ S
<1>1. ASSUME T # {} PROVE FALSE
  <2>1. PICK k \in T : \A m \in T : k <= m
    <3>1. T \in SUBSET Nat
      OBVIOUS
    <3> HIDE DEF T
    <3>. QED  BY <1>1, <3>1, NatMin
  <2>2. k \in 1..n /\ k - 1 \in S
    BY <2>1
  <2>. QED  BY <2>1, <2>2
<1>. QED  BY <1>1

\* Sums is what its recursive definition says.
LEMMA SumsDef ==
  ASSUME NEW n \in Nat, NEW w \in [1..n -> Int]
  PROVE  /\ Sums(w) \in [0..n -> Int]
         /\ Sums(w)[0] = 0
         /\ \A k \in 1..n : Sums(w)[k] = Sums(w)[k - 1] + w[k]
<1> DEFINE IsSum(g, m) == /\ g \in [0..m -> Int] /\ g[0] = 0
                          /\ \A k \in 1..m : g[k] = g[k - 1] + w[k]
           S == {m \in 0..n : \E g : IsSum(g, m)}
<1>1. 0..n \subseteq S
  <2>1. 0 \in S
    <3>1. IsSum([k \in 0..0 |-> 0], 0)
      OBVIOUS
    <3>2. \E g : IsSum(g, 0)  BY <3>1
    <3> HIDE DEF IsSum
    <3>. QED  BY <3>2
  <2>2. ASSUME NEW k \in 1..n, k - 1 \in S PROVE k \in S
    <3>1. PICK g : IsSum(g, k - 1)
      BY <2>2
    <3> DEFINE h == [i \in 0..k |-> IF i = k THEN g[k - 1] + w[k] ELSE g[i]]
    <3>2. g[k-1] + w[k] \in Int
      BY <3>1
    <3>3. h \in [0..k -> Int] /\ h[0] = 0
      BY <3>1, <3>2
    <3>4. ASSUME NEW i \in 1..k PROVE h[i] = h[i - 1] + w[i]
      <4>1. h[i - 1] = g[i - 1] /\ h[i] = IF i = k THEN g[k - 1] + w[k] ELSE g[i]
        OBVIOUS
      <4>2. i # k => g[i] = g[i - 1] + w[i]
        BY <3>1
      <4>. QED  BY <4>1, <4>2
    <3>5. IsSum(h, k)
      BY <3>3, <3>4
    <3>6. \E i : IsSum(i, k)  BY <3>5
    <3> HIDE DEF IsSum
    <3>. QED  BY <3>6
  <2> HIDE DEF S
  <2>. QED  BY <2>1, <2>2, UpTo
<1>2. PICK g : IsSum(g, n)
  <2> HIDE DEF IsSum
  <2>. QED  BY <1>1
<1>3. Len(w) = n
  OBVIOUS
<1>4. g = [k \in 0..Len(w) |-> IF k = 0 THEN 0 ELSE g[k - 1] + w[k]]
  BY <1>2, <1>3
<1> DEFINE f == Sums(w)
<1>5. f = [k \in 0..n |-> IF k = 0 THEN 0 ELSE f[k - 1] + w[k]]
  <2>1. f = CHOOSE h : h = [k \in 0..Len(w) |-> IF k = 0 THEN 0 ELSE h[k - 1] + w[k]]
    BY DEF Sums
  <2> HIDE DEF f
  <2>. QED  BY <1>3, <1>4, <2>1
<1> HIDE DEF f
<1>6. f[0] = 0 /\ \A k \in 1..n : f[k] = f[k - 1] + w[k]
  BY <1>5
<1>7. 0..n \subseteq {k \in 0..n : f[k] \in Int}
  <2> DEFINE R == {k \in 0..n : f[k] \in Int}
  <2>1. 0 \in R /\ \A k \in 1..n : k - 1 \in R => k \in R
    BY <1>6
  <2> HIDE DEF R
  <2>2. 0..n \subseteq R
    BY <2>1, UpTo
  <2>. QED  BY <2>2 DEF R
<1>. QED  BY <1>5, <1>6, <1>7 DEF f

\* What induction needs to know of the sums of w.
IsSummed(w, n) ==
  /\ Sums(w)[0] = 0
  /\ \A k \in 1..n : /\ Sums(w)[k - 1] \in Nat /\ Sums(w)[k] \in Nat
                     /\ Sums(w)[k] = Sums(w)[k - 1] + w[k]

LEMMA SumsType ==
  ASSUME NEW n \in Nat, NEW w \in [1..n -> Nat]
  PROVE  IsSummed(w, n) /\ Sums(w)[n] \in Nat
<1> DEFINE S == {k \in 0..n : Sums(w)[k] \in Nat}
<1>1. w \in [1..n -> Int]
  OBVIOUS
<1>2. Sums(w)[0] = 0 /\ \A k \in 1..n : Sums(w)[k] = Sums(w)[k - 1] + w[k]
  BY <1>1, SumsDef
<1>3. 0 \in S /\ \A k \in 1..n : k - 1 \in S => k \in S
  BY <1>2
<1> HIDE DEF S
<1>4. 0..n \subseteq S
  BY <1>3, UpTo
<1>5. \A k \in 0..n : Sums(w)[k] \in Nat
  BY <1>4 DEF S
<1>6. \A k \in 1..n : k - 1 \in 0..n /\ k \in 0..n
  OBVIOUS
<1>. QED  BY <1>2, <1>5, <1>6 DEF IsSummed

LEMMA SumsZero ==
  ASSUME NEW n \in Nat, NEW w \in [1..n -> Nat], \A i \in 1..n : w[i] = 0
  PROVE  Sums(w)[n] = 0
<1> DEFINE S == {k \in 0..n : Sums(w)[k] = 0}
<1>1. IsSummed(w, n)
  BY SumsType
<1>2. 0 \in S /\ \A k \in 1..n : k - 1 \in S => k \in S
  BY <1>1 DEF IsSummed
<1> HIDE DEF S
<1>3. 0..n \subseteq S
  BY <1>2, UpTo
<1>. QED  BY <1>3 DEF S

LEMMA SumsMonotonic ==
  ASSUME NEW n \in Nat, NEW v \in [1..n -> Nat], NEW w \in [1..n -> Nat],
         \A i \in 1..n : v[i] <= w[i]
  PROVE  Sums(v)[n] <= Sums(w)[n]
<1> DEFINE S == {k \in 0..n : Sums(v)[k] <= Sums(w)[k]}
<1>1. IsSummed(v, n)
  BY SumsType
<1>2. IsSummed(w, n)
  BY SumsType
<1>3. 0 \in S
  BY <1>1, <1>2 DEF IsSummed
<1>4. ASSUME NEW k \in 1..n, k - 1 \in S PROVE k \in S
  BY <1>1, <1>2, <1>4 DEF IsSummed
<1> HIDE DEF S
<1>5. 0..n \subseteq S
  BY <1>3, <1>4, UpTo
<1>. QED  BY <1>5 DEF S

\* Functions that differ at j only, where one is 0, have sums that differ by
\* what the other has there.
LEMMA SumsAdd ==
  ASSUME NEW n \in Nat, NEW v \in [1..n -> Nat], NEW w \in [1..n -> Nat], NEW j \in 1..n,
         v[j] = 0, \A i \in 1..n : i # j => v[i] = w[i]
  PROVE  Sums(w)[n] = Sums(v)[n] + w[j]
<1> DEFINE S == {k \in 0..n : Sums(w)[k] = Sums(v)[k] + (IF k < j THEN 0 ELSE w[j])}
<1>1. IsSummed(v, n)
  BY SumsType
<1>2. IsSummed(w, n)
  BY SumsType
<1>3. 0 \in S
  BY <1>1, <1>2 DEF IsSummed
<1>4. ASSUME NEW k \in 1..n, k - 1 \in S PROVE k \in S
  <2>1. /\ Sums(v)[k] = Sums(v)[k - 1] + v[k] /\ Sums(w)[k] = Sums(w)[k - 1] + w[k]
        /\ Sums(v)[k - 1] \in Nat /\ Sums(w)[k - 1] \in Nat
        /\ Sums(w)[k - 1] = Sums(v)[k - 1] + (IF k - 1 < j THEN 0 ELSE w[j])
    BY <1>1, <1>2, <1>4 DEF IsSummed
  <2>2. CASE k = j
    <3>1. k - 1 < j /\ ~(k < j) /\ v[k] = 0 /\ w[k] \in Nat
      BY <2>2
    <3>. QED  BY <2>1, <2>2, <3>1
  <2>3. CASE k # j
    <3>1. (k - 1 < j <=> k < j) /\ v[k] = w[k] /\ w[k] \in Nat /\ w[j] \in Nat
      BY <2>3
    <3>. QED  BY <2>1, <3>1
  <2>. QED  BY <2>2, <2>3
<1> HIDE DEF S
<1>5. 0..n \subseteq S
  BY <1>3, <1>4, UpTo
<1>. QED  BY <1>5 DEF S

-----------------------------------------------------------------------------
(* The sizes of the documentation read so far.                             *)

Docs == DocsUpTo(Len(archive))

LEMMA WeightsType ==
  ASSUME TypeOK, NEW S \in SUBSET Docs
  PROVE  Len(archive) \in Nat /\ Weights(S) \in [1..Len(archive) -> Nat]
<1>1. \A i \in 1..Len(archive) : archive[i] \in Entries
  BY DEF TypeOK
<1>2. \A i \in Docs : archive[i].size \in Nat
  BY <1>1, ArchiveAssumption DEF Docs, DocsUpTo, Entries
<1>. QED  BY <1>2 DEF Weights, TypeOK

LEMMA SizesEmpty ==
  ASSUME TypeOK
  PROVE  Sizes({}) = 0
<1>1. /\ Len(archive) \in Nat /\ Weights({}) \in [1..Len(archive) -> Nat]
      /\ \A i \in 1..Len(archive) : Weights({})[i] = 0
  BY WeightsType DEF Weights
<1>. QED  BY <1>1, SumsZero DEF Sizes

LEMMA SizesMonotonic ==
  ASSUME TypeOK, NEW T \in SUBSET Docs, NEW S \in SUBSET T
  PROVE  Sizes(S) \in Nat /\ Sizes(T) \in Nat /\ Sizes(S) <= Sizes(T)
<1>1. /\ Len(archive) \in Nat
      /\ Weights(S) \in [1..Len(archive) -> Nat] /\ Weights(T) \in [1..Len(archive) -> Nat]
  BY WeightsType
<1>2. \A i \in 1..Len(archive) : Weights(S)[i] <= Weights(T)[i]
  BY <1>1 DEF Weights
<1>3. Sizes(S) \in Nat
  BY <1>1, SumsType DEF Sizes
<1>4. Sizes(T) \in Nat
  BY <1>1, SumsType DEF Sizes
<1>5. Sizes(S) <= Sizes(T)
  BY <1>1, <1>2, SumsMonotonic DEF Sizes
<1>. QED  BY <1>3, <1>4, <1>5

LEMMA SizesAdd ==
  ASSUME TypeOK, NEW S \in SUBSET Docs, NEW i \in Docs \ S
  PROVE  Sizes(S \cup {i}) = Sizes(S) + archive[i].size
<1>1. /\ Len(archive) \in Nat /\ Weights(S) \in [1..Len(archive) -> Nat]
      /\ Weights(S \cup {i}) \in [1..Len(archive) -> Nat]
  BY WeightsType
<1>2. /\ i \in 1..Len(archive)
      /\ Weights(S)[i] = 0 /\ Weights(S \cup {i})[i] = archive[i].size
      /\ \A j \in 1..Len(archive) : j # i => Weights(S)[j] = Weights(S \cup {i})[j]
  BY DEF Weights, Docs, DocsUpTo
<1> DEFINE n == Len(archive)  v == Weights(S)  w == Weights(S \cup {i})
<1>3. Sums(w)[n] = Sums(v)[n] + w[i]
  <2>1. n \in Nat /\ v \in [1..n -> Nat] /\ w \in [1..n -> Nat] /\ i \in 1..n
        /\ v[i] = 0 /\ \A j \in 1..n : j # i => v[j] = w[j]
    BY <1>1, <1>2
  <2> HIDE DEF n, v, w
  <2>. QED  BY <2>1, SumsAdd
<1>. QED  BY <1>2, <1>3 DEF Sizes

-----------------------------------------------------------------------------
(* The limits.                                                             *)


\* The subtraction in TooLarge and the addition in Extract never overflow.
LEMMA NoOverflow ==
  ASSUME NEW n \in -MaxInt64..MaxInt64
  PROVE  Int64(n) = n
  BY ArchiveAssumption DEF Int64

LEMMA EntryType ==
  ASSUME TypeOK, Turn
  PROVE  /\ Entry \in Entries /\ Entry.name \in Names
         /\ Entry.size \in -MaxInt64..MaxInt64
         /\ pos \in 1..Len(archive)
<1>1. pos \in 1..Len(archive)
  BY DEF TypeOK, Turn
<1>2. Entry \in Entries
  BY <1>1 DEF TypeOK, Entry
<1>. QED  BY <1>1, <1>2 DEF Entries

\* An entry that is not skipped and not too large fits into what is left.
LEMMA Fits ==
  ASSUME IInv, Turn, ~Skipped(Entry), ~TooLarge(Entry)
  PROVE  /\ Int64(totalExtracted + Entry.size) = totalExtracted + Entry.size
         /\ totalExtracted + Entry.size \in 0..MaxDecompressedSize
<1>1. /\ Entry.size \in 0..MaxInt64
      /\ totalExtracted \in 0..MaxDecompressedSize
  BY EntryType, ArchiveAssumption DEF IInv, LimitsKept, TypeOK, Skipped
<1>2. Int64(MaxDecompressedSize - totalExtracted) = MaxDecompressedSize - totalExtracted
  BY <1>1, NoOverflow, ArchiveAssumption
<1>3. totalExtracted + Entry.size \in 0..MaxDecompressedSize
  BY <1>1, <1>2, ArchiveAssumption DEF TooLarge
<1>. QED  BY <1>3, NoOverflow, ArchiveAssumption

\* One that is too large does not.
LEMMA DoesNotFit ==
  ASSUME IInv, Turn, ~Skipped(Entry), TooLarge(Entry)
  PROVE  totalExtracted + Entry.size > MaxDecompressedSize
<1>1. /\ Entry.size \in 0..MaxInt64
      /\ totalExtracted \in 0..MaxDecompressedSize
  BY EntryType, ArchiveAssumption DEF IInv, LimitsKept, TypeOK, Skipped
<1>2. Int64(MaxDecompressedSize - totalExtracted) = MaxDecompressedSize - totalExtracted
  BY <1>1, NoOverflow, ArchiveAssumption
<1>. QED  BY <1>1, <1>2, ArchiveAssumption DEF TooLarge

\* The documentation up to a position is part of all of it.
LEMMA DocsUpToIn ==
  ASSUME TypeOK, NEW k \in 0..Len(archive)
  PROVE  DocsUpTo(k) \in SUBSET Docs
  BY DEF TypeOK, Docs, DocsUpTo

\* The entry at hand, if it is not skipped, is the next piece of it.
LEMMA NextDoc ==
  ASSUME TypeOK, pos <= Len(archive), ~Skipped(Entry)
  PROVE  /\ pos \in Docs \ DocsUpTo(pos - 1)
         /\ DocsUpTo(pos) = DocsUpTo(pos - 1) \cup {pos}
         /\ DocsUpTo(pos - 1) \in SUBSET Docs /\ DocsUpTo(pos) \in SUBSET Docs
         /\ Sizes(DocsUpTo(pos)) = Sizes(DocsUpTo(pos - 1)) + Entry.size
<1>1. pos \in 1..Len(archive) /\ Len(archive) \in Nat
  BY DEF TypeOK
<1>2. archive[pos].fails = {} /\ archive[pos].size >= 0
  <2>1. archive[pos].size \in Int
    <3>1. archive[pos] \in Entries
      BY <1>1 DEF TypeOK
    <3>. QED  BY <3>1, ArchiveAssumption DEF Entries
  <2>. QED  BY <2>1 DEF Skipped, Entry
<1>3. pos \in Docs \ DocsUpTo(pos - 1) /\ DocsUpTo(pos) = DocsUpTo(pos - 1) \cup {pos}
  BY <1>1, <1>2 DEF Docs, DocsUpTo
<1>4. DocsUpTo(pos - 1) \in SUBSET Docs /\ DocsUpTo(pos) \in SUBSET Docs
  BY <1>1, DocsUpToIn
<1>. QED  BY <1>3, <1>4, SizesAdd DEF Entry

LEMMA InitIInv == Init => IInv
<1> SUFFICES ASSUME Init PROVE IInv
  OBVIOUS
<1>1. DOMAIN memFS = {} /\ Cardinality(DOMAIN memFS) = 0 /\ IsFiniteSet(DOMAIN memFS)
  BY FS_EmptySet DEF Init
<1>2. archive \in Seq(Entries) /\ Len(archive) \in Nat
  BY ArchiveAssumption DEF Init
<1>3. TypeOK
  BY <1>1, <1>2 DEF Init, TypeOK
<1>4. LimitsKept
  BY <1>1, ArchiveAssumption DEF Init, LimitsKept
<1>5. HoldsDocs(pos - 1)
  BY <1>1 DEF Init, HoldsDocs, DocsUpTo
<1>6. totalExtracted = Sizes(DocsUpTo(pos - 1))
  <2>1. DocsUpTo(pos - 1) = {}
    BY DEF Init, DocsUpTo
  <2>. QED  BY <1>3, <2>1, SizesEmpty DEF Init
<1>. QED  BY <1>3, <1>4, <1>5, <1>6 DEF Init, IInv, CauseOK

-----------------------------------------------------------------------------
(* The two steps that go on to the next entry.                             *)

LEMMA SkipKeepsIInv ==
  ASSUME IInv, Skip
  PROVE  IInv'
<1>1. pos \in 1..Len(archive) /\ Len(archive) \in Nat /\ pos' = pos + 1
  BY EntryType DEF IInv, Skip, TypeOK
<1>2. DocsUpTo(pos) = DocsUpTo(pos - 1)
  BY <1>1, EntryType DEF Skip, Skipped, Entry, DocsUpTo, IInv
<1>3. HoldsDocs(pos)
  BY <1>2 DEF IInv, HoldsDocs, IsLastDoc
<1>4. (pos - 1)' = pos
  BY <1>1
<1>5. HoldsDocs(pos - 1)'
  BY <1>3, <1>4 DEF Skip, HoldsDocs, IsLastDoc, DocsUpTo
<1>6. TypeOK' /\ LimitsKept'
  BY <1>1 DEF IInv, TypeOK, LimitsKept, Skip
<1>7. (totalExtracted = Sizes(DocsUpTo(pos - 1)))'
  BY <1>2, <1>4 DEF IInv, Skip, Sizes, Weights, DocsUpTo
<1>. QED  BY <1>5, <1>6, <1>7 DEF IInv, Skip, Turn, CauseOK

LEMMA ExtractKeepsIInv ==
  ASSUME IInv, Extract
  PROVE  IInv'
<1>1. /\ pos \in 1..Len(archive) /\ Len(archive) \in Nat /\ pos' = pos + 1
      /\ Entry.name \in Names
  BY EntryType DEF IInv, Extract, TypeOK
<1>2. /\ DOMAIN memFS' = DOMAIN memFS \cup {Entry.name}
      /\ memFS'[Entry.name] = pos
      /\ \A n \in DOMAIN memFS : n # Entry.name => memFS'[n] = memFS[n]
  BY DEF Extract
<1>3. TypeOK'
  <2>1. totalExtracted' \in Nat
    BY Fits, ArchiveAssumption DEF Extract
  <2>2. \A n \in DOMAIN memFS' : memFS'[n] \in 1..Len(archive)
    BY <1>1, <1>2 DEF IInv, TypeOK
  <2>. QED  BY <1>1, <1>2, <2>1, <2>2 DEF IInv, TypeOK, Extract
<1>4. LimitsKept'
  <2>1. totalExtracted' <= MaxDecompressedSize
    BY Fits, ArchiveAssumption DEF Extract
  <2>2. /\ IsFiniteSet(DOMAIN memFS')
        /\ Cardinality(DOMAIN memFS') <= Cardinality(DOMAIN memFS) + 1
    <3>1. IsFiniteSet(DOMAIN memFS) /\ Cardinality(DOMAIN memFS) \in Nat
      BY FS_CardinalityType DEF IInv, LimitsKept
    <3> DEFINE S == DOMAIN memFS
    <3>2. /\ IsFiniteSet(S \cup {Entry.name})
          /\ Cardinality(S \cup {Entry.name}) <= Cardinality(S) + 1
      <4> HIDE DEF S
      <4>1. IsFiniteSet(S) /\ Cardinality(S) \in Nat
        BY <3>1 DEF S
      <4>. QED  BY <4>1, FS_AddElement
    <3>. QED  BY <1>2, <3>2
  <2>3. Cardinality(DOMAIN memFS) + 1 <= MaxFileCount
    BY FS_CardinalityType, ArchiveAssumption DEF Extract, TooMany, IInv, LimitsKept
  <2>4. Cardinality(DOMAIN memFS) \in Nat /\ Cardinality(DOMAIN memFS') \in Nat
    BY <2>2, FS_CardinalityType DEF IInv, LimitsKept
  <2>. QED  BY <2>1, <2>2, <2>3, <2>4, ArchiveAssumption DEF LimitsKept
<1>5. /\ DocsUpTo(pos) = DocsUpTo(pos - 1) \cup {pos}
      /\ Sizes(DocsUpTo(pos)) = Sizes(DocsUpTo(pos - 1)) + Entry.size
  BY NextDoc DEF Extract, Turn, IInv
<1>6. ASSUME NEW n \in DOMAIN memFS'
      PROVE  archive[memFS'[n]].name = n /\ IsLastDoc(memFS'[n], pos)
  <2>1. CASE n = Entry.name
    BY <1>1, <1>2, <1>5, <2>1 DEF IsLastDoc, DocsUpTo, Entry
  <2>2. CASE n # Entry.name
    <3>1. /\ n \in DOMAIN memFS /\ memFS'[n] = memFS[n]
          /\ archive[memFS[n]].name = n /\ IsLastDoc(memFS[n], pos - 1)
      BY <1>2, <2>2 DEF IInv, HoldsDocs
    <3>2. \A j \in DocsUpTo(pos) : archive[j].name = n => j \in DocsUpTo(pos - 1)
      BY <1>5, <2>2 DEF Entry
    <3>. QED  BY <3>1, <3>2, <1>5 DEF IsLastDoc
  <2>. QED  BY <2>1, <2>2
<1>7. \A i \in DocsUpTo(pos) : archive[i].name \in DOMAIN memFS'
  BY <1>2, <1>5 DEF IInv, HoldsDocs, Entry
<1>8. HoldsDocs(pos - 1)'
  <2>1. (pos - 1)' = pos /\ archive' = archive
    BY <1>1 DEF Extract
  <2>. QED  BY <2>1, <1>6, <1>7 DEF HoldsDocs, IsLastDoc, DocsUpTo
<1>9. (totalExtracted = Sizes(DocsUpTo(pos - 1)))'
  <2>1. totalExtracted' = Sizes(DocsUpTo(pos))
    BY <1>5, Fits DEF IInv, Extract
  <2>2. (pos - 1)' = pos /\ archive' = archive
    BY <1>1 DEF Extract
  <2>. QED  BY <2>1, <2>2 DEF Sizes, Weights, DocsUpTo
<1>. QED  BY <1>3, <1>4, <1>8, <1>9 DEF IInv, Extract, Turn, CauseOK

LEMMA EndKeepsIInv ==
  ASSUME IInv,
         RejectSize \/ RejectCount \/ Unreadable \/ EndOfArchive \/ UNCHANGED vars
  PROVE  IInv'
<1>1. UNCHANGED <<archive, pos, memFS, totalExtracted>>
  BY DEF RejectSize, RejectCount, Unreadable, EndOfArchive, Fail, vars
<1>2. LimitsKept' /\ HoldsDocs(pos - 1)'
  BY <1>1 DEF IInv, LimitsKept, HoldsDocs, IsLastDoc, DocsUpTo
<1>3. /\ result' \in {"running", "extracted"} \cup Errors
      /\ result' = "extracted" => pos = Len(archive) + 1 /\ DOMAIN memFS # {}
  BY DEF RejectSize, RejectCount, Unreadable, EndOfArchive, Fail, vars, IInv,
         TypeOK, Errors
<1>4. (totalExtracted = Sizes(DocsUpTo(pos - 1)))'
  BY <1>1 DEF IInv, Sizes, Weights, DocsUpTo
<1>5. CauseOK'
  <2>1. CASE RejectSize
    BY <2>1, DoesNotFit DEF RejectSize, Fail, Turn, CauseOK, Entry, Skipped
  <2>2. CASE RejectCount
    BY <2>2 DEF RejectCount, Fail, Turn, CauseOK, Entry, Skipped, TooMany
  <2>3. CASE Unreadable
    BY <2>3 DEF Unreadable, Fail, CauseOK
  <2>4. CASE EndOfArchive
    BY <2>4 DEF EndOfArchive, CauseOK
  <2>5. CASE UNCHANGED vars
    BY <2>5 DEF vars, IInv, CauseOK, Entry, Skipped, TooMany
  <2>. QED  BY <2>1, <2>2, <2>3, <2>4, <2>5
<1>. QED  BY <1>1, <1>2, <1>3, <1>4, <1>5 DEF IInv, TypeOK

-----------------------------------------------------------------------------

\* The inductive invariant holds for every archive and all limits.
THEOREM Invariance == Spec => []IInv
<1>1. IInv /\ [Next]_vars => IInv'
  BY SkipKeepsIInv, ExtractKeepsIInv, EndKeepsIInv DEF Next, Terminated
<1>. QED  BY InitIInv, <1>1, PTL DEF Spec

\* Neither limit is ever exceeded, not even for a moment, and no header can
\* make the comparison overflow (docs_updater.go:309-316).
THEOREM LimitsNeverExceeded == Spec => []LimitsKept
<1>1. IInv => LimitsKept
  BY DEF IInv
<1>. QED  BY Invariance, <1>1, PTL

\* extractDocsFromArchive returns the documentation of the whole archive,
\* each file with its last content, or an error (docs_updater.go:326-329).
THEOREM AllOrNothing == Spec => []WholeOrError
<1>1. ASSUME IInv PROVE WholeOrError
  <2>1. Len(archive) \in Nat
    BY <1>1 DEF IInv, TypeOK
  <2>2. result = "extracted" => pos - 1 = Len(archive)
    BY <1>1, <2>1 DEF IInv
  <2>. QED  BY <1>1, <2>2 DEF IInv, WholeOrError
<1>. QED  BY Invariance, <1>1, PTL

-----------------------------------------------------------------------------
(* The contents held, and the causes of a refusal.                         *)

\* The files held are from different positions, all of documentation that
\* was read.
LEMMA HeldDocs ==
  ASSUME IInv
  PROVE  /\ Range(memFS) \in SUBSET DocsUpTo(pos - 1)
         /\ DocsUpTo(pos - 1) \in SUBSET Docs /\ Docs \in SUBSET Docs
         /\ IsFiniteSet(Docs) /\ IsFiniteSet(DocsUpTo(pos - 1))
         /\ Cardinality(DOMAIN memFS) <= Cardinality(DocsUpTo(pos - 1))
<1>1. TypeOK /\ pos - 1 \in 0..Len(archive) /\ Len(archive) \in Nat
  BY DEF IInv, TypeOK
<1>2. DocsUpTo(pos - 1) \in SUBSET Docs
  BY <1>1, DocsUpToIn
<1>3. IsFiniteSet(Docs)
  <2>1. IsFiniteSet(1..Len(archive))
    BY <1>1, FS_Interval
  <2>2. Docs \in SUBSET (1..Len(archive))
    BY DEF Docs, DocsUpTo
  <2>. QED  BY <2>1, <2>2, FS_Subset
<1>4. IsFiniteSet(DocsUpTo(pos - 1))
  BY <1>2, <1>3, FS_Subset
<1>5. \A n \in DOMAIN memFS : memFS[n] \in DocsUpTo(pos - 1) /\ archive[memFS[n]].name = n
  BY DEF IInv, HoldsDocs, IsLastDoc
<1>6. Range(memFS) \in SUBSET DocsUpTo(pos - 1)
  BY <1>5 DEF Range
<1>7. Cardinality(DOMAIN memFS) <= Cardinality(DocsUpTo(pos - 1))
  <2> DEFINE S == DOMAIN memFS  T == DocsUpTo(pos - 1)
             f == [n \in S |-> memFS[n]]
  <2>1. f \in [S -> T] /\ \A a, b \in S : f[a] = f[b] => a = b
    BY <1>5
  <2>2. f \in Injection(S, T)
    <3> HIDE DEF f, S, T
    <3>. QED  BY <2>1 DEF Injection, IsInjective
  <2>3. IsFiniteSet(T)
    BY <1>4
  <2> HIDE DEF f, S, T
  <2>4. Cardinality(S) <= Cardinality(T)
    BY <2>2, <2>3, FS_Injection
  <2>. QED  BY <2>4 DEF S, T
<1>. QED  BY <1>2, <1>3, <1>4, <1>6, <1>7

\* After every turn of the loop the contents held are within the size limit,
\* and the files within the count limit, for archives of any length.
THEOREM MemoryBounded == Spec => []WithinLimits
<1>1. ASSUME IInv PROVE WithinLimits
  <2>1. TypeOK /\ totalExtracted = Sizes(DocsUpTo(pos - 1))
    BY <1>1 DEF IInv
  <2>2. Sizes(Range(memFS)) <= Sizes(DocsUpTo(pos - 1))
    BY <1>1, <2>1, HeldDocs, SizesMonotonic
  <2>. QED  BY <1>1, <2>1, <2>2 DEF IInv, LimitsKept, WithinLimits
<1>. QED  BY Invariance, <1>1, PTL

\* An intact archive is refused only when its documentation really is beyond
\* a limit, or there is none.
THEOREM RefusalsJustified == Spec => []RefusedForCause
<1>1. ASSUME IInv PROVE RefusedForCause
  <2>1. TypeOK /\ CauseOK
    BY <1>1 DEF IInv
  <2>2. ASSUME result = "too large" PROVE Sizes(Docs) > MaxDecompressedSize
    <3>1. /\ DocsUpTo(pos) \in SUBSET Docs
          /\ Sizes(DocsUpTo(pos)) = Sizes(DocsUpTo(pos - 1)) + Entry.size
      BY <2>1, <2>2, NextDoc DEF CauseOK
    <3>2. Sizes(DocsUpTo(pos)) > MaxDecompressedSize
      BY <1>1, <2>2, <3>1 DEF IInv, CauseOK
    <3>3. Docs \in SUBSET Docs
      OBVIOUS
    <3>4. /\ Sizes(Docs) \in Nat /\ Sizes(DocsUpTo(pos)) \in Nat
          /\ Sizes(DocsUpTo(pos)) <= Sizes(Docs)
      BY <2>1, <3>1, <3>3, SizesMonotonic
    <3>. QED  BY <3>2, <3>4, ArchiveAssumption
  <2>3. ASSUME result = "too many" PROVE Cardinality(Docs) > MaxFileCount
    <3>1. /\ pos \in Docs \ DocsUpTo(pos - 1)
          /\ Cardinality(DOMAIN memFS) >= MaxFileCount
      BY <2>1, <2>3, NextDoc DEF CauseOK, TooMany
    <3> DEFINE S == DocsUpTo(pos - 1)
    <3>2. /\ S \in SUBSET Docs /\ IsFiniteSet(S) /\ IsFiniteSet(Docs)
          /\ Cardinality(DOMAIN memFS) <= Cardinality(S) /\ IsFiniteSet(DOMAIN memFS)
      BY <1>1, HeldDocs DEF IInv, LimitsKept
    <3> HIDE DEF S
    <3>3. S \cup {pos} \in SUBSET Docs /\ pos \notin S
      BY <3>1, <3>2 DEF S
    <3>4. Cardinality(S \cup {pos}) = Cardinality(S) + 1
      BY <3>2, <3>3, FS_AddElement
    <3>5. Cardinality(S \cup {pos}) <= Cardinality(Docs)
      BY <3>2, <3>3, FS_Subset
    <3>6. /\ Cardinality(S) \in Nat /\ Cardinality(Docs) \in Nat
          /\ Cardinality(DOMAIN memFS) \in Nat
      BY <3>2, FS_CardinalityType
    <3>. QED  BY <3>1, <3>2, <3>4, <3>5, <3>6, ArchiveAssumption
  <2>4. ASSUME result = "no files" PROVE Docs = {}
    <3>1. Len(archive) \in Nat
      BY <2>1 DEF TypeOK
    <3>2. pos = Len(archive) + 1 /\ DOMAIN memFS = {}
      BY <2>1, <2>4, Zenon DEF CauseOK
    <3>3. pos - 1 = Len(archive)
      BY <3>1, <3>2
    <3>. QED  BY <1>1, <3>2, <3>3 DEF IInv, HoldsDocs, Docs
  <2>. QED  BY <2>2, <2>3, <2>4 DEF RefusedForCause, Docs
<1>. QED  BY Invariance, <1>1, PTL

=============================================================================
