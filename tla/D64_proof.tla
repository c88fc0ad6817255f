----------------------------- MODULE D64_proof -----------------------------
(***************************************************************************)
(* What D64 keeps for every geometry and whatever its client does.  The    *)
(* byte that counts the free sectors of a track never drifts from the bits *)
(* (sectorSet, d64.cpp:584-605).  And links, chains, entries and nodes     *)
(* keep their shapes, also on a full disk and with a directory that runs   *)
(* through content; no file is listed twice, for which the places of       *)
(* entries that nodes remember have to be followed (EntryInv).             *)
(* Between the two stand the lemmas on chains and the directory: sequences *)
(* of sectors without repetition, and the walks that read them.            *)
(***************************************************************************)
EXTENDS D64, Walks_proof, SequenceTheorems, FiniteSetTheorems, TLAPS

\* The sectors of one track are finitely many, and fewer than a byte counts.
LEMMA TrackBound ==
    ASSUME NEW t \in Tracks, NEW S \in SUBSET Sectors
    PROVE  /\ IsFiniteSet(OnTrack(S, t))
           /\ Cardinality(OnTrack(S, t)) \in 0 .. 40
<1> DEFINE n == SectorCount[t]
           f == [s \in OnTrack(S, t) |-> s[2]]
<1>1. n \in 1 .. 40
    BY GeometryAssumption
<1>2. \A s \in OnTrack(S, t) : s = <<t, s[2]>> /\ s[2] \in 0 .. n - 1
    BY DEF OnTrack, Sectors
<1>3. f \in Injection(OnTrack(S, t), 0 .. n - 1)
  <2>1. f \in [OnTrack(S, t) -> 0 .. n - 1]
      BY <1>2
  <2>2. \A a, b \in OnTrack(S, t) : f[a] = f[b] => a = b
      BY <1>2, Zenon
  <2>3. DOMAIN f = OnTrack(S, t)
      OBVIOUS
  <2>4. IsInjective(f)
      BY <2>2, <2>3, Zenon DEF IsInjective
  <2> HIDE DEF f
  <2> QED
      BY <2>1, <2>4 DEF Injection
<1>4. IsFiniteSet(0 .. n - 1) /\ Cardinality(0 .. n - 1) = n
  <2>1. 0 \in Int /\ n - 1 \in Int /\ ~(0 > n - 1)
      BY <1>1
  <2> HIDE DEF n
  <2>2. IsFiniteSet(0 .. n - 1) /\ Cardinality(0 .. n - 1) = (n - 1) - 0 + 1
      BY <2>1, FS_Interval, Zenon
  <2> QED
      BY <1>1, <2>2
<1>5. /\ IsFiniteSet(OnTrack(S, t))
      /\ Cardinality(OnTrack(S, t)) <= n
    BY <1>3, <1>4, FS_Injection
<1>6. Cardinality(OnTrack(S, t)) \in Nat
    BY <1>5, FS_CardinalityType, Zenon
<1> QED
    BY <1>1, <1>5, <1>6

\* The two parts of a set of sectors on a track.
LEMMA TrackParts ==
    ASSUME NEW t \in Tracks, NEW R \in SUBSET Sectors, NEW S \in SUBSET Sectors
    PROVE  /\ OnTrack(R \cup S, t) = OnTrack(R, t) \cup OnTrack(S \ R, t)
           /\ Cardinality(OnTrack(R \cup S, t))
                = Cardinality(OnTrack(R, t)) + Cardinality(OnTrack(S \ R, t))
<1>1. OnTrack(R \cup S, t) = OnTrack(R, t) \cup OnTrack(S \ R, t)
    BY DEF OnTrack
<1>2. OnTrack(R, t) \cap OnTrack(S \ R, t) = {}
    BY DEF OnTrack
<1>3. /\ IsFiniteSet(OnTrack(R, t)) /\ Cardinality(OnTrack(R, t)) \in Nat
      /\ IsFiniteSet(OnTrack(S \ R, t)) /\ Cardinality(OnTrack(S \ R, t)) \in Nat
    BY TrackBound
<1>4. Cardinality(OnTrack(R, t) \cup OnTrack(S \ R, t))
        = Cardinality(OnTrack(R, t)) + Cardinality(OnTrack(S \ R, t)) - Cardinality({})
    BY <1>2, <1>3, FS_Union, Zenon
<1>5. Cardinality({}) = 0
    BY FS_EmptySet, Zenon
<1>6. Cardinality(OnTrack(R, t) \cup OnTrack(S \ R, t))
        = Cardinality(OnTrack(R, t)) + Cardinality(OnTrack(S \ R, t))
    BY <1>3, <1>4, <1>5
<1> QED
    BY <1>1, <1>6, Zenon

\* Giving sectors back, free ones among them or not, keeps bytes and bits in step.
LEMMA FreeAgrees ==
    ASSUME NEW b \in BamType, Agrees(b), NEW S
    PROVE  FreeSectors(b, S) \in BamType /\ Agrees(FreeSectors(b, S))
<1> DEFINE U == S \cap Sectors
           c == [t \in Tracks |->
                    (b.count[t] + Cardinality(OnTrack(U \ b.free, t))) % 256]
<1>1. b.free \in SUBSET Sectors /\ U \in SUBSET Sectors /\ b.count \in [Tracks -> 0 .. 255]
    BY DEF BamType
<1>2. FreeSectors(b, S) = [free |-> b.free \cup U, count |-> c]
    BY DEF FreeSectors
<1>3. ASSUME NEW t \in Tracks
      PROVE  c[t] = Cardinality(OnTrack(b.free \cup U, t)) /\ c[t] \in 0 .. 255
  <2>1. b.count[t] = Cardinality(OnTrack(b.free, t))
      BY DEF Agrees
  <2>2. Cardinality(OnTrack(b.free \cup U, t))
          = Cardinality(OnTrack(b.free, t)) + Cardinality(OnTrack(U \ b.free, t))
      BY <1>1, TrackParts, Zenon
  <2>3. Cardinality(OnTrack(b.free \cup U, t)) \in 0 .. 40
      BY <1>1, TrackBound
  <2>4. c[t] = Cardinality(OnTrack(b.free \cup U, t)) % 256
      BY <2>1, <2>2
  <2> QED
      BY <2>3, <2>4
<1>4. c \in [Tracks -> 0 .. 255]
    BY <1>3
<1> HIDE DEF c, U
<1> QED
    BY <1>1, <1>2, <1>3, <1>4 DEF BamType, Agrees

\* So does taking sectors, in use ones among them or not.
LEMMA UseAgrees ==
    ASSUME NEW b \in BamType, Agrees(b), NEW S
    PROVE  UseSectors(b, S) \in BamType /\ Agrees(UseSectors(b, S))
<1> DEFINE R == b.free \ S
           U == S \cap b.free
           c == [t \in Tracks |-> (b.count[t] + 256 - Cardinality(OnTrack(U, t))) % 256]
<1>1. R \in SUBSET Sectors /\ U \in SUBSET Sectors /\ b.count \in [Tracks -> 0 .. 255]
    BY DEF BamType
<1>2. UseSectors(b, S) = [free |-> R, count |-> c]
    BY DEF UseSectors
<1>3. ASSUME NEW t \in Tracks
      PROVE  c[t] = Cardinality(OnTrack(R, t)) /\ c[t] \in 0 .. 255
  <2>1. b.count[t] = Cardinality(OnTrack(b.free, t))
      BY DEF Agrees
  <2>2. b.free = R \cup U /\ U \ R = U
      OBVIOUS
  <2>3. Cardinality(OnTrack(R \cup U, t))
          = Cardinality(OnTrack(R, t)) + Cardinality(OnTrack(U \ R, t))
      BY <1>1, TrackParts, Zenon
  <2>4. Cardinality(OnTrack(R, t)) \in 0 .. 40 /\ Cardinality(OnTrack(U, t)) \in 0 .. 40
      BY <1>1, TrackBound
  <2>5. b.count[t] = Cardinality(OnTrack(R, t)) + Cardinality(OnTrack(U, t))
      BY <2>1, <2>2, <2>3
  <2>6. c[t] = (Cardinality(OnTrack(R, t)) + 256) % 256
      BY <2>4, <2>5
  <2> QED
      BY <2>4, <2>6
<1>4. c \in [Tracks -> 0 .. 255]
    BY <1>3
<1> HIDE DEF c, R, U
<1> QED
    BY <1>1, <1>2, <1>3, <1>4 DEF BamType, Agrees

\* The map of a new filesystem is right (filesystemCreate, d64.cpp:262-276).
LEMMA NewAgrees == NewBam \in BamType /\ Agrees(NewBam)
<1> DEFINE none == [free |-> {}, count |-> [t \in Tracks |-> 0]]
<1>1. none \in BamType
    BY DEF BamType
<1>2. \A t \in Tracks : OnTrack({}, t) = {}
    BY DEF OnTrack
<1>3. Agrees(none)
    BY <1>2, FS_EmptySet DEF Agrees
<1>4. FreeSectors(none, Sectors) \in BamType /\ Agrees(FreeSectors(none, Sectors))
    BY <1>1, <1>3, FreeAgrees
<1> QED
    BY <1>4, UseAgrees DEF NewBam

-----------------------------------------------------------------------------
\* BamAgrees with the shapes it needs is inductive: every step leaves a map
\* alone, makes a new one, copies one to the other, or takes and gives sectors.
BamInv ==
    /\ bam \in BamType /\ diskBam \in BamType
    /\ BamAgrees

LEMMA BamInit == Init => BamInv
BY NewAgrees DEF Init, BamInv, BamAgrees

\* The old chain of a file is let go without harm to the map.
LEMMA ReleasedAgrees ==
    ASSUME BamInv, NEW n
    PROVE  Released(n) \in BamType /\ Agrees(Released(n))
BY FreeAgrees DEF Released, BamInv, BamAgrees

LEMMA BamStep == BamInv /\ [Next]_vars => BamInv'
<1> SUFFICES ASSUME BamInv, [Next]_vars
             PROVE  BamInv'
    OBVIOUS
<1> USE DEF BamInv, BamAgrees
<1>1. CASE Format
    BY <1>1, NewAgrees DEF Format
<1>2. CASE Load
    BY <1>2 DEF Load, source
<1>3. CASE Add \/ SetContent \/ Rename \/ Read \/ RemoveFile
    BY <1>3 DEF Add, SetContent, Rename, Read, RemoveFile, source
<1>4. CASE SkipClean \/ FindIndex \/ ExtendDirectory \/ DirectoryFull
    BY <1>4 DEF SkipClean, FindIndex, ExtendDirectory, DirectoryFull, source, image
<1>5. CASE NoSpace
    BY <1>5, ReleasedAgrees DEF NoSpace, source
<1>6. CASE WriteContent
  <2>1. PICK n, S : bam' = UseSectors(Released(n), S) /\ diskBam' = diskBam
      BY <1>6 DEF WriteContent
  <2>2. Released(n) \in BamType /\ Agrees(Released(n))
      BY ReleasedAgrees
  <2> QED
      BY <2>1, <2>2, UseAgrees
<1>7. CASE ContentRunsOut
    BY <1>7 DEF ContentRunsOut, image
<1>8. CASE DropContent
    BY <1>8, FreeAgrees DEF DropContent, source
<1>9. CASE SaveEntry
    BY <1>9 DEF SaveEntry
<1>10. CASE SaveDone
    BY <1>10 DEF SaveDone, SavedMap, image
<1>11. CASE RemoveAgain
    BY <1>11, FreeAgrees DEF RemoveAgain, source
<1>12. CASE Crashed \/ UNCHANGED vars
    BY <1>12 DEF Crashed, vars
<1> QED
    BY <1>1, <1>2, <1>3, <1>4, <1>5, <1>6, <1>7, <1>8, <1>9, <1>10, <1>11, <1>12
    DEF Next, Running

\* In memory and on disk, whatever the client does and however a save ends, the
\* free sectors of a track are as many as its byte says (d64.cpp:584-605).
THEOREM MapAgrees == Spec => []BamAgrees
<1>1. BamInv => BamAgrees
    BY DEF BamInv
<1> QED
    BY BamInit, BamStep, <1>1, PTL DEF Spec

-----------------------------------------------------------------------------
(* Sectors *)

Total == Cardinality(Sectors)

\* A disk has finitely many sectors.
LEMMA SectorsFinite == IsFiniteSet(Sectors) /\ Total \in Nat
<1> DEFINE box == Tracks \X (0 .. 39)
<1>1. IsFiniteSet(1 .. TrackCount) /\ IsFiniteSet(0 .. 39)
    <2>1. 1 \in Int /\ TrackCount \in Int /\ 0 \in Int /\ 39 \in Int
        BY GeometryAssumption
    <2> QED
        BY <2>1, FS_Interval
<1>2. IsFiniteSet(box)
    BY <1>1, FS_Product DEF Tracks
<1>3. Sectors \in SUBSET box
    <2>1. ASSUME NEW t \in Tracks, NEW s \in 0 .. SectorCount[t] - 1 PROVE <<t, s>> \in box
        BY GeometryAssumption
    <2> QED
        BY <2>1 DEF Sectors
<1> HIDE DEF box
<1>4. IsFiniteSet(Sectors)
    BY <1>2, <1>3, FS_Subset
<1> QED
    BY <1>4, FS_CardinalityType DEF Total

\* A sector is a pair, of a track other than 0, which ends a chain.
LEMMA SectorShape ==
    /\ \A s \in Sectors : s = <<s[1], s[2]>> /\ s[1] \in Nat /\ s[1] > 0 /\ s[2] \in Nat
    /\ End \notin Sectors
<1>1. ASSUME NEW s \in Sectors PROVE s = <<s[1], s[2]>> /\ s[1] \in Nat /\ s[1] > 0 /\ s[2] \in Nat
    <2>1. PICK t \in Tracks : \E n \in 0 .. SectorCount[t] - 1 : s = <<t, n>>
        BY DEF Sectors
    <2>2. t \in Nat /\ t > 0 /\ SectorCount[t] \in Nat
        <3>1. t \in 1 .. TrackCount /\ TrackCount \in Nat /\ SectorCount[t] \in 1 .. 40
            BY GeometryAssumption DEF Tracks
        <3> QED
            BY <3>1
    <2>3. PICK n \in 0 .. SectorCount[t] - 1 : s = <<t, n>>
        BY <2>1
    <2> QED
        BY <2>2, <2>3
<1>2. End \notin Sectors
    BY <1>1 DEF End
<1> QED
    BY <1>1, <1>2

\* The sectors sectorsUse finds are free ones, each once.
LEMMA FirstFreeShape ==
    ASSUME NEW b, b.free \in SUBSET Sectors, NEW n \in Nat
    PROVE  /\ Cardinality(b.free) \in Nat
           /\ n > Cardinality(b.free) => FirstFree(b, n) = <<>>
           /\ n <= Cardinality(b.free) =>
                 /\ FirstFree(b, n) \in Seq(Sectors) /\ Len(FirstFree(b, n)) = n
                 /\ IsInjective(FirstFree(b, n)) /\ Range(FirstFree(b, n)) \subseteq b.free
<1> DEFINE S == b.free
           below == [x \in S |-> {r \in S : Before(r, x)}]
           N == Cardinality(S)
<1>1. IsFiniteSet(S) /\ N \in Nat
    BY SectorsFinite, FS_Subset, FS_CardinalityType
<1>3. /\ \A x \in S : ~Before(x, x)
      /\ \A x, y, z \in S : Before(x, y) /\ Before(y, z) => Before(x, z)
      /\ \A x, y \in S : x # y => Before(x, y) \/ Before(y, x)
    <2>1. \A s \in S : s = <<s[1], s[2]>> /\ s[1] \in Nat /\ s[2] \in Nat
        BY SectorShape
    <2>2. \A x \in S : ~Before(x, x)
        BY <2>1 DEF Before
    <2>3. \A x, y, z \in S : Before(x, y) /\ Before(y, z) => Before(x, z)
        BY <2>1 DEF Before
    <2>4. ASSUME NEW x \in S, NEW y \in S, x # y PROVE Before(x, y) \/ Before(y, x)
        <3>1. x[1] # y[1] \/ x[2] # y[2]
            BY <2>1, <2>4
        <3> QED
            BY <2>1, <3>1 DEF Before
    <2> QED
        BY <2>2, <2>3, <2>4
<1>2. /\ below \in [S -> SUBSET S]
      /\ \A x, y \in S : x \in below[y] <=> Before(x, y)
    OBVIOUS
<1> HIDE DEF S, below
<1>4. \A x, y \in S : x \in below[y] => below[x] \subseteq below[y]
    <2> SUFFICES ASSUME NEW x \in S, NEW y \in S, x \in below[y], NEW z \in below[x]
                 PROVE  z \in below[y]
        OBVIOUS
    <2>1. z \in S
        BY <1>2
    <2> QED
        BY <1>2, <1>3, <2>1
<1>5. /\ \A x, y \in S : Cardinality(below[x]) = Cardinality(below[y]) => x = y
      /\ \A k \in 0 .. N - 1 : \E x \in S : Cardinality(below[x]) = k
    <2>1. /\ \A x \in S : x \notin below[x]
          /\ \A x, y \in S : x # y => x \in below[y] \/ y \in below[x]
        BY <1>2, <1>3
    <2> QED
        BY <1>1, <1>2, <1>4, <2>1, Ranks
<1>6. ASSUME NEW k \in 0 .. N - 1
      PROVE  FreeAt(b, k) \in S /\ Cardinality(below[FreeAt(b, k)]) = k
    <2>1. \A x \in S : below[x] = {r \in S : Before(r, x)}
        BY DEF below
    <2>2. \E x \in S : Cardinality({r \in S : Before(r, x)}) = k
        BY <1>5, <2>1
    <2>3. /\ FreeAt(b, k) \in S
          /\ Cardinality({r \in S : Before(r, FreeAt(b, k))}) = k
        BY <2>2 DEF FreeAt, S
    <2> QED
        BY <2>1, <2>3
<1>7. CASE n > N
    BY <1>1, <1>7 DEF FirstFree, S
<1>8. CASE n <= N
    <2> DEFINE c == FirstFree(b, n)
    <2>1. c = [j \in 1 .. n |-> FreeAt(b, j - 1)]
        BY <1>1, <1>8 DEF FirstFree, S
    <2> HIDE DEF c
    <2>2. \A j \in 1 .. n : c[j] \in S /\ Cardinality(below[c[j]]) = j - 1
        <3> SUFFICES ASSUME NEW j \in 1 .. n PROVE c[j] \in S /\ Cardinality(below[c[j]]) = j - 1
            OBVIOUS
        <3>1. j - 1 \in 0 .. N - 1
            BY <1>1, <1>8
        <3> QED
            BY <1>6, <2>1, <3>1
    <2>3. S \in SUBSET Sectors
        BY DEF S
    <2>4. c \in Seq(Sectors) /\ Len(c) = n
        BY <2>1, <2>2, <2>3
    <2>5. IsInjective(c)
        <3> SUFFICES ASSUME NEW i \in 1 .. n, NEW j \in 1 .. n, c[i] = c[j] PROVE i = j
            BY <2>1 DEF IsInjective
        <3>1. i - 1 = j - 1
            BY <2>2
        <3> QED
            BY <3>1
    <2>6. Range(c) \subseteq S
        BY <2>1, <2>2 DEF Range
    <2> QED
        BY <1>1, <1>8, <2>4, <2>5, <2>6 DEF c, S
<1> QED
    BY <1>1, <1>7, <1>8 DEF S

-----------------------------------------------------------------------------
(* Chains *)

\* Sequences of sectors in which none comes twice.
Paths == {c \in Seq(Sectors) : IsInjective(c)}

\* A path has as many sectors as its length, no more than there are.
LEMMA PathShape ==
    ASSUME NEW c \in Paths
    PROVE  /\ c \in Seq(Sectors) /\ IsInjective(c) /\ Len(c) \in Nat /\ DOMAIN c = 1 .. Len(c)
           /\ Range(c) \subseteq Sectors /\ IsFiniteSet(Range(c))
           /\ Cardinality(Range(c)) = Len(c) /\ Len(c) <= Total
           /\ \A j \in 1 .. Len(c) : c[j] \in Sectors
<1>1. c \in Seq(Sectors) /\ IsInjective(c) /\ Len(c) \in Nat /\ DOMAIN c = 1 .. Len(c)
    BY DEF Paths
<1>2. \A j \in 1 .. Len(c) : c[j] \in Sectors
    BY <1>1
<1>3. Range(c) \in SUBSET Sectors
    BY <1>1, <1>2 DEF Range
<1>4. IsFiniteSet(Range(c)) /\ Cardinality(Range(c)) <= Total
    BY <1>3, SectorsFinite, FS_Subset DEF Total
<1>5. c \in Injection(1 .. Len(c), Range(c)) /\ c \in Surjection(1 .. Len(c), Range(c))
    <2>1. c \in [1 .. Len(c) -> Range(c)]
        BY <1>1 DEF Range
    <2>2. \A x \in Range(c) : \E j \in 1 .. Len(c) : c[j] = x
        BY <1>1 DEF Range
    <2> QED
        BY <1>1, <2>1, <2>2 DEF Injection, Surjection
<1>6. Cardinality(1 .. Len(c)) = Len(c)
    <2>1. 1 \in Int /\ Len(c) \in Int
        BY <1>1
    <2>2. Cardinality(1 .. Len(c)) = IF 1 > Len(c) THEN 0 ELSE Len(c) - 1 + 1
        BY <2>1, FS_Interval
    <2> QED
        BY <1>1, <2>2
<1>7. Cardinality(1 .. Len(c)) = Cardinality(Range(c))
    BY <1>4, <1>5, FS_Injection
<1> QED
    BY <1>1, <1>2, <1>3, <1>4, <1>6, <1>7

\* A sector that is not on a path extends it.
LEMMA PathExtends ==
    ASSUME NEW c \in Paths, NEW s \in Sectors, s \notin Range(c)
    PROVE  /\ Append(c, s) \in Paths /\ Len(Append(c, s)) = Len(c) + 1
           /\ Append(c, s)[Len(c) + 1] = s
           /\ \A j \in 1 .. Len(c) : Append(c, s)[j] = c[j]
<1> DEFINE d == Append(c, s)
<1>1. /\ c \in Seq(Sectors) /\ IsInjective(c) /\ Len(c) \in Nat /\ DOMAIN c = 1 .. Len(c)
    BY PathShape
<1>2. /\ d \in Seq(Sectors) /\ Len(d) = Len(c) + 1 /\ d[Len(c) + 1] = s
      /\ \A j \in 1 .. Len(c) : d[j] = c[j]
    BY <1>1, AppendProperties
<1> HIDE DEF d
<1>3. ASSUME NEW i \in 1 .. Len(c) + 1, NEW j \in 1 .. Len(c) + 1, d[i] = d[j] PROVE i = j
    <2>1. \A k \in 1 .. Len(c) : c[k] # s
        BY <1>1 DEF Range
    <2>2. CASE i \in 1 .. Len(c) /\ j \in 1 .. Len(c)
        BY <1>1, <1>2, <1>3, <2>2 DEF IsInjective
    <2>3. CASE i = Len(c) + 1 /\ j \in 1 .. Len(c)
        BY <1>2, <1>3, <2>1, <2>3
    <2>4. CASE j = Len(c) + 1 /\ i \in 1 .. Len(c)
        BY <1>2, <1>3, <2>1, <2>4
    <2> QED
        BY <1>1, <2>2, <2>3, <2>4
<1>4. IsInjective(d)
    <2>1. DOMAIN d = 1 .. Len(c) + 1
        BY <1>2
    <2> QED
        BY <1>3, <2>1 DEF IsInjective
<1> QED
    BY <1>2, <1>4 DEF Paths, d

\* One step of the walk of ChainFrom.
ChainStep(start, c) ==
    LET next == IF c = <<>> THEN start ELSE link[Last(c)]
    IN  IF next \in Sectors /\ next \notin Range(c) THEN Append(c, next) ELSE c

\* ChainFrom takes a step along the links as often as there are sectors.
LEMMA ChainWalk ==
    ASSUME NEW start
    PROVE  \E g : /\ g \in [0 .. Total -> Paths] /\ g[0] = <<>>
                  /\ \A i \in 1 .. Total : g[i] = ChainStep(start, g[i - 1])
                  /\ ChainFrom(start) = g[Total]
<1> DEFINE Eq(h) == h = [n \in 0 .. Total |-> IF n = 0 THEN <<>> ELSE ChainStep(start, h[n - 1])]
           g == CHOOSE h : Eq(h)
           F == [c \in Paths |-> ChainStep(start, c)]
<1>0. Total \in Nat /\ Total \in 0 .. Total
    BY SectorsFinite
<1>1. <<>> \in Paths
    BY DEF Paths, IsInjective
<1>2. F \in [Paths -> Paths]
    BY PathExtends DEF ChainStep
<1>3. \E h : Eq(h)
    <2>1. PICK h : Visits(h, F, <<>>, Total, Paths)
        <3> HIDE DEF F
        <3> QED
            BY <1>0, <1>1, <1>2, Iterates, Zenon
    <2>2. \A i \in 1 .. Total : h[i] = ChainStep(start, h[i - 1])
        <3> SUFFICES ASSUME NEW i \in 1 .. Total PROVE h[i] = ChainStep(start, h[i - 1])
            OBVIOUS
        <3>1. i - 1 \in 0 .. Total
            BY <1>0
        <3> QED
            BY <2>1, <3>1 DEF Visits
    <2>3. \A i \in 0 .. Total : h[i] = IF i = 0 THEN <<>> ELSE ChainStep(start, h[i - 1])
        BY <1>0, <2>1, <2>2 DEF Visits
    <2>4. Eq(h)
        BY <2>1, <2>3 DEF Visits
    <2> QED
        BY <2>4
<1>4. Eq(g)
    BY <1>3
<1>5. ChainFrom(start) = g[Total]
    BY DEF ChainFrom, ChainStep, Total
<1> HIDE DEF g
<1>6. g[0] = <<>> /\ \A i \in 1 .. Total : g[i] = ChainStep(start, g[i - 1])
    BY <1>0, <1>4
<1>7. \A i \in 0 .. Total : g[i] \in Paths
    <2>1. \A i \in 1 .. Total : g[i - 1] \in Paths => g[i] \in Paths
        BY <1>2, <1>6
    <2> QED
        BY <1>0, <1>1, <1>6, <2>1, IteratesIn
<1>8. g \in [0 .. Total -> Paths]
    BY <1>4, <1>7
<1> QED
    BY <1>5, <1>6, <1>8

\* The first elements of a chain, as many as were walked.
Walked(d, c, i) ==
    /\ Len(d) = IF i < Len(c) THEN i ELSE Len(c)
    /\ \A j \in 1 .. Len(d) : d[j] = c[j]

\* A chain whose links lead from each sector to the next, and end.
Linked(c) ==
    /\ \A j \in 1 .. Len(c) - 1 : link[c[j]] = c[j + 1]
    /\ c # <<>> => link[c[Len(c)]] = End

\* Along links that follow a path to its end the walk finds that path.
LEMMA ChainFound ==
    ASSUME NEW c \in Paths, c # <<>>, Linked(c)
    PROVE  ChainFrom(c[1]) = c
<1>0. /\ Total \in Nat /\ Len(c) \in Nat /\ Len(c) > 0 /\ Len(c) <= Total
      /\ c \in Seq(Sectors) /\ IsInjective(c) /\ DOMAIN c = 1 .. Len(c)
      /\ \A j \in 1 .. Len(c) : c[j] \in Sectors
    BY SectorsFinite, PathShape
<1>1. PICK g \in [0 .. Total -> Paths] :
          /\ g[0] = <<>>
          /\ \A i \in 1 .. Total : g[i] = ChainStep(c[1], g[i - 1])
          /\ ChainFrom(c[1]) = g[Total]
    BY ChainWalk
<1> DEFINE S == {i \in 0 .. Total : Walked(g[i], c, i)}
<1>2. 0 \in S
    BY <1>0, <1>1 DEF Walked
<1>3. ASSUME NEW i \in 1 .. Total, i - 1 \in S PROVE i \in S
    <2> DEFINE d == g[i - 1]
               next == IF d = <<>> THEN c[1] ELSE link[Last(d)]
    <2>1. d \in Paths /\ Walked(d, c, i - 1) /\ i - 1 \in Nat
        BY <1>1, <1>3
    <2>2. g[i] = IF next \in Sectors /\ next \notin Range(d) THEN Append(d, next) ELSE d
        BY <1>1 DEF ChainStep
    <2> HIDE DEF d
    <2>3. Len(d) \in Nat /\ DOMAIN d = 1 .. Len(d) /\ (d = <<>> <=> Len(d) = 0)
        BY <2>1, PathShape, EmptySeq
    <2>4. CASE i - 1 < Len(c)
        <3>1. Len(d) = i - 1 /\ Len(d) + 1 \in 1 .. Len(c)
            BY <1>0, <2>1, <2>4 DEF Walked
        <3>2. next = c[Len(d) + 1]
            <4>1. CASE d = <<>>
                BY <2>3, <4>1
            <4>2. CASE d # <<>>
                <5>1. Len(d) \in 1 .. Len(d) /\ Len(d) \in 1 .. Len(c) - 1
                    BY <1>0, <2>3, <3>1, <4>2
                <5>2. Last(d) = c[Len(d)]
                    BY <2>1, <5>1 DEF Last, Walked
                <5>3. link[c[Len(d)]] = c[Len(d) + 1]
                    BY <5>1 DEF Linked
                <5> QED
                    BY <4>2, <5>2, <5>3
            <4> QED
                BY <4>1, <4>2
        <3> HIDE DEF next
        <3>3. next \in Sectors /\ next \notin Range(d)
            <4>1. next \in Sectors
                BY <1>0, <3>1, <3>2
            <4>2. ASSUME NEW j \in 1 .. Len(d), d[j] = next PROVE FALSE
                <5>1. c[j] = c[Len(d) + 1]
                    BY <2>1, <3>2, <4>2 DEF Walked
                <5>2. j \in DOMAIN c /\ Len(d) + 1 \in DOMAIN c /\ j # Len(d) + 1
                    BY <1>0, <2>3, <3>1
                <5> QED
                    BY <1>0, <5>1, <5>2 DEF IsInjective
            <4>3. next \notin Range(d)
                BY <2>3, <4>2 DEF Range
            <4> QED
                BY <4>1, <4>3
        <3>4. /\ g[i] = Append(d, next) /\ Len(g[i]) = Len(d) + 1 /\ g[i][Len(d) + 1] = next
              /\ \A j \in 1 .. Len(d) : g[i][j] = d[j]
            BY <2>1, <2>2, <3>3, PathExtends
        <3>5. \A j \in 1 .. Len(d) + 1 : g[i][j] = c[j]
            <4> SUFFICES ASSUME NEW j \in 1 .. Len(d) + 1 PROVE g[i][j] = c[j]
                OBVIOUS
            <4>1. CASE j = Len(d) + 1
                BY <3>2, <3>4, <4>1
            <4>2. CASE j \in 1 .. Len(d)
                BY <2>1, <3>4, <4>2 DEF Walked
            <4> QED
                BY <2>3, <4>1, <4>2
        <3>6. Len(g[i]) = IF i < Len(c) THEN i ELSE Len(c)
            <4>1. i \in Nat /\ Len(c) \in Nat /\ Len(d) \in Nat
                BY <1>0, <2>3
            <4>2. Len(g[i]) = i /\ i <= Len(c)
                BY <3>1, <3>4, <4>1
            <4> QED
                BY <4>1, <4>2
        <3>7. \A j \in 1 .. Len(g[i]) : g[i][j] = c[j]
            BY <3>4, <3>5
        <3> QED
            BY <3>6, <3>7 DEF Walked
    <2>5. CASE Len(c) <= i - 1
        <3>1. Len(d) = Len(c) /\ Len(d) \in 1 .. Len(d)
            BY <1>0, <2>1, <2>5 DEF Walked
        <3>2. Last(d) = c[Len(c)] /\ link[Last(d)] = End
            BY <1>0, <2>1, <3>1 DEF Last, Walked, Linked
        <3>3. next \notin Sectors
            BY <2>3, <3>1, <3>2, SectorShape
        <3>4. g[i] = d
            BY <2>2, <3>3
        <3> QED
            BY <1>0, <2>1, <2>5, <3>1, <3>4 DEF Walked
    <2> QED
        BY <1>0, <2>4, <2>5
<1> HIDE DEF S
<1>4. Total \in S
    <2>1. \A i \in 0 .. Total : i \in S
        BY <1>0, <1>2, <1>3, Induct
    <2> QED
        BY <1>0, <2>1
<1>5. Walked(g[Total], c, Total) /\ g[Total] \in Paths
    BY <1>0, <1>1, <1>4 DEF S
<1>6. Len(g[Total]) = Len(c) /\ g[Total] \in Seq(Sectors)
    <2>0. Len(g[Total]) = IF Total < Len(c) THEN Total ELSE Len(c)
        BY <1>5 DEF Walked
    <2>1. Len(g[Total]) = Len(c)
        <3>1. Total \in Nat /\ Len(c) \in Nat /\ Len(c) <= Total
            BY <1>0
        <3>2. ~(Total < Len(c))
            BY <3>1
        <3> QED
            BY <2>0, <3>2
    <2>2. g[Total] \in Seq(Sectors)
        BY <1>5, PathShape
    <2> QED
        BY <2>1, <2>2
<1>7. g[Total] = c
    BY <1>0, <1>5, <1>6, SeqEqual DEF Walked
<1> QED
    BY <1>1, <1>7

\* One step of the walk of Directory.
DirectoryStep(c) ==
    LET next == link[Last(c)]
    IN  IF next \in Sectors /\ next[2] # 0 /\ next \notin Range(c) THEN Append(c, next) ELSE c

\* Directory takes its steps from the sector after the map.
LEMMA DirectoryWalk ==
    \E g : /\ g \in [1 .. Total -> Paths] /\ Total > 0 /\ g[1] = <<DirStart>>
           /\ \A i \in 2 .. Total : g[i] = DirectoryStep(g[i - 1])
           /\ Directory = g[Total]
<1> DEFINE Eq(h) == h = [n \in 1 .. Total |-> IF n = 1 THEN <<DirStart>> ELSE DirectoryStep(h[n - 1])]
           g == CHOOSE h : Eq(h)
           F == [c \in Paths |-> DirectoryStep(c)]
<1>0. Total \in Nat /\ Total - 1 \in Nat /\ Total > 0
    <2>1. Total # 0
        BY SectorsFinite, GeometryAssumption, FS_EmptySet DEF Total
    <2> QED
        BY <2>1, SectorsFinite
<1>1. <<DirStart>> \in Paths
    <2>1. DirStart \in Sectors
        BY GeometryAssumption
    <2>2. <<DirStart>> \in Seq(Sectors)
        BY <2>1
    <2>3. IsInjective(<<DirStart>>)
        BY DEF IsInjective
    <2> QED
        BY <2>2, <2>3 DEF Paths
<1>2. F \in [Paths -> Paths]
    BY PathExtends DEF DirectoryStep
<1>3. \E h : Eq(h)
    <2>1. PICK e : Visits(e, F, <<DirStart>>, Total - 1, Paths)
        <3> HIDE DEF F
        <3> QED
            BY <1>0, <1>1, <1>2, Iterates, Zenon
    <2> DEFINE h == [i \in 1 .. Total |-> e[i - 1]]
    <2>2. ASSUME NEW i \in 2 .. Total PROVE h[i] = DirectoryStep(h[i - 1])
        <3>1. i - 1 \in 1 .. Total - 1 /\ i - 1 - 1 \in 0 .. Total - 1
            BY <1>0
        <3>2. e[i - 1] = F[e[i - 1 - 1]] /\ e[i - 1 - 1] \in Paths
            BY <2>1, <3>1 DEF Visits
        <3>3. h[i] = e[i - 1] /\ h[i - 1] = e[i - 1 - 1]
            BY <1>0, <3>1
        <3> HIDE DEF h
        <3> QED
            BY <3>2, <3>3
    <2>3. h[1] = <<DirStart>>
        <3>1. h[1] = e[0]
            BY <1>0
        <3> QED
            BY <2>1, <3>1 DEF Visits
    <2>4. h = [n \in 1 .. Total |-> h[n]]
        OBVIOUS
    <2> HIDE DEF h
    <2>5. \A i \in 1 .. Total : h[i] = IF i = 1 THEN <<DirStart>> ELSE DirectoryStep(h[i - 1])
        BY <1>0, <2>2, <2>3
    <2>6. Eq(h)
        BY <2>4, <2>5
    <2> QED
        BY <2>6
<1>4. Eq(g)
    BY <1>3
<1>5. Directory = g[Total]
    BY DEF Directory, DirectoryStep, Total
<1> HIDE DEF g
<1>6. g[1] = <<DirStart>> /\ \A i \in 2 .. Total : g[i] = DirectoryStep(g[i - 1])
    BY <1>0, <1>4
<1>7. \A i \in 1 .. Total : g[i] \in Paths
    <2> DEFINE h == [i \in 0 .. Total - 1 |-> g[i + 1]]
    <2>1. h[0] \in Paths
        BY <1>0, <1>1, <1>6
    <2>2. ASSUME NEW i \in 1 .. Total - 1, h[i - 1] \in Paths PROVE h[i] \in Paths
        <3>1. h[i] = g[i + 1] /\ h[i - 1] = g[i] /\ i + 1 \in 2 .. Total /\ i + 1 - 1 = i
            BY <1>0
        <3> HIDE DEF h
        <3> QED
            BY <1>2, <1>6, <2>2, <3>1
    <2> HIDE DEF h
    <2>3. \A i \in 0 .. Total - 1 : h[i] \in Paths
        BY <1>0, <2>1, <2>2, IteratesIn
    <2>4. ASSUME NEW i \in 1 .. Total PROVE g[i] \in Paths
        <3>1. i - 1 \in 0 .. Total - 1 /\ h[i - 1] = g[i]
            BY <1>0 DEF h
        <3> QED
            BY <2>3, <3>1
    <2> QED
        BY <2>4
<1>8. g \in [1 .. Total -> Paths]
    BY <1>4, <1>7
<1> QED
    BY <1>0, <1>5, <1>6, <1>8

\* No sector comes twice in the directory.
LEMMA DirectoryPath == Directory \in Paths
<1>1. PICK g : g \in [1 .. Total -> Paths] /\ Total > 0 /\ Directory = g[Total]
    BY DirectoryWalk
<1> QED
    BY <1>1, SectorsFinite

\* A directory that was not extended is one sector.
LEMMA DirectoryFound ==
    ASSUME link[DirStart] = End
    PROVE  Directory = <<DirStart>> /\ Len(Directory) = 1 /\ Directory[1] = DirStart
<1>1. PICK g : /\ g \in [1 .. Total -> Paths] /\ Total > 0 /\ g[1] = <<DirStart>>
               /\ \A i \in 2 .. Total : g[i] = DirectoryStep(g[i - 1])
               /\ Directory = g[Total]
    BY DirectoryWalk
<1> DEFINE S == {i \in 0 .. Total - 1 : g[i + 1] = <<DirStart>>}
<1>0. Total \in Nat /\ Total - 1 \in Nat
    BY <1>1, SectorsFinite
<1>2. 0 \in S
    BY <1>0, <1>1
<1>3. ASSUME NEW i \in 1 .. Total - 1, i - 1 \in S PROVE i \in S
    <2>1. i + 1 \in 2 .. Total /\ i + 1 - 1 = i /\ i - 1 + 1 = i /\ i \in 0 .. Total - 1
        BY <1>0
    <2>2. g[i] = <<DirStart>> /\ g[i + 1] = DirectoryStep(g[i])
        BY <1>1, <1>3, <2>1
    <2>3. Last(g[i]) = DirStart
        BY <2>2 DEF Last
    <2>4. DirectoryStep(g[i]) = g[i]
        BY <2>3, SectorShape DEF DirectoryStep
    <2> QED
        BY <2>1, <2>2, <2>4
<1> HIDE DEF S
<1>4. \A i \in 0 .. Total - 1 : i \in S
    BY <1>0, <1>2, <1>3, Induct
<1>5. Total - 1 \in S /\ Total - 1 + 1 = Total
    BY <1>0, <1>4, SectorsFinite
<1>6. Directory = <<DirStart>>
    BY <1>1, <1>5 DEF S
<1> HIDE DEF Directory
<1> QED
    BY <1>6

-----------------------------------------------------------------------------
(* Shapes, whatever the client does                                         *)

Piece == Files \X (1 .. MaxVersions) \X (1 .. MaxPieces)
EntryType == [file : Files, start : Sectors, size : 1 .. MaxPieces]
NodeShape == [dirty : BOOLEAN, content : Content, chain : Paths, size : 0 .. MaxPieces,
              slot : [ts : Sectors, offset : Nat] \cup {NoSlot}, loaded : BOOLEAN]

\* Each step of a call finds what the one before it left.
ShapeInv ==
    /\ bam \in BamType /\ diskBam \in BamType
    /\ nodes \in Seq(Files) /\ IsInjective(nodes)
    /\ node \in [Files -> NodeShape]
    /\ link \in [Sectors -> Sectors \cup {End}]
    /\ entries \in [Sectors -> [Slots -> {Unused, Junk} \cup EntryType]]
    /\ version \in [Files -> 0 .. MaxVersions]
    /\ pc \in {"idle", "save", "entry", "remove", "crashed"}
    /\ pc \in {"save", "entry"} => at \in Nat \ {0}
    /\ pc = "entry" =>
          /\ at <= Len(nodes) /\ node[nodes[at]].slot # NoSlot
          /\ node[nodes[at]].chain # <<>> => node[nodes[at]].size # 0
    /\ pc = "remove" => at \in Files

\* An entry that names a file, and a place that is that of no entry.
Names(f, s, i) == entries[s][i] \in EntryType /\ entries[s][i].file = f
Astray(slot) == \A i \in Slots : slot.offset # i * 32

\* A file has one entry at most, on the whole disk.  One that is in memory knows
\* where its entry is, or has a place that is no entry's: of the places
\* filesystemLoad works out, only the first in a sector is right (d64.cpp:316).
EntryInv ==
    /\ \A f \in Files, s, t \in Sectors, i, j \in Slots :
          Names(f, s, i) /\ Names(f, t, j) => s = t /\ i = j
    /\ \A f \in Files, s \in Sectors, i \in Slots : Names(f, s, i) => version[f] # 0
    /\ \A f \in Range(nodes) : version[f] # 0
    /\ \A f \in Range(nodes), s \in Sectors, i \in Slots : Names(f, s, i) =>
          \/ node[f].slot = [ts |-> s, offset |-> i * 32]
          \/ node[f].slot # NoSlot /\ Astray(node[f].slot)

\* A content is a sequence of pieces.
LEMMA ContentShape ==
    ASSUME NEW c
    PROVE  c \in Content <=> c \in Seq(Piece) /\ Len(c) <= MaxPieces
<1>1. Content = UNION {[1 .. n -> Piece] : n \in 0 .. MaxPieces}
    BY DEF Content, Piece
<1>2. ASSUME c \in Content PROVE c \in Seq(Piece) /\ Len(c) <= MaxPieces
    <2>1. PICK n \in 0 .. MaxPieces : c \in [1 .. n -> Piece]
        BY <1>1, <1>2
    <2>2. n \in Nat /\ n <= MaxPieces
        BY BoundsAssumption
    <2> QED
        BY <2>1, <2>2
<1>3. ASSUME c \in Seq(Piece), Len(c) <= MaxPieces PROVE c \in Content
    <2>1. Len(c) \in 0 .. MaxPieces /\ c \in [1 .. Len(c) -> Piece]
        BY <1>3, BoundsAssumption
    <2> QED
        BY <1>1, <2>1
<1> QED
    BY <1>2, <1>3

\* What is taken out of a sequence without repetition is in it no longer.
LEMMA RemovedShape ==
    ASSUME NEW S, NEW c \in Seq(S), IsInjective(c), NEW k \in 1 .. Len(c)
    PROVE  /\ RemoveAt(c, k) \in Seq(S) /\ IsInjective(RemoveAt(c, k))
           /\ Range(RemoveAt(c, k)) \subseteq Range(c)
<1> DEFINE a == SubSeq(c, 1, k - 1)
           b == SubSeq(c, k + 1, Len(c))
           from(j) == IF j <= k - 1 THEN j ELSE j + 1
<1>1. /\ a \in Seq(S) /\ Len(a) = k - 1 /\ \A j \in 1 .. k - 1 : a[j] = c[j]
    <2>1. 1 \in Int /\ k - 1 \in Int /\ \A j \in 1 .. k - 1 : c[j] \in S
        OBVIOUS
    <2> QED
        BY <2>1, SubSeqProperties
<1>2. /\ b \in Seq(S) /\ Len(b) = Len(c) - k /\ \A j \in 1 .. Len(c) - k : b[j] = c[j + k]
    <2>1. k + 1 \in Int /\ Len(c) \in Int /\ \A j \in k + 1 .. Len(c) : c[j] \in S
        OBVIOUS
    <2> QED
        BY <2>1, SubSeqProperties
<1> HIDE DEF a, b
<1>3. PICK d : d = a \o b
    OBVIOUS
<1>4. d \in Seq(S) /\ Len(d) = Len(c) - 1 /\ DOMAIN d = 1 .. Len(c) - 1
    BY <1>1, <1>2, <1>3
<1>5. \A j \in 1 .. Len(c) - 1 : d[j] = c[from(j)] /\ from(j) \in 1 .. Len(c)
    <2> SUFFICES ASSUME NEW j \in 1 .. Len(c) - 1 PROVE d[j] = c[from(j)] /\ from(j) \in 1 .. Len(c)
        OBVIOUS
    <2>1. CASE j <= k - 1
        BY <1>1, <1>2, <1>3, <2>1
    <2>2. CASE ~(j <= k - 1)
        <3>1. d[j] = b[j - (k - 1)]
            <4>1. j \in Len(a) + 1 .. Len(a) + Len(b)
                BY <1>1, <1>2, <2>2
            <4>2. (a \o b)[j] = b[j - Len(a)]
                BY <1>1, <1>2, <4>1, ConcatProperties
            <4> QED
                BY <1>1, <1>3, <4>2
        <3>2. j - (k - 1) \in 1 .. Len(c) - k /\ j - (k - 1) + k = j + 1
            BY <2>2
        <3> QED
            BY <1>2, <2>2, <3>1, <3>2
    <2> QED
        BY <2>1, <2>2
<1>6. \A i, j \in 1 .. Len(c) - 1 : from(i) = from(j) => i = j
    OBVIOUS
<1>7. \A i, j \in 1 .. Len(c) : c[i] = c[j] => i = j
    BY DEF IsInjective
<1> HIDE DEF from
<1>8. IsInjective(d)
    BY <1>4, <1>5, <1>6, <1>7 DEF IsInjective
<1>9. Range(d) \subseteq Range(c)
    BY <1>4, <1>5 DEF Range
<1>10. RemoveAt(c, k) = d
    BY <1>3 DEF RemoveAt, a, b
<1> QED
    BY <1>4, <1>8, <1>9, <1>10

\* A chain that is loaded has no sector twice.
LEMMA ChainPath == \A start : ChainFrom(start) \in Paths
BY ChainWalk, SectorsFinite

\* What sectorsUse finds is a path.
LEMMA FoundPath ==
    ASSUME NEW b \in BamType, NEW n \in Nat
    PROVE  FirstFree(b, n) \in Paths /\ Len(FirstFree(b, n)) \in {0, n}
<1>1. b.free \in SUBSET Sectors
    BY DEF BamType
<1>2. <<>> \in Paths /\ Len(<<>>) = 0
    BY DEF Paths, IsInjective
<1>3. Cardinality(b.free) \in Nat
    BY <1>1, FirstFreeShape
<1> QED
    BY <1>1, <1>2, <1>3, FirstFreeShape DEF Paths

\* The entries in the order of the directory are as many as there are, each once.
LEMMA SlotRanks ==
    /\ Cardinality(InUse) \in Nat
    /\ \A j \in 1 .. Cardinality(InUse) : SlotAt(j) \in InUse
    /\ \A j, k \in 1 .. Cardinality(InUse) : SlotAt(j) = SlotAt(k) => j = k
    /\ \A x \in InUse : \E j \in 1 .. Cardinality(InUse) : SlotAt(j) = x
<1>1. PICK dir \in Paths : dir = Directory
    BY DirectoryPath
<1>2. /\ Len(dir) \in Nat /\ DOMAIN dir = 1 .. Len(dir) /\ Range(dir) \subseteq Sectors
      /\ \A d, e \in 1 .. Len(dir) : dir[d] = dir[e] => d = e
    <2>1. Len(dir) \in Nat /\ DOMAIN dir = 1 .. Len(dir) /\ IsInjective(dir) /\ Range(dir) \subseteq Sectors
        BY PathShape
    <2> QED
        BY <2>1 DEF IsInjective
<1>3. ASSUME NEW x \in InUse
      PROVE  /\ x.ts \in Range(dir) /\ x = [ts |-> x.ts, offset |-> x.offset]
             /\ x.offset \in 0 .. 255
    <2>1. PICK s \in Range(dir) : x \in SlotsIn(s, FALSE)
        BY <1>1 DEF InUse
    <2>2. PICK i \in Slots : x = [ts |-> s, offset |-> i * 32]
        BY <2>1 DEF SlotsIn
    <2>3. i \in 0 .. 7
        BY EntryAssumption DEF Slots
    <2>4. i * 32 \in 0 .. 255
        BY <2>3
    <2> QED
        BY <2>2, <2>4
<1> DEFINE N == Cardinality(InUse)
           pos == [x \in InUse |-> CHOOSE d \in 1 .. Len(dir) : dir[d] = x.ts]
           below == [x \in InUse |-> {y \in InUse : SlotBefore(y, x)}]
<1>4. ASSUME NEW x \in InUse
      PROVE  /\ pos[x] \in 1 .. Len(dir) /\ dir[pos[x]] = x.ts
             /\ \A d \in 1 .. Len(dir) : dir[d] = x.ts => d = pos[x]
    <2>1. \E d \in 1 .. Len(dir) : dir[d] = x.ts
        BY <1>2, <1>3 DEF Range
    <2>2. pos[x] \in 1 .. Len(dir) /\ dir[pos[x]] = x.ts
        BY <2>1
    <2> QED
        BY <1>2, <2>2
<1>5. \A x, y \in InUse : x # y => pos[x] # pos[y] \/ x.offset # y.offset
    <2> SUFFICES ASSUME NEW x \in InUse, NEW y \in InUse, pos[x] = pos[y], x.offset = y.offset
                 PROVE  x = y
        OBVIOUS
    <2>1. x.ts = y.ts
        BY <1>4
    <2> QED
        BY <1>3, <2>1
<1> HIDE DEF pos
<1>6. ASSUME NEW x \in InUse PROVE pos[x] \in Nat /\ x.offset \in Nat
    <2>1. pos[x] \in 1 .. Len(dir) /\ x.offset \in 0 .. 255
        BY <1>3, <1>4
    <2>2. \A d : d \in 1 .. Len(dir) => d \in Nat
        BY <1>2
    <2>3. \A d : d \in 0 .. 255 => d \in Nat
        OBVIOUS
    <2> QED
        BY <2>1, <2>2, <2>3, Zenon
<1>7. ASSUME NEW x \in InUse, NEW y \in InUse
      PROVE  SlotBefore(x, y) <=> pos[x] < pos[y] \/ (pos[x] = pos[y] /\ x.offset < y.offset)
    <2>1. ASSUME SlotBefore(x, y)
          PROVE  pos[x] < pos[y] \/ (pos[x] = pos[y] /\ x.offset < y.offset)
        <3>1. PICK d, e \in 1 .. Len(dir) :
                  /\ dir[d] = x.ts /\ dir[e] = y.ts
                  /\ d < e \/ (d = e /\ x.offset < y.offset)
            BY <1>1, <2>1 DEF SlotBefore
        <3>2. d = pos[x] /\ e = pos[y]
            BY <1>4, <3>1
        <3> QED
            BY <3>1, <3>2
    <2>2. ASSUME pos[x] < pos[y] \/ (pos[x] = pos[y] /\ x.offset < y.offset)
          PROVE  SlotBefore(x, y)
        BY <1>1, <1>4, <2>2 DEF SlotBefore
    <2> QED
        BY <2>1, <2>2
<1>8. /\ below \in [InUse -> SUBSET InUse]
      /\ \A x \in InUse : below[x] = {y \in InUse : SlotBefore(y, x)}
    OBVIOUS
<1>9. \A x, y \in InUse : x \in below[y] <=> pos[x] < pos[y] \/ (pos[x] = pos[y] /\ x.offset < y.offset)
    BY <1>7
<1> HIDE DEF below
<1>10. /\ \A x \in InUse : x \notin below[x]
       /\ \A x, y \in InUse : x \in below[y] => below[x] \subseteq below[y]
       /\ \A x, y \in InUse : x # y => x \in below[y] \/ y \in below[x]
    <2>1. \A x \in InUse : x \notin below[x]
        BY <1>6, <1>9
    <2>2. ASSUME NEW x \in InUse, NEW y \in InUse, x \in below[y], NEW z \in below[x]
          PROVE  z \in below[y]
        <3>1. z \in InUse
            BY <1>8
        <3> QED
            BY <1>6, <1>9, <2>2, <3>1
    <2>3. ASSUME NEW x \in InUse, NEW y \in InUse, x # y PROVE x \in below[y] \/ y \in below[x]
        <3>1. pos[x] # pos[y] \/ x.offset # y.offset
            BY <1>5, <2>3
        <3> QED
            BY <1>6, <1>9, <3>1
    <2> QED
        BY <2>1, <2>2, <2>3
<1>11. IsFiniteSet(InUse)
    <2> DEFINE box == Sectors \X (0 .. 255)
               f == [x \in InUse |-> <<x.ts, x.offset>>]
    <2>1. IsFiniteSet(0 .. 255)
        <3>1. 0 \in Int /\ 255 \in Int
            OBVIOUS
        <3> QED
            BY <3>1, FS_Interval
    <2>2. IsFiniteSet(box)
        BY <2>1, SectorsFinite, FS_Product
    <2>3. \A x \in InUse : <<x.ts, x.offset>> \in box
        BY <1>2, <1>3
    <2>4. f \in [InUse -> box]
        BY <2>3
    <2>5. \A x, y \in InUse : f[x] = f[y] => x = y
        <3> SUFFICES ASSUME NEW x \in InUse, NEW y \in InUse, f[x] = f[y] PROVE x = y
            OBVIOUS
        <3>1. x.ts = y.ts /\ x.offset = y.offset
            OBVIOUS
        <3> QED
            BY <1>3, <3>1
    <2> HIDE DEF f, box
    <2>6. f \in Injection(InUse, box)
        BY <2>4, <2>5 DEF Injection, IsInjective
    <2> QED
        BY <2>2, <2>6, FS_Injection
<1>12. /\ N \in Nat
       /\ \A x \in InUse : Cardinality(below[x]) \in 0 .. N - 1
       /\ \A x, y \in InUse : Cardinality(below[x]) = Cardinality(below[y]) => x = y
       /\ \A k \in 0 .. N - 1 : \E x \in InUse : Cardinality(below[x]) = k
    BY <1>8, <1>10, <1>11, Ranks
<1>13. ASSUME NEW j \in 1 .. N
       PROVE  SlotAt(j) \in InUse /\ Cardinality(below[SlotAt(j)]) = j - 1
    <2>1. j - 1 \in 0 .. N - 1
        BY <1>12
    <2>2. \E x \in InUse : Cardinality({y \in InUse : SlotBefore(y, x)}) = j - 1
        BY <1>8, <1>12, <2>1
    <2>3. /\ SlotAt(j) \in InUse
          /\ Cardinality({y \in InUse : SlotBefore(y, SlotAt(j))}) = j - 1
        BY <2>2 DEF SlotAt
    <2> QED
        BY <1>8, <2>3
<1>14. \A j, k \in 1 .. N : SlotAt(j) = SlotAt(k) => j = k
    <2> SUFFICES ASSUME NEW j \in 1 .. N, NEW k \in 1 .. N, SlotAt(j) = SlotAt(k) PROVE j = k
        OBVIOUS
    <2>1. j - 1 = k - 1
        BY <1>13
    <2> QED
        BY <1>12, <2>1
<1>15. ASSUME NEW x \in InUse PROVE \E j \in 1 .. N : SlotAt(j) = x
    <2>1. Cardinality(below[x]) + 1 \in 1 .. N
          /\ Cardinality(below[x]) + 1 - 1 = Cardinality(below[x])
        BY <1>12
    <2> QED
        BY <1>12, <1>13, <2>1
<1> QED
    BY <1>12, <1>13, <1>14, <1>15

\* A new disk has no entries.
LEMMA ShapeInit == Init => ShapeInv /\ EntryInv
<1> SUFFICES ASSUME Init PROVE ShapeInv /\ EntryInv
    OBVIOUS
<1>1. <<>> \in Paths /\ <<>> \in Content /\ Len(<<>>) = 0 /\ Range(<<>>) = {}
      /\ <<>> \in Seq(Files) /\ IsInjective(<<>>)
    <2>1. <<>> \in Content
        <3>1. <<>> \in Seq(Piece) /\ Len(<<>>) <= MaxPieces
            BY BoundsAssumption
        <3> QED
            BY <3>1, ContentShape
    <2> QED
        BY <2>1 DEF Paths, IsInjective, Range
<1>2. NewNode(<<>>) \in NodeShape
    BY <1>1, BoundsAssumption DEF NewNode, NodeShape
<1>3. Unused \notin EntryType
    BY SectorShape DEF Unused, EntryType
<1>4. \A s \in Sectors, i \in Slots : entries[s][i] = Unused
    BY DEF Init
<1>5. ShapeInv
    <2>1. 0 \in 0 .. MaxVersions
        BY BoundsAssumption
    <2> QED
        BY <1>1, <1>2, <2>1, NewAgrees DEF Init, ShapeInv
<1>6. \A f, s, i : s \in Sectors /\ i \in Slots => ~Names(f, s, i)
    BY <1>3, <1>4 DEF Names
<1>7. nodes = <<>>
    BY DEF Init
<1> QED
    BY <1>1, <1>5, <1>6, <1>7 DEF EntryInv

\* A step that writes no entry and gives no file a place keeps what entries name.
LEMMA EntriesStay ==
    ASSUME EntryInv,
           \A f \in Files, s \in Sectors, i \in Slots : Names(f, s, i)' => Names(f, s, i),
           \A f \in Files : version[f] # 0 => version'[f] # 0,
           Range(nodes') \subseteq Files,
           \A f \in Range(nodes') :
              /\ version'[f] # 0
              /\ version[f] = 0 \/ (f \in Range(nodes) /\ node'[f].slot = node[f].slot)
    PROVE  EntryInv'
<1>1. \A f \in Files, s, t \in Sectors, i, j \in Slots :
          Names(f, s, i)' /\ Names(f, t, j)' => s = t /\ i = j
    BY DEF EntryInv
<1>2. \A f \in Files, s \in Sectors, i \in Slots : Names(f, s, i)' => version'[f] # 0
    BY DEF EntryInv
<1>3. ASSUME NEW f \in Range(nodes'), NEW s \in Sectors, NEW i \in Slots, Names(f, s, i)'
      PROVE  \/ node'[f].slot = [ts |-> s, offset |-> i * 32]
             \/ node'[f].slot # NoSlot /\ Astray(node'[f].slot)
    <2>1. f \in Files /\ Names(f, s, i)
        BY <1>3
    <2>2. version[f] # 0
        BY <2>1 DEF EntryInv
    <2>3. f \in Range(nodes) /\ node'[f].slot = node[f].slot
        BY <2>2
    <2>4. \/ node[f].slot = [ts |-> s, offset |-> i * 32]
          \/ node[f].slot # NoSlot /\ Astray(node[f].slot)
        BY <2>1, <2>3 DEF EntryInv
    <2> QED
        BY <2>3, <2>4
<1> QED
    BY <1>1, <1>2, <1>3 DEF EntryInv, Astray

\* The calls that take one step and leave the directory alone.
LEMMA ShapeCalls ==
    ASSUME ShapeInv, EntryInv, Format \/ Add \/ SetContent \/ Rename \/ Read \/ RemoveFile
    PROVE  ShapeInv' /\ EntryInv'
<1>0. \A f \in Files, s \in Sectors, i \in Slots : Names(f, s, i)' <=> Names(f, s, i)
    BY DEF Format, Add, SetContent, Rename, Read, RemoveFile, source, Names
<1>1. CASE Format
    <2>1. nodes' = <<>> /\ Range(<<>>) = {} /\ <<>> \in Seq(Files) /\ IsInjective(<<>>)
        BY <1>1 DEF Format, Range, IsInjective
    <2>2. ShapeInv'
        BY <1>1, <2>1, NewAgrees DEF Format, ShapeInv
    <2>3. version' = version
        BY <1>1 DEF Format
    <2>4. EntryInv'
        BY <1>0, <2>1, <2>3, EntriesStay
    <2> QED
        BY <2>2, <2>4
<1>2. CASE Add
    <2>1. PICK f \in Files, n \in 0 .. MaxPieces :
              /\ f \notin Range(nodes) /\ version[f] = 0
              /\ node' = [node EXCEPT ![f] = NewNode(Pieces(f, 1, n))]
              /\ nodes' = Append(nodes, f)
              /\ version' = [version EXCEPT ![f] = 1]
        <3>1. \A n : n \in (IF "empty" \in Ops THEN 0 ELSE 1) .. MaxPieces => n \in 0 .. MaxPieces
            BY BoundsAssumption
        <3> QED
            BY <1>2, <3>1, Zenon DEF Add
    <2>2. Pieces(f, 1, n) \in Content
        <3>1. n \in Nat /\ 1 \in 1 .. MaxVersions /\ \A j \in 1 .. n : j \in 1 .. MaxPieces
            BY BoundsAssumption
        <3>2. \A j \in 1 .. n : <<f, 1, j>> \in Piece
            BY <3>1 DEF Piece
        <3>3. Pieces(f, 1, n) \in [1 .. n -> Piece]
            BY <3>2 DEF Pieces
        <3>4. Pieces(f, 1, n) \in Seq(Piece) /\ Len(Pieces(f, 1, n)) = n
            BY <3>1, <3>3
        <3>5. n <= MaxPieces
            BY BoundsAssumption
        <3> QED
            BY <3>4, <3>5, ContentShape
    <2>3. NewNode(Pieces(f, 1, n)) \in NodeShape
        <3>1. <<>> \in Paths
            BY DEF Paths, IsInjective
        <3> QED
            BY <2>2, <3>1, BoundsAssumption DEF NewNode, NodeShape
    <2>4. /\ nodes' \in Seq(Files) /\ IsInjective(nodes') /\ Range(nodes') = Range(nodes) \cup {f}
        <3>1. nodes \in Seq(Files) /\ IsInjective(nodes)
            BY DEF ShapeInv
        <3>2. /\ nodes' \in Seq(Files) /\ Len(nodes') = Len(nodes) + 1 /\ nodes'[Len(nodes) + 1] = f
              /\ \A j \in 1 .. Len(nodes) : nodes'[j] = nodes[j]
            BY <2>1, <3>1
        <3>3. DOMAIN nodes = 1 .. Len(nodes) /\ DOMAIN nodes' = 1 .. Len(nodes) + 1 /\ Len(nodes) \in Nat
            BY <3>1, <3>2
        <3>4. \A j \in 1 .. Len(nodes) : nodes[j] # f
            BY <2>1, <3>3 DEF Range
        <3>5. IsInjective(nodes')
            BY <3>1, <3>2, <3>3, <3>4 DEF IsInjective
        <3>6. Range(nodes') = Range(nodes) \cup {f}
            BY <3>2, <3>3 DEF Range
        <3> QED
            BY <3>2, <3>5, <3>6
    <2>5. ShapeInv'
        <3>1. node' \in [Files -> NodeShape]
            BY <2>1, <2>3 DEF ShapeInv
        <3>2. version' \in [Files -> 0 .. MaxVersions]
            <4>1. 1 \in 0 .. MaxVersions
                BY BoundsAssumption
            <4> QED
                BY <2>1, <4>1 DEF ShapeInv
        <3> QED
            BY <1>2, <2>4, <3>1, <3>2 DEF Add, Save, source, ShapeInv
    <2>6. /\ version'[f] = 1 /\ \A g \in Files : g # f => version'[g] = version[g] /\ node'[g] = node[g]
        BY <2>1 DEF ShapeInv
    <2>7. Range(nodes) \subseteq Files /\ \A g \in Range(nodes) : version[g] # 0
        BY DEF ShapeInv, EntryInv, Range
    <2>8. EntryInv'
        BY <1>0, <2>1, <2>4, <2>6, <2>7, EntriesStay
    <2> QED
        BY <2>5, <2>8
<1>3. Range(nodes) \subseteq Files /\ \A g \in Range(nodes) : version[g] # 0
    BY DEF ShapeInv, EntryInv, Range
<1>4. CASE SetContent
    <2>1. PICK f \in Range(nodes), n \in 1 .. MaxPieces :
              /\ version[f] < MaxVersions
              /\ version' = [version EXCEPT ![f] = @ + 1]
              /\ node' = [node EXCEPT ![f].content = Pieces(f, version[f] + 1, n), ![f].dirty = TRUE]
        BY <1>4 DEF SetContent
    <2>2. PICK text : text = Pieces(f, version[f] + 1, n)
        OBVIOUS
    <2>3. f \in Files /\ version[f] \in 0 .. MaxVersions /\ version[f] + 1 \in 1 .. MaxVersions
        BY <1>3, <2>1, BoundsAssumption DEF ShapeInv
    <2>4. text \in Content
        <3>1. n \in Nat /\ \A j \in 1 .. n : j \in 1 .. MaxPieces
            BY BoundsAssumption
        <3>2. \A j \in 1 .. n : <<f, version[f] + 1, j>> \in Piece
            BY <2>3, <3>1 DEF Piece
        <3>3. text \in [1 .. n -> Piece]
            BY <2>2, <3>2 DEF Pieces
        <3>4. text \in Seq(Piece) /\ Len(text) = n
            BY <3>1, <3>3
        <3>5. n <= MaxPieces
            BY BoundsAssumption
        <3> QED
            BY <3>4, <3>5, ContentShape
    <2>5. node[f] \in NodeShape
        BY <2>3 DEF ShapeInv
    <2>6. /\ node' \in [Files -> NodeShape] /\ node'[f].slot = node[f].slot
          /\ \A g \in Files : g # f => node'[g] = node[g]
        <3>1. node' = [node EXCEPT ![f] = [[node[f] EXCEPT !.content = text] EXCEPT !.dirty = TRUE]]
            BY <2>1, <2>2, <2>3 DEF ShapeInv
        <3>2. [[node[f] EXCEPT !.content = text] EXCEPT !.dirty = TRUE] \in NodeShape
            BY <2>4, <2>5 DEF NodeShape
        <3>3. [[node[f] EXCEPT !.content = text] EXCEPT !.dirty = TRUE].slot = node[f].slot
            BY <2>5 DEF NodeShape
        <3> QED
            BY <2>3, <3>1, <3>2, <3>3 DEF ShapeInv
    <2>7. /\ version' \in [Files -> 0 .. MaxVersions] /\ version'[f] = version[f] + 1
          /\ \A g \in Files : g # f => version'[g] = version[g]
        <3>1. version[f] + 1 \in 0 .. MaxVersions
            BY <2>3
        <3> QED
            BY <2>1, <2>3, <3>1 DEF ShapeInv
    <2>8. nodes' = nodes /\ bam' = bam /\ diskBam' = diskBam /\ link' = link /\ entries' = entries
          /\ pc' = "save" /\ at' = 1
        BY <1>4 DEF SetContent, Save, source
    <2>9. ShapeInv'
        BY <2>6, <2>7, <2>8 DEF ShapeInv
    <2>10. \A g \in Files : version[g] # 0 => version'[g] # 0
        BY <2>3, <2>7
    <2>11. EntryInv'
        BY <1>0, <1>3, <2>6, <2>8, <2>10, EntriesStay
    <2> QED
        BY <2>9, <2>11
<1>5. CASE Rename \/ Read
    <2>1. PICK f \in Range(nodes) : \/ node' = Update(f, "dirty", TRUE)
                                    \/ node' = Update(f, "chain", ChainFrom(node[f].chain[1]))
        BY <1>5 DEF Rename, Read
    <2>2. f \in Files /\ node[f] \in NodeShape
        BY <1>3, <2>1 DEF ShapeInv
    <2>3. PICK c \in Paths : c = ChainFrom(node[f].chain[1])
        BY ChainPath
    <2>4. /\ node' \in [Files -> NodeShape]
          /\ \A g \in Files : node'[g].slot = node[g].slot
        <3>1. CASE node' = Update(f, "dirty", TRUE)
            <4>1. node' = [node EXCEPT ![f] = [node[f] EXCEPT !.dirty = TRUE]]
                BY <2>2, <3>1 DEF Update, ShapeInv
            <4>2. /\ [node[f] EXCEPT !.dirty = TRUE] \in NodeShape
                  /\ [node[f] EXCEPT !.dirty = TRUE].slot = node[f].slot
                BY <2>2 DEF NodeShape
            <4> QED
                BY <2>2, <4>1, <4>2 DEF ShapeInv
        <3>2. CASE node' = Update(f, "chain", c)
            <4>1. node' = [node EXCEPT ![f] = [node[f] EXCEPT !.chain = c]]
                BY <2>2, <3>2 DEF Update, ShapeInv
            <4>2. /\ [node[f] EXCEPT !.chain = c] \in NodeShape
                  /\ [node[f] EXCEPT !.chain = c].slot = node[f].slot
                BY <2>2, <2>3 DEF NodeShape
            <4> QED
                BY <2>2, <4>1, <4>2 DEF ShapeInv
        <3> QED
            BY <2>1, <2>3, <3>1, <3>2
    <2>5. /\ nodes' = nodes /\ bam' = bam /\ diskBam' = diskBam /\ link' = link /\ entries' = entries
          /\ version' = version
          /\ \/ pc' = "save" /\ at' = 1
             \/ pc' = "idle"
        BY <1>5 DEF Rename, Read, Save, source, history
    <2>6. ShapeInv'
        BY <2>4, <2>5 DEF ShapeInv
    <2>7. EntryInv'
        BY <1>0, <1>3, <2>4, <2>5, EntriesStay
    <2> QED
        BY <2>6, <2>7
<1>6. CASE RemoveFile
    <2>1. PICK k \in 1 .. Len(nodes) : at' = nodes[k] /\ nodes' = RemoveAt(nodes, k)
        BY <1>6 DEF RemoveFile
    <2>2. /\ nodes' \in Seq(Files) /\ IsInjective(nodes') /\ Range(nodes') \subseteq Range(nodes)
        BY <2>1, RemovedShape DEF ShapeInv
    <2>3. at' \in Files
        BY <2>1 DEF ShapeInv
    <2>4. /\ pc' = "remove" /\ bam' = bam /\ diskBam' = diskBam /\ link' = link /\ entries' = entries
          /\ version' = version /\ node' = node
        BY <1>6 DEF RemoveFile, source, history
    <2>5. ShapeInv'
        BY <2>2, <2>3, <2>4 DEF ShapeInv
    <2>6. EntryInv'
        BY <1>0, <1>3, <2>2, <2>4, EntriesStay
    <2> QED
        BY <2>5, <2>6
<1> QED
    BY <1>1, <1>2, <1>4, <1>5, <1>6

\* filesystemLoad: the files of the directory, each once.
LEMMA ShapeLoad ==
    ASSUME ShapeInv, EntryInv, Load
    PROVE  ShapeInv' /\ EntryInv'
<1> DEFINE N == Cardinality(InUse)
           ofFile(f) == CHOOSE x \in InUse : EntryAt(x).file = f
<1>1. /\ pc = "idle" /\ pc' = pc /\ at' = at /\ bam' = diskBam /\ diskBam' = diskBam
      /\ link' = link /\ entries' = entries /\ version' = version
      /\ \A s \in Range(Directory), i \in Slots : entries[s][i] # Junk
      /\ nodes' = [j \in 1 .. N |-> EntryAt(SlotAt(j)).file]
      /\ node' = [f \in Files |->
            IF \E x \in InUse : EntryAt(x).file = f
            THEN [dirty |-> FALSE, content |-> <<>>,
                  chain |-> <<EntryAt(ofFile(f)).start>>,
                  size |-> EntryAt(ofFile(f)).size,
                  slot |-> [ts |-> ofFile(f).ts,
                            offset |-> LoadOffset(ofFile(f).offset \div 32)],
                  loaded |-> TRUE]
            ELSE NewNode(<<>>)]
    BY DEF Load, source, history
<1>2. /\ N \in Nat
      /\ \A j \in 1 .. N : SlotAt(j) \in InUse
      /\ \A j, k \in 1 .. N : SlotAt(j) = SlotAt(k) => j = k
      /\ \A x \in InUse : \E j \in 1 .. N : SlotAt(j) = x
    BY SlotRanks
<1>3. Range(Directory) \subseteq Sectors
    BY DirectoryPath, PathShape
<1>4. ASSUME NEW x \in InUse
      PROVE  \E s \in Sectors, i \in Slots :
                /\ x = [ts |-> s, offset |-> i * 32] /\ x.offset \div 32 = i
                /\ EntryAt(x) = entries[s][i] /\ entries[s][i] \in EntryType
    <2>1. PICK s \in Range(Directory) : x \in SlotsIn(s, FALSE)
        BY DEF InUse
    <2>2. PICK i \in Slots : x = [ts |-> s, offset |-> i * 32] /\ entries[s][i] # Unused
        BY <2>1 DEF SlotsIn
    <2>3. i \in Nat /\ (i * 32) \div 32 = i
        BY EntryAssumption DEF Slots
    <2>4. entries[s][i] \in {Unused, Junk} \cup EntryType
        BY <1>3 DEF ShapeInv
    <2>5. entries[s][i] \in EntryType
        BY <1>1, <2>2, <2>4
    <2> QED
        BY <1>3, <2>2, <2>3, <2>5 DEF EntryAt
<1>5. ASSUME NEW x \in InUse, NEW y \in InUse, EntryAt(x).file = EntryAt(y).file PROVE x = y
    <2>1. PICK s \in Sectors, i \in Slots :
              x = [ts |-> s, offset |-> i * 32] /\ EntryAt(x) = entries[s][i] /\ entries[s][i] \in EntryType
        BY <1>4
    <2>2. PICK t \in Sectors, j \in Slots :
              y = [ts |-> t, offset |-> j * 32] /\ EntryAt(y) = entries[t][j] /\ entries[t][j] \in EntryType
        BY <1>4
    <2>3. EntryAt(x).file \in Files
        BY <2>1 DEF EntryType
    <2>4. Names(EntryAt(x).file, s, i) /\ Names(EntryAt(x).file, t, j)
        BY <1>5, <2>1, <2>2 DEF Names
    <2>5. s = t /\ i = j
        BY <2>3, <2>4 DEF EntryInv
    <2> QED
        BY <2>1, <2>2, <2>5
<1>6. ASSUME NEW f \in Files, NEW x \in InUse, EntryAt(x).file = f
      PROVE  ofFile(f) = x
    <2>1. ofFile(f) \in InUse /\ EntryAt(ofFile(f)).file = f
        BY <1>6
    <2> HIDE DEF ofFile
    <2> QED
        BY <1>5, <1>6, <2>1
<1> HIDE DEF ofFile, N
<1>7. ASSUME NEW f \in Files, NEW x \in InUse, EntryAt(x).file = f
      PROVE  /\ node'[f] \in NodeShape /\ node'[f].slot # NoSlot
             /\ \A s \in Sectors, i \in Slots : Names(f, s, i) =>
                   \/ node'[f].slot = [ts |-> s, offset |-> i * 32]
                   \/ Astray(node'[f].slot)
    <2>1. PICK s \in Sectors, i \in Slots :
              /\ x = [ts |-> s, offset |-> i * 32] /\ x.offset \div 32 = i
              /\ EntryAt(x) = entries[s][i] /\ entries[s][i] \in EntryType
        BY <1>4
    <2>2. ofFile(f) = x
        BY <1>6, <1>7
    <2>3. node'[f] = [dirty |-> FALSE, content |-> <<>>, chain |-> <<EntryAt(x).start>>,
                      size |-> EntryAt(x).size, slot |-> [ts |-> s, offset |-> i * 20],
                      loaded |-> TRUE]
        <3>1. x.ts = s /\ LoadOffset(x.offset \div 32) = i * 20
            BY <2>1 DEF LoadOffset
        <3> QED
            BY <1>1, <1>7, <2>2, <3>1
    <2>4. node'[f].slot = [ts |-> s, offset |-> i * 20]
        BY <2>3
    <2>5. i \in 0 .. 7 /\ Slots \subseteq 0 .. 7
        BY EntryAssumption DEF Slots
    <2>6. EntryAt(x).start \in Sectors /\ EntryAt(x).size \in 1 .. MaxPieces
        BY <2>1 DEF EntryType
    <2>7. node'[f] \in NodeShape
        <3>1. <<EntryAt(x).start>> \in Paths
            <4>1. <<EntryAt(x).start>> \in Seq(Sectors) /\ IsInjective(<<EntryAt(x).start>>)
                BY <2>6 DEF IsInjective
            <4> QED
                BY <4>1 DEF Paths
        <3>2. EntryAt(x).size \in 0 .. MaxPieces
            BY <2>6, BoundsAssumption
        <3>3. <<>> \in Content
            <4>1. <<>> \in Seq(Piece) /\ Len(<<>>) <= MaxPieces
                BY BoundsAssumption
            <4> QED
                BY <4>1, ContentShape
        <3>4. i * 20 \in Nat
            BY <2>5
        <3>5. [ts |-> s, offset |-> i * 20] \in [ts : Sectors, offset : Nat]
            BY <3>4
        <3>6. [dirty |-> FALSE, content |-> <<>>, chain |-> <<EntryAt(x).start>>,
               size |-> EntryAt(x).size, slot |-> [ts |-> s, offset |-> i * 20],
               loaded |-> TRUE] \in NodeShape
            BY <3>1, <3>2, <3>3, <3>5 DEF NodeShape
        <3> QED
            BY <2>3, <3>6
    <2>8. node'[f].slot # NoSlot
        BY <2>4, SectorShape DEF NoSlot
    <2>9. ASSUME NEW t \in Sectors, NEW j \in Slots, Names(f, t, j)
          PROVE  \/ node'[f].slot = [ts |-> t, offset |-> j * 32]
                 \/ Astray(node'[f].slot)
        <3>1. Names(f, s, i)
            BY <1>7, <2>1 DEF Names
        <3>2. t = s /\ j = i
            BY <2>9, <3>1 DEF EntryInv
        <3>3. CASE i = 0
            <4>1. i * 20 = j * 32
                BY <3>2, <3>3
            <4> QED
                BY <2>4, <3>2, <4>1
        <3>4. CASE i # 0
            <4>1. \A k \in 0 .. 7 : i * 20 # k * 32
                BY <2>5, <3>4
            <4>2. node'[f].slot.offset = i * 20
                BY <2>4
            <4>3. \A k \in Slots : k \in 0 .. 7
                BY <2>5
            <4> QED
                BY <4>1, <4>2, <4>3 DEF Astray
        <3> QED
            BY <3>3, <3>4
    <2> QED
        BY <2>7, <2>8, <2>9
<1>8. ASSUME NEW f \in Files, \A x \in InUse : EntryAt(x).file # f PROVE node'[f] \in NodeShape
    <2>1. node'[f] = NewNode(<<>>)
        BY <1>1, <1>8
    <2>2. <<>> \in Paths /\ <<>> \in Content
        <3>1. <<>> \in Seq(Piece) /\ Len(<<>>) <= MaxPieces
            BY BoundsAssumption
        <3>2. <<>> \in Paths
            BY DEF Paths, IsInjective
        <3> QED
            BY <3>1, <3>2, ContentShape
    <2>3. NewNode(<<>>) \in NodeShape
        BY <2>2, BoundsAssumption DEF NewNode, NodeShape
    <2> QED
        BY <2>1, <2>3
<1>9. node' \in [Files -> NodeShape]
    <2>1. \A f \in Files : node'[f] \in NodeShape
        BY <1>7, <1>8
    <2> QED
        BY <1>1, <2>1
<1>10. /\ nodes' \in Seq(Files) /\ IsInjective(nodes')
       /\ \A f \in Range(nodes') : f \in Files /\ \E x \in InUse : EntryAt(x).file = f
    <2>1. \A j \in 1 .. N : SlotAt(j) \in InUse /\ nodes'[j] = EntryAt(SlotAt(j)).file
        BY <1>1, <1>2
    <2>2. \A x \in InUse : EntryAt(x).file \in Files
        BY <1>4 DEF EntryType
    <2>3. nodes' \in [1 .. N -> Files]
        BY <1>1, <2>1, <2>2
    <2>4. nodes' \in Seq(Files) /\ DOMAIN nodes' = 1 .. N
        BY <1>2, <2>3
    <2>5. \A j, k \in 1 .. N : nodes'[j] = nodes'[k] => j = k
        BY <1>2, <1>5, <2>1
    <2>6. IsInjective(nodes')
        BY <2>4, <2>5 DEF IsInjective
    <2>7. \A f \in Range(nodes') : f \in Files /\ \E x \in InUse : EntryAt(x).file = f
        BY <2>1, <2>2, <2>4 DEF Range
    <2> QED
        BY <2>4, <2>6, <2>7
<1>11. ShapeInv'
    BY <1>1, <1>9, <1>10 DEF ShapeInv
<1>12. \A f, s, i : Names(f, s, i)' <=> Names(f, s, i)
    BY <1>1 DEF Names
<1>13. EntryInv'
    <2>1. ASSUME NEW f \in Range(nodes') PROVE version'[f] # 0
        <3>1. PICK x \in InUse : f \in Files /\ EntryAt(x).file = f
            BY <1>10
        <3>2. PICK s \in Sectors, i \in Slots : EntryAt(x) = entries[s][i] /\ entries[s][i] \in EntryType
            BY <1>4
        <3>3. Names(f, s, i)
            BY <3>1, <3>2 DEF Names
        <3> QED
            BY <1>1, <3>1, <3>3 DEF EntryInv
    <2>2. ASSUME NEW f \in Range(nodes'), NEW s \in Sectors, NEW i \in Slots, Names(f, s, i)
          PROVE  \/ node'[f].slot = [ts |-> s, offset |-> i * 32]
                 \/ node'[f].slot # NoSlot /\ Astray(node'[f].slot)
        BY <1>7, <1>10, <2>2
    <2>3. \A f \in Files, s \in Sectors, i \in Slots : Names(f, s, i) => version'[f] # 0
        BY <1>1 DEF EntryInv
    <2>4. \A f \in Files, s, t \in Sectors, i, j \in Slots :
              Names(f, s, i) /\ Names(f, t, j) => s = t /\ i = j
        BY DEF EntryInv
    <2> QED
        BY <1>12, <2>1, <2>2, <2>3, <2>4 DEF EntryInv, Astray
<1> QED
    BY <1>11, <1>13

\* Taking and giving back keep the shape of a map.
LEMMA FreedShape ==
    ASSUME NEW b \in BamType, NEW S
    PROVE  FreeSectors(b, S) \in BamType /\ UseSectors(b, S) \in BamType
<1>1. b.free \in SUBSET Sectors /\ b.count \in [Tracks -> 0 .. 255]
    BY DEF BamType
<1>2. ASSUME NEW t \in Tracks, NEW R \in SUBSET Sectors
      PROVE  /\ (b.count[t] + Cardinality(OnTrack(R, t))) % 256 \in 0 .. 255
             /\ (b.count[t] + 256 - Cardinality(OnTrack(R, t))) % 256 \in 0 .. 255
    <2>1. PICK x \in 0 .. 255, y \in 0 .. 40 : x = b.count[t] /\ y = Cardinality(OnTrack(R, t))
        BY <1>1, TrackBound
    <2>2. (x + y) % 256 \in 0 .. 255 /\ (x + 256 - y) % 256 \in 0 .. 255
        OBVIOUS
    <2> QED
        BY <2>1, <2>2
<1>3. FreeSectors(b, S) \in BamType
    <2>1. (S \cap Sectors) \ b.free \in SUBSET Sectors
        OBVIOUS
    <2>2. [t \in Tracks |-> (b.count[t] + Cardinality(OnTrack((S \cap Sectors) \ b.free, t))) % 256]
             \in [Tracks -> 0 .. 255]
        BY <1>2, <2>1
    <2> QED
        BY <1>1, <2>2 DEF FreeSectors, BamType
<1>4. UseSectors(b, S) \in BamType
    <2>1. S \cap b.free \in SUBSET Sectors
        BY <1>1
    <2>2. [t \in Tracks |-> (b.count[t] + 256 - Cardinality(OnTrack(S \cap b.free, t))) % 256]
             \in [Tracks -> 0 .. 255]
        BY <1>2, <2>1
    <2> QED
        BY <1>1, <2>2 DEF UseSectors, BamType
<1> QED
    BY <1>3, <1>4

\* The file a save is at is one of the directory.
LEMMA AtNode ==
    ASSUME ShapeInv, at \in Nat \ {0}, at <= Len(nodes)
    PROVE  /\ Current \in Files /\ Current \in Range(nodes) /\ node[Current] \in NodeShape
           /\ Len(node[Current].content) \in Nat /\ node[Current].chain \in Paths
<1>1. nodes \in Seq(Files) /\ at \in 1 .. Len(nodes)
    BY DEF ShapeInv
<1>2. Current \in Files /\ Current \in Range(nodes)
    BY <1>1 DEF Current, Range
<1>3. node[Current] \in NodeShape
    BY <1>2 DEF ShapeInv
<1>4. node[Current].content \in Content /\ node[Current].chain \in Paths
    BY <1>3 DEF NodeShape
<1>5. Len(node[Current].content) \in Nat
    BY <1>4, ContentShape
<1> QED
    BY <1>2, <1>3, <1>4, <1>5

\* The place filesystemFindFreeIndex finds is in the directory and unused.
LEMMA ShapeFind ==
    ASSUME ShapeInv, EntryInv, FindIndex
    PROVE  ShapeInv' /\ EntryInv'
<1>1. PICK d \in 1 .. Len(Directory) :
          /\ SlotsIn(Directory[d], TRUE) # {}
          /\ node' = Update(Current, "slot", FirstOf(SlotsIn(Directory[d], TRUE)))
    BY DEF FindIndex
<1>2. PICK s \in Sectors : s = Directory[d]
    <2>1. Directory \in Paths
        BY DirectoryPath
    <2> QED
        BY <2>1, PathShape
<1> DEFINE found == SlotsIn(s, TRUE)
<1>3. ASSUME NEW x \in found PROVE x.offset \in Nat /\ x.ts = s /\ x = [ts |-> s, offset |-> x.offset]
    <2>1. PICK i \in Slots : x = [ts |-> s, offset |-> i * 32]
        BY DEF SlotsIn
    <2>2. i \in Nat
        BY EntryAssumption DEF Slots
    <2> QED
        BY <2>1, <2>2
<1> HIDE DEF found
<1>4. FirstOf(found) \in found
    <2> DEFINE offsets == {x.offset : x \in found}
    <2>1. offsets \in SUBSET Nat /\ offsets # {}
        BY <1>1, <1>2, <1>3 DEF found
    <2>2. PICK k \in offsets : \A m \in offsets : k <= m
        BY <2>1, LeastNatural
    <2>3. \E x \in found : \A y \in found : x.offset <= y.offset
        BY <2>2
    <2> QED
        BY <2>3 DEF FirstOf
<1>5. PICK slot \in [ts : Sectors, offset : Nat] : slot = FirstOf(found)
    BY <1>3, <1>4
<1>6. PICK f : f = Current
    OBVIOUS
<1>7. /\ pc = "save" /\ at \in Nat \ {0} /\ at <= Len(nodes) /\ node[f].slot = NoSlot
    BY <1>6 DEF FindIndex, Saving, ShapeInv
<1>8. f \in Files /\ f \in Range(nodes) /\ node[f] \in NodeShape
    BY <1>6, <1>7, AtNode
<1>9. node' = [node EXCEPT ![f] = [node[f] EXCEPT !.slot = slot]]
    BY <1>1, <1>2, <1>5, <1>6, <1>8 DEF Update, ShapeInv, found
<1>10. [node[f] EXCEPT !.slot = slot] \in NodeShape
    BY <1>8 DEF NodeShape
<1>11. /\ node' \in [Files -> NodeShape]
       /\ \A g \in Files : g # f => node'[g] = node[g]
    BY <1>8, <1>9, <1>10 DEF ShapeInv
<1>12. /\ nodes' = nodes /\ bam' = bam /\ diskBam' = diskBam /\ link' = link /\ entries' = entries
       /\ version' = version /\ pc' = pc /\ at' = at
    BY DEF FindIndex, source, history
<1>13. ShapeInv'
    BY <1>7, <1>11, <1>12 DEF ShapeInv
<1>14. \A g, t, i : Names(g, t, i)' <=> Names(g, t, i)
    BY <1>12 DEF Names
<1>15. \A t \in Sectors, i \in Slots : ~Names(f, t, i)
    <2> SUFFICES ASSUME NEW t \in Sectors, NEW i \in Slots, Names(f, t, i) PROVE FALSE
        OBVIOUS
    <2>1. node[f].slot = [ts |-> t, offset |-> i * 32]
        BY <1>7, <1>8 DEF EntryInv
    <2> QED
        BY <1>7, <2>1, SectorShape DEF NoSlot
<1>16. ASSUME NEW g \in Range(nodes), NEW t \in Sectors, NEW i \in Slots, Names(g, t, i)
       PROVE  \/ node'[g].slot = [ts |-> t, offset |-> i * 32]
              \/ node'[g].slot # NoSlot /\ Astray(node'[g].slot)
    <2>1. g \in Files /\ g # f
        BY <1>15, <1>16 DEF ShapeInv, Range
    <2>2. node'[g] = node[g]
        BY <1>11, <2>1
    <2> QED
        BY <1>16, <2>2 DEF EntryInv
<1>17. EntryInv'
    BY <1>12, <1>14, <1>16 DEF EntryInv, Astray
<1> QED
    BY <1>13, <1>17

\* A step of a save that leaves entries and places alone.
LEMMA ShapeMoves ==
    ASSUME ShapeInv, EntryInv,
           SkipClean \/ ExtendDirectory \/ DirectoryFull \/ NoSpace \/ DropContent
              \/ SaveDone \/ RemoveAgain
    PROVE  ShapeInv' /\ EntryInv'
<1>1. /\ nodes' = nodes /\ entries' = entries /\ version' = version
      /\ Range(nodes) \subseteq Files
    BY DEF SkipClean, ExtendDirectory, DirectoryFull, NoSpace, DropContent, SaveDone, RemoveAgain,
           image, source, history, ShapeInv, Range
<1>2. \A g, t, i : Names(g, t, i)' <=> Names(g, t, i)
    BY <1>1 DEF Names
<1>3. ASSUME \A g \in Files : node'[g].slot = node[g].slot PROVE EntryInv'
    <2>1. \A f \in Range(nodes) : version[f] # 0
        BY DEF EntryInv
    <2> QED
        BY <1>1, <1>2, <1>3, <2>1, EntriesStay
<1>4. CASE SkipClean \/ DirectoryFull \/ SaveDone
    <2>1. node' = node /\ link' = link /\ bam' = bam
        BY <1>4 DEF SkipClean, DirectoryFull, SaveDone, image, source
    <2>2. diskBam' \in BamType
        BY <1>4 DEF SkipClean, DirectoryFull, SaveDone, SavedMap, source, ShapeInv
    <2>3. \/ pc' = "save" /\ pc = "save" /\ at' = at + 1
          \/ pc' = "idle"
        BY <1>4 DEF SkipClean, DirectoryFull, SaveDone, NextNode
    <2>4. ShapeInv'
        BY <1>1, <2>1, <2>2, <2>3 DEF ShapeInv
    <2> QED
        BY <1>3, <2>1, <2>4
<1>5. CASE ExtendDirectory
    <2>1. /\ Extension \in Sectors /\ link' = [link EXCEPT ![Last(Directory)] = Extension]
          /\ node' = node /\ bam' = bam /\ diskBam' = diskBam /\ pc' = pc /\ at' = at
        BY <1>5 DEF ExtendDirectory, CanExtend, image
    <2>2. ShapeInv'
        BY <1>1, <2>1 DEF ShapeInv
    <2> QED
        BY <1>3, <2>1, <2>2
<1>6. <<>> \in Paths /\ 0 \in 0 .. MaxPieces
    BY BoundsAssumption DEF Paths, IsInjective
<1>7. CASE NoSpace
    <2>1. pc = "save" /\ at \in Nat \ {0} /\ at <= Len(nodes)
        BY <1>7 DEF NoSpace, Ready, Saving, ShapeInv
    <2>2. PICK f : f = Current
        OBVIOUS
    <2>3. f \in Files /\ node[f] \in NodeShape
        BY <2>1, <2>2, AtNode
    <2>4. /\ bam' = Released(node[f]) /\ node' = Update(f, "chain", <<>>)
          /\ link' = link /\ diskBam' = diskBam /\ pc' = pc /\ at' = at + 1
        BY <1>7, <2>2 DEF NoSpace, NextNode, source
    <2>5. node' = [node EXCEPT ![f] = [node[f] EXCEPT !.chain = <<>>]]
        BY <2>3, <2>4 DEF Update, ShapeInv
    <2>6. /\ [node[f] EXCEPT !.chain = <<>>] \in NodeShape
          /\ [node[f] EXCEPT !.chain = <<>>].slot = node[f].slot
        BY <1>6, <2>3 DEF NodeShape
    <2>7. node' \in [Files -> NodeShape] /\ \A g \in Files : node'[g].slot = node[g].slot
        BY <2>3, <2>5, <2>6 DEF ShapeInv
    <2>8. bam' \in BamType
        BY <2>4, FreedShape DEF Released, ShapeInv
    <2>9. ShapeInv'
        BY <1>1, <2>1, <2>4, <2>7, <2>8 DEF ShapeInv
    <2> QED
        BY <1>3, <2>7, <2>9
<1>8. CASE DropContent
    <2>1. pc = "save" /\ at \in Nat \ {0} /\ at <= Len(nodes)
        BY <1>8 DEF DropContent, Ready, Saving, ShapeInv
    <2>2. PICK f : f = Current
        OBVIOUS
    <2>3. f \in Files /\ node[f] \in NodeShape /\ node[f].slot # NoSlot
        BY <1>8, <2>1, <2>2, AtNode DEF DropContent, Ready
    <2>4. /\ bam' = FreeSectors(bam, Range(node[f].chain))
          /\ node' = [node EXCEPT ![f].chain = <<>>, ![f].size = 0]
          /\ link' = link /\ diskBam' = diskBam /\ pc' = "entry" /\ at' = at
        BY <1>8, <2>2 DEF DropContent, source
    <2>5. node' = [node EXCEPT ![f] = [[node[f] EXCEPT !.chain = <<>>] EXCEPT !.size = 0]]
        BY <2>3, <2>4 DEF ShapeInv
    <2>6. /\ [[node[f] EXCEPT !.chain = <<>>] EXCEPT !.size = 0] \in NodeShape
          /\ [[node[f] EXCEPT !.chain = <<>>] EXCEPT !.size = 0].slot = node[f].slot
          /\ [[node[f] EXCEPT !.chain = <<>>] EXCEPT !.size = 0].chain = <<>>
        BY <1>6, <2>3 DEF NodeShape
    <2>7. node' \in [Files -> NodeShape] /\ (\A g \in Files : node'[g].slot = node[g].slot)
          /\ node'[f].chain = <<>>
        BY <2>3, <2>5, <2>6 DEF ShapeInv
    <2>8. bam' \in BamType
        BY <2>4, FreedShape DEF ShapeInv
    <2>9. node'[nodes'[at']].slot # NoSlot /\ node'[nodes'[at']].chain = <<>>
        BY <1>1, <2>2, <2>3, <2>4, <2>7 DEF Current
    <2>10. ShapeInv'
        BY <1>1, <2>1, <2>4, <2>7, <2>8, <2>9 DEF ShapeInv
    <2> QED
        BY <1>3, <2>7, <2>10
<1>9. CASE RemoveAgain
    <2>1. pc = "remove" /\ at \in Files /\ node[at] \in NodeShape
        BY <1>9 DEF RemoveAgain, ShapeInv
    <2> DEFINE n == [[[node[at] EXCEPT !.chain = <<>>] EXCEPT !.size = 0] EXCEPT !.dirty = TRUE]
    <2>2. /\ bam' = FreeSectors(bam, Range(node[at].chain))
          /\ node' = [node EXCEPT ![at] = n]
          /\ link' = link /\ diskBam' = diskBam /\ pc' = pc /\ at' = at
        BY <1>9, <2>1 DEF RemoveAgain, source, NodeShape, ShapeInv
    <2>3. n \in NodeShape /\ n.slot = node[at].slot
        BY <1>6, <2>1 DEF NodeShape
    <2> HIDE DEF n
    <2>4. node' \in [Files -> NodeShape] /\ \A g \in Files : node'[g].slot = node[g].slot
        BY <2>1, <2>2, <2>3 DEF ShapeInv
    <2>5. bam' \in BamType
        BY <2>2, FreedShape DEF ShapeInv
    <2>6. ShapeInv'
        BY <1>1, <2>1, <2>2, <2>4, <2>5 DEF ShapeInv
    <2> QED
        BY <1>3, <2>4, <2>6
<1> QED
    BY <1>4, <1>5, <1>7, <1>8, <1>9

\* Sectors that are written are linked to sectors, and hold no entries.
LEMMA WrittenSectors ==
    ASSUME ShapeInv, NEW c \in Paths, NEW k \in 0 .. Len(c), NEW pieces, WriteSectors(c, k, pieces)
    PROVE  /\ link' \in [Sectors -> Sectors \cup {End}]
           /\ entries' \in [Sectors -> [Slots -> {Unused, Junk} \cup EntryType]]
           /\ \A f \in Files, s \in Sectors, i \in Slots : Names(f, s, i)' => Names(f, s, i)
<1> DEFINE written == {c[j] : j \in 1 .. k}
           place(s) == CHOOSE j \in 1 .. k : c[j] = s
<1>1. /\ link' = [s \in Sectors |->
            IF s \notin written THEN link[s]
            ELSE IF place(s) = Len(c) THEN End ELSE c[place(s) + 1]]
      /\ \E look \in {Unused, Junk} :
            entries' = [s \in Sectors |->
                IF s \in written THEN [i \in Slots |-> look] ELSE entries[s]]
    BY DEF WriteSectors
<1>2. Len(c) \in Nat /\ \A j \in 1 .. Len(c) : c[j] \in Sectors
    BY PathShape
<1>3. ASSUME NEW s \in written
      PROVE  place(s) \in 1 .. k /\ (place(s) = Len(c) \/ c[place(s) + 1] \in Sectors)
    <2>1. place(s) \in 1 .. k
        BY <1>3
    <2> HIDE DEF place
    <2>2. place(s) # Len(c) => place(s) + 1 \in 1 .. Len(c)
        BY <1>2, <2>1
    <2> QED
        BY <1>2, <2>1, <2>2
<1> HIDE DEF place
<1>4. PICK look \in {Unused, Junk} :
          entries' = [s \in Sectors |->
              IF s \in written THEN [i \in Slots |-> look] ELSE entries[s]]
    BY <1>1
<1> HIDE DEF written
<1>5. link' \in [Sectors -> Sectors \cup {End}]
    BY <1>1, <1>3 DEF ShapeInv
<1>6. entries' \in [Sectors -> [Slots -> {Unused, Junk} \cup EntryType]]
    BY <1>4 DEF ShapeInv
<1>7. Unused \notin EntryType /\ Junk \notin EntryType
    BY SectorShape DEF Unused, Junk, EntryType
<1>8. ASSUME NEW f \in Files, NEW s \in Sectors, NEW i \in Slots, Names(f, s, i)' PROVE Names(f, s, i)
    <2>1. entries'[s][i] \in EntryType /\ entries'[s][i].file = f
        BY <1>8 DEF Names
    <2>2. CASE s \in written
        <3>1. entries'[s][i] = look
            BY <1>4, <2>2
        <3> QED
            BY <1>7, <2>1, <3>1
    <2>3. CASE s \notin written
        <3>1. entries'[s][i] = entries[s][i]
            BY <1>4, <2>3
        <3> QED
            BY <2>1, <3>1 DEF Names
    <2> QED
        BY <2>2, <2>3
<1> QED
    BY <1>5, <1>6, <1>8

\* The chain a content is written to is a path, the file's own or a found one.
LEMMA AllottedPath ==
    ASSUME ShapeInv, NEW n \in NodeShape
    PROVE  Allotted(n) \in Paths /\ Released(n) \in BamType
<1>1. n.chain \in Paths /\ n.content \in Content
    BY DEF NodeShape
<1>2. Len(n.content) \in Nat
    BY <1>1, ContentShape
<1>3. Released(n) \in BamType
    BY FreedShape DEF Released, ShapeInv
<1> QED
    BY <1>1, <1>2, <1>3, FoundPath DEF Allotted

\* A content is written, all of it or until it runs out.
LEMMA ShapeWrites ==
    ASSUME ShapeInv, EntryInv, WriteContent \/ ContentRunsOut
    PROVE  ShapeInv' /\ EntryInv'
<1>1. /\ pc = "save" /\ at \in Nat \ {0} /\ at <= Len(nodes) /\ node[Current].slot # NoSlot
    BY DEF WriteContent, ContentRunsOut, Ready, Saving, ShapeInv
<1>2. PICK f : f = Current
    OBVIOUS
<1>3. /\ f \in Files /\ node[f] \in NodeShape /\ node[f].slot # NoSlot /\ Range(nodes) \subseteq Files
    BY <1>1, <1>2, AtNode DEF ShapeInv, Range
<1>4. PICK n \in NodeShape : n = node[f]
    BY <1>3
<1>5. PICK len : len = Len(n.content)
    OBVIOUS
<1>6. n.content \in Seq(Piece) /\ len \in Nat /\ len <= MaxPieces
    BY <1>5, ContentShape DEF NodeShape
<1>7. PICK chain \in Paths : chain = Allotted(n)
    BY AllottedPath
<1>8. Len(chain) \in Nat
    BY PathShape
<1>9. \A f2 \in Range(nodes) : version[f2] # 0
    BY DEF EntryInv
<1>10. CASE WriteContent
    <2>1. /\ Len(chain) \in 1 .. len
          /\ bam' = UseSectors(Released(n), IF n.size # len THEN Range(chain) ELSE {})
          /\ WriteSectors(chain, Len(chain), n.content)
          /\ node' = [node EXCEPT ![f] =
                [@ EXCEPT !.chain = chain, !.size = len,
                          !.content = SubSeq(n.content, Len(chain) + 1, len)]]
          /\ pc' = "entry" /\ nodes' = nodes /\ diskBam' = diskBam /\ at' = at /\ version' = version
        BY <1>2, <1>4, <1>5, <1>7, <1>10 DEF WriteContent
    <2>2. PICK rest : rest = SubSeq(n.content, Len(chain) + 1, len)
        OBVIOUS
    <2>3. rest \in Content
        <3>1. Len(chain) + 1 \in Int /\ len \in Int
              /\ \A j \in Len(chain) + 1 .. len : n.content[j] \in Piece
            <4>1. \A j \in Len(chain) + 1 .. len : j \in 1 .. Len(n.content)
                BY <1>5, <1>6, <1>8
            <4>2. \A j \in 1 .. Len(n.content) : n.content[j] \in Piece
                BY <1>6
            <4> QED
                BY <1>6, <1>8, <4>1, <4>2
        <3>2. /\ rest \in Seq(Piece)
              /\ Len(rest) = IF Len(chain) + 1 <= len THEN len - (Len(chain) + 1) + 1 ELSE 0
            BY <2>2, <3>1, SubSeqProperties
        <3>3. Len(rest) <= MaxPieces
            BY <1>6, <1>8, <3>2, BoundsAssumption
        <3> QED
            BY <3>2, <3>3, ContentShape
    <2> DEFINE m == [[[n EXCEPT !.chain = chain] EXCEPT !.size = len] EXCEPT !.content = rest]
    <2>4. node' = [node EXCEPT ![f] = m]
        BY <1>3, <1>4, <2>1, <2>2 DEF ShapeInv
    <2>5. len \in 0 .. MaxPieces /\ len # 0
        BY <1>6, <1>8, <2>1
    <2>6. m \in NodeShape /\ m.slot = n.slot /\ m.size = len
        BY <2>3, <2>5 DEF NodeShape
    <2> HIDE DEF m
    <2>7. /\ node' \in [Files -> NodeShape]
          /\ \A g \in Files : node'[g].slot = node[g].slot
          /\ node'[f].size # 0
        BY <1>3, <1>4, <2>4, <2>5, <2>6 DEF ShapeInv
    <2>8. /\ link' \in [Sectors -> Sectors \cup {End}]
          /\ entries' \in [Sectors -> [Slots -> {Unused, Junk} \cup EntryType]]
          /\ \A g \in Files, s \in Sectors, i \in Slots : Names(g, s, i)' => Names(g, s, i)
        <3>1. Len(chain) \in 0 .. Len(chain)
            BY <1>8
        <3> QED
            BY <2>1, <3>1, WrittenSectors
    <2>9. bam' \in BamType
        BY <2>1, AllottedPath, FreedShape
    <2>10. node'[nodes'[at']].slot # NoSlot /\ node'[nodes'[at']].size # 0
        BY <1>2, <1>3, <2>1, <2>7 DEF Current
    <2>11. ShapeInv'
        BY <1>1, <2>1, <2>7, <2>8, <2>9, <2>10 DEF ShapeInv
    <2>12. EntryInv'
        BY <1>3, <1>9, <2>1, <2>7, <2>8, EntriesStay
    <2> QED
        BY <2>11, <2>12
<1>11. CASE ContentRunsOut
    <2>1. /\ Len(chain) > len /\ WriteSectors(chain, len, n.content)
          /\ pc' = "crashed" /\ bam' = bam /\ nodes' = nodes /\ node' = node
          /\ diskBam' = diskBam /\ at' = at /\ version' = version
        BY <1>2, <1>4, <1>5, <1>7, <1>11 DEF ContentRunsOut, image, history
    <2>2. len \in 0 .. Len(chain)
        BY <1>6, <1>8, <2>1
    <2>3. /\ link' \in [Sectors -> Sectors \cup {End}]
          /\ entries' \in [Sectors -> [Slots -> {Unused, Junk} \cup EntryType]]
          /\ \A g \in Files, s \in Sectors, i \in Slots : Names(g, s, i)' => Names(g, s, i)
        BY <2>1, <2>2, WrittenSectors
    <2>4. ShapeInv'
        BY <2>1, <2>3 DEF ShapeInv
    <2>5. EntryInv'
        BY <1>3, <1>9, <2>1, <2>3, EntriesStay
    <2> QED
        BY <2>4, <2>5
<1> QED
    BY <1>10, <1>11

\* filesystemEntrySave writes the file's own entry, over its old one if it has
\* one, or spoils others.
LEMMA ShapeEntry ==
    ASSUME ShapeInv, EntryInv, SaveEntry
    PROVE  ShapeInv' /\ EntryInv'
<1>1. pc = "entry" /\ at \in Nat \ {0} /\ at <= Len(nodes)
    BY DEF SaveEntry, ShapeInv
<1>2. PICK f : f = Current
    OBVIOUS
<1>3. /\ f \in Files /\ f \in Range(nodes) /\ node[f] \in NodeShape /\ Range(nodes) \subseteq Files
    BY <1>1, <1>2, AtNode DEF ShapeInv, Range
<1>4. PICK n \in NodeShape : n = node[f]
    BY <1>3
<1>5. /\ n.slot # NoSlot /\ n.slot.ts \in Sectors /\ n.slot.offset \in Nat
      /\ n.chain # <<>> => n.size # 0
    <2>1. n.slot # NoSlot /\ (n.chain # <<>> => n.size # 0)
        BY <1>1, <1>2, <1>4 DEF ShapeInv, Current
    <2>2. n.slot \in [ts : Sectors, offset : Nat] \cup {NoSlot}
        BY DEF NodeShape
    <2> QED
        BY <2>1, <2>2
<1>6. PICK new : new = IF n.chain = <<>> THEN Unused
                       ELSE [file |-> f, start |-> n.chain[1], size |-> n.size]
    OBVIOUS
<1>7. /\ entries' = WithEntry(n.slot, new) /\ node' = Update(f, "dirty", FALSE)
      /\ nodes' = nodes /\ bam' = bam /\ link' = link /\ diskBam' = diskBam /\ version' = version
      /\ pc' = "save" /\ at' = at + 1
    BY <1>2, <1>4, <1>6 DEF SaveEntry, NextNode, history
<1>8. new = Unused \/ (new \in EntryType /\ new.file = f)
    <2>1. CASE n.chain = <<>>
        BY <1>6, <2>1
    <2>2. CASE n.chain # <<>>
        <3>1. n.chain \in Paths /\ n.size \in 0 .. MaxPieces
            BY DEF NodeShape
        <3>2. n.chain[1] \in Sectors
            <4>1. n.chain \in Seq(Sectors)
                BY <3>1 DEF Paths
            <4> QED
                BY <2>2, <4>1, EmptySeq
        <3>3. n.size \in 1 .. MaxPieces
            BY <1>5, <2>2, <3>1
        <3>4. new = [file |-> f, start |-> n.chain[1], size |-> n.size]
            BY <1>6, <2>2
        <3> QED
            BY <1>3, <3>2, <3>3, <3>4 DEF EntryType
    <2> QED
        BY <2>1, <2>2
<1> DEFINE s == n.slot.ts
<1>9. /\ \A i \in Slots : entries'[s][i] = After(i, n.slot.offset, entries[s][i], new)
      /\ \A t \in Sectors : t # s => entries'[t] = entries[t]
      /\ entries' \in [Sectors -> [Slots -> {Unused, Junk} \cup EntryType]]
    <2>1. entries' = [entries EXCEPT ![s] =
              [i \in Slots |-> After(i, n.slot.offset, entries[s][i], new)]]
        BY <1>7 DEF WithEntry
    <2>2. \A i \in Slots : After(i, n.slot.offset, entries[s][i], new) \in {Unused, Junk} \cup EntryType
        <3>1. \A i \in Slots : entries[s][i] \in {Unused, Junk} \cup EntryType
            BY <1>5 DEF ShapeInv
        <3> QED
            BY <1>8, <3>1 DEF After
    <2> QED
        BY <1>5, <2>1, <2>2 DEF ShapeInv
<1> HIDE DEF s
<1>10. Unused \notin EntryType /\ Junk \notin EntryType
    BY SectorShape DEF Unused, Junk, EntryType
<1>11. ASSUME NEW g \in Files, NEW t \in Sectors, NEW i \in Slots, Names(g, t, i)'
       PROVE  Names(g, t, i) \/ (g = f /\ t = s /\ n.slot.offset = i * 32)
    <2>1. entries'[t][i] \in EntryType /\ entries'[t][i].file = g
        BY <1>11 DEF Names
    <2>2. CASE t # s
        <3>1. entries'[t][i] = entries[t][i]
            BY <1>9, <2>2
        <3> QED
            BY <2>1, <3>1 DEF Names
    <2>3. CASE t = s
        <3>1. entries'[t][i] = After(i, n.slot.offset, entries[t][i], new)
            BY <1>9, <2>3
        <3>2. CASE n.slot.offset = i * 32
            <4>1. entries'[t][i] = new
                BY <3>1, <3>2 DEF After
            <4> QED
                BY <1>8, <1>10, <2>1, <2>3, <3>2, <4>1
        <3>3. CASE n.slot.offset # i * 32
            <4>1. entries'[t][i] = entries[t][i] \/ entries'[t][i] = Junk
                BY <3>1, <3>3 DEF After
            <4> QED
                BY <1>10, <2>1, <4>1 DEF Names
        <3> QED
            BY <3>2, <3>3
    <2> QED
        BY <2>2, <2>3
<1>12. \A t \in Sectors, i \in Slots : Names(f, t, i) =>
          \/ n.slot = [ts |-> t, offset |-> i * 32]
          \/ Astray(n.slot)
    BY <1>3, <1>4 DEF EntryInv
<1>13. ASSUME NEW t \in Sectors, NEW i \in Slots, Names(f, t, i), \E k \in Slots : n.slot.offset = k * 32
       PROVE  t = s /\ n.slot.offset = i * 32
    <2>1. ~Astray(n.slot)
        BY <1>13 DEF Astray
    <2>2. n.slot = [ts |-> t, offset |-> i * 32]
        BY <1>12, <1>13, <2>1
    <2> QED
        BY <2>2 DEF s
<1>14. \A i, j \in Slots : i * 32 = j * 32 => i = j
    <2>1. \A i \in Slots : i \in Nat
        BY EntryAssumption DEF Slots
    <2> QED
        BY <2>1
<1>15. /\ node' \in [Files -> NodeShape]
       /\ \A g \in Files : node'[g].slot = node[g].slot
    <2>1. node' = [node EXCEPT ![f] = [n EXCEPT !.dirty = FALSE]]
        BY <1>3, <1>4, <1>7 DEF Update, ShapeInv
    <2>2. [n EXCEPT !.dirty = FALSE] \in NodeShape /\ [n EXCEPT !.dirty = FALSE].slot = n.slot
        BY DEF NodeShape
    <2> QED
        BY <1>3, <1>4, <2>1, <2>2 DEF ShapeInv
<1>16. ShapeInv'
    <2>1. entries' \in [Sectors -> [Slots -> {Unused, Junk} \cup EntryType]]
        BY <1>9
    <2>2. node' \in [Files -> NodeShape]
        BY <1>15
    <2>3. at' = at + 1
        BY <1>7
    <2>4. at' \in Nat \ {0}
        BY <1>1, <2>3
    <2> QED
        BY <1>7, <2>1, <2>2, <2>4 DEF ShapeInv
<1>17. ASSUME NEW g \in Files, NEW t \in Sectors, NEW u \in Sectors, NEW i \in Slots, NEW j \in Slots,
              Names(g, t, i)', Names(g, u, j)'
       PROVE  t = u /\ i = j
    <2>1. CASE Names(g, t, i) /\ Names(g, u, j)
        BY <2>1 DEF EntryInv
    <2>2. CASE ~Names(g, t, i)
        <3>1. g = f /\ t = s /\ n.slot.offset = i * 32
            BY <1>11, <1>17, <2>2
        <3>2. u = s /\ n.slot.offset = j * 32
            BY <1>11, <1>13, <1>17, <3>1
        <3> QED
            BY <1>14, <3>1, <3>2
    <2>3. CASE ~Names(g, u, j)
        <3>1. g = f /\ u = s /\ n.slot.offset = j * 32
            BY <1>11, <1>17, <2>3
        <3>2. t = s /\ n.slot.offset = i * 32
            BY <1>11, <1>13, <1>17, <3>1
        <3> QED
            BY <1>14, <3>1, <3>2
    <2> QED
        BY <2>1, <2>2, <2>3
<1>18. ASSUME NEW g \in Files, NEW t \in Sectors, NEW i \in Slots, Names(g, t, i)' PROVE version[g] # 0
    BY <1>3, <1>11, <1>18 DEF EntryInv
<1>19. ASSUME NEW g \in Range(nodes), NEW t \in Sectors, NEW i \in Slots, Names(g, t, i)'
       PROVE  \/ node'[g].slot = [ts |-> t, offset |-> i * 32]
              \/ node'[g].slot # NoSlot /\ Astray(node'[g].slot)
    <2>1. g \in Files /\ node'[g].slot = node[g].slot
        BY <1>3, <1>15
    <2>2. CASE Names(g, t, i)
        BY <2>1, <2>2 DEF EntryInv
    <2>3. CASE g = f /\ t = s /\ n.slot.offset = i * 32
        <3>1. n.slot \in [ts : Sectors, offset : Nat]
            BY <1>5 DEF NodeShape
        <3>2. n.slot = [ts |-> n.slot.ts, offset |-> n.slot.offset]
            BY <3>1
        <3> QED
            BY <1>4, <2>1, <2>3, <3>2 DEF s
    <2> QED
        BY <1>11, <1>19, <2>1, <2>2, <2>3
<1>20. EntryInv'
    <2>1. \A g \in Range(nodes) : version[g] # 0
        BY DEF EntryInv
    <2> QED
        BY <1>7, <1>17, <1>18, <1>19, <2>1 DEF EntryInv, Astray
<1> QED
    BY <1>16, <1>20

\* Every step keeps shapes and entries.
LEMMA ShapeStep == ShapeInv /\ EntryInv /\ [Next]_vars => ShapeInv' /\ EntryInv'
<1> SUFFICES ASSUME ShapeInv, EntryInv, [Next]_vars
             PROVE  ShapeInv' /\ EntryInv'
    OBVIOUS
<1>1. CASE Format \/ Add \/ SetContent \/ Rename \/ Read \/ RemoveFile
    BY <1>1, ShapeCalls
<1>2. CASE Load
    BY <1>2, ShapeLoad
<1>3. CASE FindIndex
    BY <1>3, ShapeFind
<1>4. CASE SkipClean \/ ExtendDirectory \/ DirectoryFull \/ NoSpace \/ DropContent
              \/ SaveDone \/ RemoveAgain
    BY <1>4, ShapeMoves
<1>5. CASE WriteContent \/ ContentRunsOut
    BY <1>5, ShapeWrites
<1>6. CASE SaveEntry
    BY <1>6, ShapeEntry
<1>7. CASE Crashed \/ UNCHANGED vars
    <2>1. UNCHANGED vars
        BY <1>7 DEF Crashed
    <2> QED
        BY <2>1 DEF vars, ShapeInv, EntryInv, Names
<1> QED
    BY <1>1, <1>2, <1>3, <1>4, <1>5, <1>6, <1>7 DEF Next, Running

\* Whatever the client does, with a full disk, a full directory and one that runs
\* through content, chains have no sector twice, links and entries lead to sectors
\* of the disk, and the directory never lists a file twice (d64.hpp:65-100).
THEOREM ShapesKept == Spec => []TypeOK
<1>1. Init => ShapeInv /\ EntryInv
    BY ShapeInit
<1>2. ShapeInv /\ EntryInv /\ [Next]_vars => ShapeInv' /\ EntryInv'
    BY ShapeStep
<1>3. ShapeInv => TypeOK
    <2> SUFFICES ASSUME ShapeInv PROVE TypeOK
        OBVIOUS
    <2>1. Range(nodes) \subseteq Files
        BY DEF ShapeInv, Range
    <2>2. ASSUME NEW f \in Files
          PROVE  /\ node[f].dirty \in BOOLEAN
                 /\ node[f].content \in Content
                 /\ IsInjective(node[f].chain) /\ Range(node[f].chain) \subseteq Sectors
                 /\ node[f].size \in 0 .. MaxPieces
                 /\ node[f].slot # NoSlot => node[f].slot.ts \in Sectors
        <3>1. node[f] \in NodeShape
            BY DEF ShapeInv
        <3>2. node[f].chain \in Paths
            BY <3>1 DEF NodeShape
        <3>3. IsInjective(node[f].chain) /\ Range(node[f].chain) \subseteq Sectors
            BY <3>2, PathShape
        <3> QED
            BY <3>1, <3>3 DEF NodeShape
    <2>3. \A s \in Sectors, i \in Slots :
              entries[s][i] \in {Unused, Junk} \cup [file : Files, start : Sectors, size : 1 .. MaxPieces]
        BY DEF ShapeInv, EntryType
    <2> QED
        BY <2>1, <2>2, <2>3 DEF TypeOK, ShapeInv
<1> QED
    BY <1>1, <1>2, <1>3, PTL DEF Spec

-----------------------------------------------------------------------------
(***************************************************************************)
(* What a D64 disk with room for its files promises: the properties of the *)
(* run d64_fresh, for every layout, every number of files and every size.  *)
(*                                                                         *)
(* The hypothesis is Uncrowded: files are made, given content, loaded and  *)
(* read; they fit into the first sector of the directory and, all of their *)
(* longest, onto the disk; and the header is one of the map's sectors.     *)
(* Each part is one the code needs.  A renamed or removed file, content    *)
(* for one that was loaded, a full disk and the header of a D81 are the    *)
(* hazards of d64.cpp that break these properties.                         *)
(*                                                                         *)
(* A file is seen four times: as a node, as an entry, as links of sectors  *)
(* and as bits of the map.  None of them determines the others: a loaded   *)
(* node knows one sector of its chain, and a new one has no entry yet.     *)
(* The invariant therefore names what they are copies of, the chain `own'  *)
(* of each file and the index `home' of its entry, and says how far each   *)
(* copy agrees with these at each step of a save.                          *)
(***************************************************************************)

-----------------------------------------------------------------------------
(* Files that are made, given content, loaded and read on a disk with room  *)
(* for them: what holds between any two steps, with own the chain of each   *)
(* file and home the index of its entry in the first sector of the          *)
(* directory.                                                               *)

Uncrowded ==
    /\ Ops \subseteq {"add", "content", "load", "read"}
    /\ IsFiniteSet(Files) /\ Cardinality(Files) <= EntryCount
    /\ HeaderSector \in BamSectors
    /\ Cardinality({DirStart} \cup BamSectors) + Cardinality(Files) * MaxPieces
         <= Cardinality(Sectors)

Reserved == {DirStart} \cup BamSectors
Texts == Seq(Files \X Nat \X Nat)
NoHome == EntryCount
Homes == [Files -> Slots \cup {NoHome}]
Owned(own) == UNION {Range(own[f]) : f \in Files}
EntryOf(own, f) == [file |-> f, start |-> own[f][1], size |-> Len(own[f])]
SlotOf(offset) == [ts |-> DirStart, offset |-> offset]

\* The file a save is at, and one whose entry is about to be written.
AtWork(f) == pc # "idle" /\ at \in 1 .. Len(nodes) /\ f = nodes[at]
Pending(f) == pc = "entry" /\ f = nodes[at]

NodeType == [dirty : BOOLEAN, content : Texts, chain : Paths, size : Nat,
             slot : [ts : Sectors \cup {End}, offset : Nat], loaded : BOOLEAN]
Shapes ==
    /\ node \in [Files -> NodeType]
    /\ nodes \in Seq(Files) /\ IsInjective(nodes)
    /\ version \in [Files -> Nat]
    /\ DOMAIN stored = Files
    /\ DOMAIN link = Sectors /\ DOMAIN piece = Sectors /\ DOMAIN entries = Sectors

\* Each file has a chain of its own, which holds what was stored.
ChainsOf(own) ==
    /\ \A f \in Files : Range(own[f]) \cap Reserved = {}
    /\ \A f, g \in Files : f # g => Range(own[f]) \cap Range(own[g]) = {}
    /\ \A f \in Files : Len(own[f]) <= MaxPieces /\ Linked(own[f])
    /\ \A f \in Files : stored[f] = [j \in 1 .. Len(own[f]) |-> piece[own[f][j]]]

MapOf(own) ==
    /\ bam.free = Sectors \ (Reserved \cup Owned(own))
    /\ pc = "idle" => diskBam.free = bam.free

\* Each file has an entry of its own, up to date unless it is about to be written.
DirectoryOf(own, home) ==
    /\ link[DirStart] = End
    /\ \A i \in Slots : entries[DirStart][i] = Unused \/ \E f \in Files : home[f] = i
    /\ \A f \in Files : home[f] \in Slots =>
          /\ own[f] # <<>>
          /\ entries[DirStart][home[f]].file = f
          /\ entries[DirStart][home[f]].start \in Sectors
          /\ ~Pending(f) => entries[DirStart][home[f]] = EntryOf(own, f)
    /\ \A f \in Files : own[f] # <<>> /\ ~Pending(f) => home[f] \in Slots

\* A file that was loaded is as its entry says; one of this session has its
\* chain, and the place of its entry.
LoadedAs(own, home, f) ==
    /\ ~node[f].dirty
    /\ node[f].chain # <<>> /\ node[f].chain[1] = own[f][1]
    /\ node[f].slot = SlotOf(20 * home[f])
MadeAs(own, home, f) ==
    /\ node[f].chain = own[f] /\ node[f].size = Len(own[f])
    /\ home[f] \in Slots => node[f].slot = SlotOf(32 * home[f])
    /\ home[f] \notin Slots /\ node[f].slot # NoSlot =>
          /\ AtWork(f)
          /\ \E i \in Slots : node[f].slot = SlotOf(32 * i) /\ entries[DirStart][i] = Unused
    /\ Len(node[f].content) <= MaxPieces
    /\ node[f].dirty /\ ~Pending(f) => node[f].content # <<>>
NodesOf(own, home) ==
    /\ \A f \in Files : f \notin Range(nodes) => own[f] = <<>>
    /\ \A f \in Range(nodes) :
          /\ IF node[f].loaded THEN LoadedAs(own, home, f) ELSE MadeAs(own, home, f)
          /\ ~node[f].dirty => own[f] # <<>>

\* Files before the one a save is at are clean, all of them when there is none.
SaveOf ==
    /\ pc \in {"idle", "save", "entry"}
    /\ pc # "idle" => at \in Nat \ {0}
    /\ pc = "entry" => /\ at <= Len(nodes)
                       /\ node[nodes[at]].dirty /\ node[nodes[at]].slot # NoSlot
                       /\ node[nodes[at]].chain # <<>>
    /\ \A k \in 1 .. Len(nodes) : node[nodes[k]].dirty => pc # "idle" /\ k >= at

Sound(own, home) ==
    /\ Shapes
    /\ ChainsOf(own)
    /\ MapOf(own)
    /\ DirectoryOf(own, home)
    /\ NodesOf(own, home)
    /\ SaveOf

FilesInv == \E own \in [Files -> Paths], home \in Homes : Sound(own, home)

\* An empty disk has no chains and no entries.
LEMMA FilesInit == ASSUME Uncrowded, Init PROVE FilesInv
<1> DEFINE own == [f \in Files |-> <<>>]
           home == [f \in Files |-> NoHome]
<1>1. <<>> \in Paths /\ Len(<<>>) = 0 /\ Range(<<>>) = {} /\ <<>> \in Texts
    BY DEF Paths, IsInjective, Range, Texts
<1>2. own \in [Files -> Paths] /\ home \in Homes
    BY <1>1 DEF Homes
<1>3. /\ \A f \in Files : own[f] = <<>>
      /\ \A f \in Files : home[f] = NoHome /\ home[f] \notin Slots
    BY EntryAssumption DEF NoHome, Slots
<1> HIDE DEF own, home
<1>4. Shapes
    <2>1. NewNode(<<>>) \in NodeType
        BY <1>1 DEF NewNode, NoSlot, NodeType
    <2>2. nodes \in Seq(Files) /\ IsInjective(nodes)
        BY DEF Init, IsInjective
    <2> QED
        BY <2>1, <2>2 DEF Init, Shapes
<1>5. ChainsOf(own)
    <2>1. \A f \in Files : Range(own[f]) = {} /\ Len(own[f]) = 0 /\ Linked(own[f])
        BY <1>1, <1>3 DEF Linked
    <2>2. \A f \in Files : stored[f] = [j \in 1 .. Len(own[f]) |-> piece[own[f][j]]]
        BY <2>1 DEF Init
    <2>3. \A f \in Files : Len(own[f]) <= MaxPieces
        BY <2>1, BoundsAssumption
    <2>4. \A f \in Files : Range(own[f]) \cap Reserved = {}
        BY <2>1
    <2>5. \A f, g \in Files : f # g => Range(own[f]) \cap Range(own[g]) = {}
        BY <2>1
    <2> QED
        BY <2>1, <2>2, <2>3, <2>4, <2>5 DEF ChainsOf
<1>6. MapOf(own)
    <2>1. Owned(own) = {}
        BY <1>1, <1>3 DEF Owned
    <2>2. NewBam.free = Sectors \ Reserved
        BY DEF NewBam, UseSectors, FreeSectors, Reserved
    <2> QED
        BY <2>1, <2>2 DEF Init, MapOf
<1>7. DirectoryOf(own, home)
    <2>1. link[DirStart] = End /\ \A i \in Slots : entries[DirStart][i] = Unused
        BY GeometryAssumption DEF Init
    <2> QED
        BY <1>3, <2>1 DEF DirectoryOf
<1>8. nodes = <<>> /\ Range(nodes) = {} /\ Len(nodes) = 0
    BY <1>1 DEF Init
<1>9. NodesOf(own, home)
    BY <1>3, <1>8 DEF NodesOf
<1>10. SaveOf
    BY <1>8 DEF SaveOf, Init
<1> QED
    BY <1>2, <1>4, <1>5, <1>6, <1>7, <1>9, <1>10 DEF FilesInv, Sound

\* Nodes that are left alone are still as they were.
LEMMA NodeKept ==
    ASSUME NEW own, NEW home, NEW f, node'[f] = node[f],
           entries' = entries, AtWork(f) => AtWork(f)' \/ home[f] \in Slots,
           Pending(f)' <=> Pending(f)
    PROVE  /\ LoadedAs(own, home, f) => LoadedAs(own, home, f)'
           /\ MadeAs(own, home, f) => MadeAs(own, home, f)'
<1>1. LoadedAs(own, home, f) => LoadedAs(own, home, f)'
    BY DEF LoadedAs, SlotOf
<1>2. MadeAs(own, home, f) => MadeAs(own, home, f)'
    BY DEF MadeAs, SlotOf
<1> QED
    BY <1>1, <1>2

\* Between calls there is no file without an entry and a chain.
LEMMA IdleNodes ==
    ASSUME NEW own \in [Files -> Paths], NEW home \in Homes, Sound(own, home), pc = "idle"
    PROVE  /\ \A f \in Range(nodes) : ~node[f].dirty /\ own[f] # <<>>
           /\ \A f \in Files : f \in Range(nodes) <=> own[f] # <<>>
           /\ \A f \in Files : own[f] # <<>> <=> home[f] \in Slots
           /\ \A f : ~AtWork(f) /\ ~Pending(f)
<1>1. DOMAIN nodes = 1 .. Len(nodes) /\ Range(nodes) \subseteq Files
    BY DEF Sound, Shapes, Range
<1>2. \A f \in Range(nodes) : \E k \in 1 .. Len(nodes) : nodes[k] = f
    BY <1>1 DEF Range
<1>3. \A f \in Range(nodes) : ~node[f].dirty
    BY <1>2 DEF Sound, SaveOf
<1>4. \A f : ~AtWork(f) /\ ~Pending(f)
    BY DEF AtWork, Pending
<1>5. \A f \in Range(nodes) : own[f] # <<>>
    BY <1>3 DEF Sound, NodesOf
<1>6. \A f \in Files : f \notin Range(nodes) => own[f] = <<>>
    BY DEF Sound, NodesOf
<1>7. \A f \in Files : own[f] # <<>> <=> home[f] \in Slots
    BY <1>4 DEF Sound, DirectoryOf
<1> QED
    BY <1>3, <1>4, <1>5, <1>6, <1>7

\* What a file is given: at least one piece.
LEMMA PiecesShape ==
    ASSUME Uncrowded, NEW f \in Files, NEW v \in Nat, NEW n \in 1 .. MaxPieces
    PROVE  /\ Pieces(f, v, n) \in Texts /\ Pieces(f, v, n) # <<>>
           /\ Len(Pieces(f, v, n)) = n /\ n <= MaxPieces
<1> DEFINE text == Pieces(f, v, n)
<1>1. n \in Nat /\ n > 0 /\ n <= MaxPieces
    BY DEF Uncrowded
<1>2. text = [j \in 1 .. n |-> <<f, v, j>>]
    BY DEF Pieces
<1>3. \A j \in 1 .. n : <<f, v, j>> \in Files \X Nat \X Nat
    BY <1>1
<1>4. text \in [1 .. n -> Files \X Nat \X Nat]
    BY <1>2, <1>3
<1> HIDE DEF text
<1>5. text \in Texts /\ Len(text) = n
    BY <1>1, <1>4 DEF Texts
<1>6. text # <<>>
    BY <1>1, <1>5
<1> QED
    BY <1>1, <1>5, <1>6 DEF text

\* A new file has no chain and no entry yet.
LEMMA AddKeeps ==
    ASSUME Uncrowded, NEW own \in [Files -> Paths], NEW home \in Homes, Sound(own, home), Add
    PROVE  Sound(own, home)'
<1>1. PICK f \in Files : \E n \in 1 .. MaxPieces :
          /\ f \notin Range(nodes)
          /\ node' = [node EXCEPT ![f] = NewNode(Pieces(f, 1, n))]
          /\ nodes' = Append(nodes, f)
          /\ version' = [version EXCEPT ![f] = 1]
    BY DEF Add, Uncrowded
<1>2. PICK n \in 1 .. MaxPieces :
          /\ f \notin Range(nodes)
          /\ node' = [node EXCEPT ![f] = NewNode(Pieces(f, 1, n))]
          /\ nodes' = Append(nodes, f)
          /\ version' = [version EXCEPT ![f] = 1]
    BY <1>1
<1>3. /\ pc = "idle" /\ pc' = "save" /\ at' = 1
      /\ bam' = bam /\ diskBam' = diskBam /\ stored' = stored
      /\ link' = link /\ piece' = piece /\ entries' = entries
    BY DEF Add, Save, source
<1> DEFINE text == Pieces(f, 1, n)
<1>4. text \in Texts /\ Len(text) = n /\ text # <<>> /\ n <= MaxPieces
    BY PiecesShape
<1> HIDE DEF text
<1>5. /\ nodes \in Seq(Files) /\ IsInjective(nodes) /\ Len(nodes) \in Nat
      /\ DOMAIN nodes = 1 .. Len(nodes)
    BY DEF Sound, Shapes
<1>6. /\ nodes' \in Seq(Files) /\ Len(nodes') = Len(nodes) + 1 /\ nodes'[Len(nodes) + 1] = f
      /\ \A j \in 1 .. Len(nodes) : nodes'[j] = nodes[j]
    BY <1>2, <1>5, AppendProperties
<1>7. IsInjective(nodes') /\ Range(nodes') = Range(nodes) \cup {f}
    <2>1. DOMAIN nodes' = 1 .. Len(nodes) + 1
        BY <1>5, <1>6
    <2>2. \A k \in 1 .. Len(nodes) : nodes[k] # f
        BY <1>2, <1>5 DEF Range
    <2>3. ASSUME NEW i \in 1 .. Len(nodes) + 1, NEW j \in 1 .. Len(nodes) + 1,
                 nodes'[i] = nodes'[j]
          PROVE  i = j
        <3>1. CASE i \in 1 .. Len(nodes) /\ j \in 1 .. Len(nodes)
            BY <1>5, <1>6, <2>3, <3>1 DEF IsInjective
        <3>2. CASE i = Len(nodes) + 1 /\ j \in 1 .. Len(nodes)
            BY <1>6, <2>2, <2>3, <3>2
        <3>3. CASE j = Len(nodes) + 1 /\ i \in 1 .. Len(nodes)
            BY <1>6, <2>2, <2>3, <3>3
        <3> QED
            BY <1>5, <3>1, <3>2, <3>3
    <2>4. IsInjective(nodes')
        BY <2>1, <2>3 DEF IsInjective
    <2>5. \A k \in 1 .. Len(nodes) : k \in 1 .. Len(nodes) + 1
        BY <1>5
    <2>6. Range(nodes) \cup {f} \subseteq Range(nodes')
        BY <1>5, <1>6, <2>1, <2>5 DEF Range
    <2>7. Range(nodes') \subseteq Range(nodes) \cup {f}
        <3> SUFFICES ASSUME NEW k \in 1 .. Len(nodes) + 1
                     PROVE  nodes'[k] \in Range(nodes) \cup {f}
            BY <2>1 DEF Range
        <3>1. CASE k = Len(nodes) + 1
            BY <1>6, <3>1
        <3>2. CASE k \in 1 .. Len(nodes)
            BY <1>5, <1>6, <3>2 DEF Range
        <3> QED
            BY <1>5, <3>1, <3>2
    <2> QED
        BY <2>4, <2>6, <2>7
<1>8. /\ node'[f] = NewNode(text)
      /\ \A g \in Files : g # f => node'[g] = node[g]
    BY <1>2 DEF Sound, Shapes, text
<1>9. Shapes'
    <2>1. <<>> \in Paths
        BY DEF Paths, IsInjective
    <2>2. NewNode(text) \in NodeType
        BY <1>4, <2>1 DEF NewNode, NoSlot, NodeType
    <2>3. node' \in [Files -> NodeType]
        BY <1>2, <2>2 DEF Sound, Shapes, text
    <2>4. version' \in [Files -> Nat]
        BY <1>2 DEF Sound, Shapes
    <2> QED
        BY <1>3, <1>6, <1>7, <2>3, <2>4 DEF Sound, Shapes
<1>10. ChainsOf(own)' /\ MapOf(own)'
    BY <1>3 DEF Sound, ChainsOf, MapOf, Linked
<1>11. ~Pending(f)' /\ \A g : ~Pending(g) /\ ~Pending(g)' /\ ~AtWork(g)
    BY <1>3 DEF Pending, AtWork
<1>12. DirectoryOf(own, home)'
    BY <1>3, <1>11 DEF Sound, DirectoryOf, EntryOf
<1>13. own[f] = <<>> /\ home[f] \notin Slots
    BY <1>2, <1>3, IdleNodes
<1>14. MadeAs(own, home, f)' /\ ~node'[f].loaded /\ node'[f].dirty
    <2>1. /\ node'[f].chain = <<>> /\ node'[f].size = 0 /\ node'[f].slot = NoSlot
          /\ node'[f].content = text
          /\ ~node'[f].loaded /\ node'[f].dirty
        BY <1>8 DEF NewNode
    <2>2. Len(<<>>) = 0
        OBVIOUS
    <2> QED
        BY <1>4, <1>13, <2>1, <2>2 DEF MadeAs
<1>15. NodesOf(own, home)'
    <2>1. \A g \in Range(nodes) : g \in Files /\ g # f
        BY <1>2, <1>5 DEF Range
    <2>2. ASSUME NEW g \in Range(nodes)
          PROVE  /\ IF node'[g].loaded THEN LoadedAs(own, home, g)' ELSE MadeAs(own, home, g)'
                 /\ ~node'[g].dirty => own[g] # <<>>
        <3>1. node'[g] = node[g]
            BY <1>8, <2>1
        <3>2. /\ LoadedAs(own, home, g) => LoadedAs(own, home, g)'
              /\ MadeAs(own, home, g) => MadeAs(own, home, g)'
            <4>1. entries' = entries /\ (AtWork(g) => AtWork(g)' \/ home[g] \in Slots) /\ (Pending(g)' <=> Pending(g))
                BY <1>3, <1>11
            <4> QED
                BY <3>1, <4>1, NodeKept, Zenon
        <3>3. /\ IF node[g].loaded THEN LoadedAs(own, home, g) ELSE MadeAs(own, home, g)
              /\ ~node[g].dirty => own[g] # <<>>
            BY DEF Sound, NodesOf
        <3> QED
            BY <3>1, <3>2, <3>3
    <2>3. \A g \in Files : g \notin Range(nodes') => own[g] = <<>>
        BY <1>7 DEF Sound, NodesOf
    <2> QED
        BY <1>7, <1>14, <2>2, <2>3 DEF NodesOf
<1>16. SaveOf'
    <2>1. \A k \in 1 .. Len(nodes') : k >= 1
        BY <1>5, <1>6
    <2> QED
        BY <1>3, <2>1 DEF SaveOf
<1> QED
    BY <1>9, <1>10, <1>12, <1>15, <1>16 DEF Sound

\* A file that was made has its entry when it is given new content.
LEMMA SetContentKeeps ==
    ASSUME Uncrowded, NEW own \in [Files -> Paths], NEW home \in Homes, Sound(own, home), SetContent
    PROVE  Sound(own, home)'
<1>1. PICK f \in Range(nodes) : \E n \in 1 .. MaxPieces :
          /\ (IF node[f].loaded THEN "recontent" ELSE "content") \in Ops
          /\ version' = [version EXCEPT ![f] = @ + 1]
          /\ node' = [node EXCEPT ![f].content = Pieces(f, version[f] + 1, n),
                                  ![f].dirty = TRUE]
    BY DEF SetContent
<1>2. PICK n \in 1 .. MaxPieces :
          node' = [node EXCEPT ![f].content = Pieces(f, version[f] + 1, n), ![f].dirty = TRUE]
    BY <1>1
<1>3. /\ pc = "idle" /\ pc' = "save" /\ at' = 1 /\ nodes' = nodes
      /\ bam' = bam /\ diskBam' = diskBam /\ stored' = stored
      /\ link' = link /\ piece' = piece /\ entries' = entries
    BY DEF SetContent, Save, source
<1> DEFINE text == Pieces(f, version[f] + 1, n)
<1>4. /\ nodes \in Seq(Files) /\ IsInjective(nodes) /\ Len(nodes) \in Nat
      /\ DOMAIN nodes = 1 .. Len(nodes) /\ f \in Files /\ node \in [Files -> NodeType]
      /\ version \in [Files -> Nat]
    BY DEF Sound, Shapes, Range, NodeType
<1>5. text \in Texts /\ Len(text) = n /\ text # <<>> /\ n <= MaxPieces
    BY <1>4, PiecesShape
<1>6. node' = [node EXCEPT ![f].content = text, ![f].dirty = TRUE]
    BY <1>2
<1> HIDE DEF text
<1>7. ~node[f].loaded
    <2>1. "recontent" \notin Ops
        BY DEF Uncrowded
    <2> QED
        BY <1>1, <2>1
<1>8. /\ node'[f].content = text /\ node'[f].dirty
      /\ node'[f].chain = node[f].chain /\ node'[f].size = node[f].size
      /\ node'[f].slot = node[f].slot /\ node'[f].loaded = node[f].loaded
      /\ \A g \in Files : g # f => node'[g] = node[g]
    BY <1>4, <1>6 DEF NodeType
<1>9. Shapes'
    <2>1. node' \in [Files -> NodeType]
        BY <1>4, <1>5, <1>6 DEF NodeType
    <2>2. version' \in [Files -> Nat]
        BY <1>1, <1>4
    <2> QED
        BY <1>3, <2>1, <2>2 DEF Sound, Shapes, NodeType
<1>10. ChainsOf(own)' /\ MapOf(own)'
    BY <1>3 DEF Sound, ChainsOf, MapOf, Linked
<1>11. \A g : ~Pending(g) /\ ~Pending(g)' /\ ~AtWork(g)
    BY <1>3 DEF Pending, AtWork
<1>12. DirectoryOf(own, home)'
    BY <1>3, <1>11 DEF Sound, DirectoryOf, EntryOf
<1>13. MadeAs(own, home, f)'
    <2>1. home[f] \in Slots
        BY <1>3, <1>4, IdleNodes
    <2>2. MadeAs(own, home, f)
        BY <1>7 DEF Sound, NodesOf
    <2> QED
        BY <1>5, <1>8, <2>1, <2>2 DEF MadeAs, SlotOf
<1>14. NodesOf(own, home)'
    <2>1. ASSUME NEW g \in Range(nodes)
          PROVE  /\ IF node'[g].loaded THEN LoadedAs(own, home, g)' ELSE MadeAs(own, home, g)'
                 /\ ~node'[g].dirty => own[g] # <<>>
        <3>1. CASE g = f
            BY <1>7, <1>8, <1>13, <3>1
        <3>2. CASE g # f
            <4>1. g \in Files /\ node'[g] = node[g]
                BY <1>4, <1>8, <3>2 DEF Range
            <4>2. entries' = entries /\ (AtWork(g) => AtWork(g)' \/ home[g] \in Slots)
                    /\ (Pending(g)' <=> Pending(g))
                BY <1>3, <1>11
            <4>3. /\ LoadedAs(own, home, g) => LoadedAs(own, home, g)'
                  /\ MadeAs(own, home, g) => MadeAs(own, home, g)'
                BY <4>1, <4>2, NodeKept, Zenon
            <4>4. /\ IF node[g].loaded THEN LoadedAs(own, home, g) ELSE MadeAs(own, home, g)
                  /\ ~node[g].dirty => own[g] # <<>>
                BY DEF Sound, NodesOf
            <4> QED
                BY <4>1, <4>3, <4>4
        <3> QED
            BY <3>1, <3>2
    <2>2. \A g \in Files : g \notin Range(nodes') => own[g] = <<>>
        BY <1>3 DEF Sound, NodesOf
    <2> QED
        BY <1>3, <2>1, <2>2 DEF NodesOf
<1>15. SaveOf'
    BY <1>3, <1>4 DEF SaveOf
<1> QED
    BY <1>9, <1>10, <1>12, <1>14, <1>15 DEF Sound

\* A chain that is read is the file's own.
LEMMA ReadKeeps ==
    ASSUME Uncrowded, NEW own \in [Files -> Paths], NEW home \in Homes, Sound(own, home), Read
    PROVE  Sound(own, home)'
<1>1. PICK f \in Range(nodes) :
          node[f].chain # <<>> /\ node' = Update(f, "chain", ChainFrom(node[f].chain[1]))
    BY DEF Read
<1>2. /\ pc = "idle" /\ pc' = pc /\ at' = at /\ nodes' = nodes
      /\ bam' = bam /\ diskBam' = diskBam /\ stored' = stored /\ version' = version
      /\ link' = link /\ piece' = piece /\ entries' = entries
    BY DEF Read, source, history
<1>3. f \in Files /\ node \in [Files -> NodeType]
    BY DEF Sound, Shapes, Range, NodeType
<1>4. own[f] # <<>> /\ own[f] \in Paths /\ Linked(own[f])
    BY <1>2, <1>3, IdleNodes DEF Sound, ChainsOf
<1>5. IF node[f].loaded THEN LoadedAs(own, home, f) ELSE MadeAs(own, home, f)
    BY DEF Sound, NodesOf
<1>6. node[f].chain[1] = own[f][1]
    BY <1>5 DEF LoadedAs, MadeAs
<1>7. ChainFrom(node[f].chain[1]) = own[f]
    BY <1>4, <1>6, ChainFound
<1>8. node' = [node EXCEPT ![f].chain = own[f]]
    BY <1>1, <1>7 DEF Update
<1>9. /\ node'[f].chain = own[f]
      /\ node'[f].content = node[f].content /\ node'[f].dirty = node[f].dirty
      /\ node'[f].size = node[f].size
      /\ node'[f].slot = node[f].slot /\ node'[f].loaded = node[f].loaded
      /\ \A g \in Files : g # f => node'[g] = node[g]
    BY <1>3, <1>8 DEF NodeType
<1>10. Shapes'
    <2>1. node' \in [Files -> NodeType]
        BY <1>3, <1>4, <1>8 DEF NodeType
    <2> QED
        BY <1>2, <2>1 DEF Sound, Shapes, NodeType
<1>11. ChainsOf(own)' /\ MapOf(own)'
    BY <1>2 DEF Sound, ChainsOf, MapOf, Linked
<1>12. \A g : ~Pending(g) /\ ~Pending(g)' /\ ~AtWork(g)
    BY <1>2 DEF Pending, AtWork
<1>13. DirectoryOf(own, home)'
    BY <1>2, <1>12 DEF Sound, DirectoryOf, EntryOf
<1>14. IF node'[f].loaded THEN LoadedAs(own, home, f)' ELSE MadeAs(own, home, f)'
    <2>1. LoadedAs(own, home, f) => LoadedAs(own, home, f)'
        BY <1>4, <1>9 DEF LoadedAs, SlotOf
    <2>2. MadeAs(own, home, f) => MadeAs(own, home, f)'
        BY <1>2, <1>9, <1>12 DEF MadeAs, SlotOf
    <2> QED
        BY <1>5, <1>9, <2>1, <2>2
<1>15. NodesOf(own, home)'
    <2>1. ASSUME NEW g \in Range(nodes)
          PROVE  /\ IF node'[g].loaded THEN LoadedAs(own, home, g)' ELSE MadeAs(own, home, g)'
                 /\ ~node'[g].dirty => own[g] # <<>>
        <3>1. CASE g = f
            BY <1>4, <1>14, <3>1
        <3>2. CASE g # f
            <4>1. g \in Files /\ node'[g] = node[g]
                BY <1>9, <3>2 DEF Sound, Shapes, Range
            <4>2. entries' = entries /\ (AtWork(g) => AtWork(g)' \/ home[g] \in Slots)
                    /\ (Pending(g)' <=> Pending(g))
                BY <1>2, <1>12
            <4>3. /\ LoadedAs(own, home, g) => LoadedAs(own, home, g)'
                  /\ MadeAs(own, home, g) => MadeAs(own, home, g)'
                BY <4>1, <4>2, NodeKept, Zenon
            <4>4. /\ IF node[g].loaded THEN LoadedAs(own, home, g) ELSE MadeAs(own, home, g)
                  /\ ~node[g].dirty => own[g] # <<>>
                BY DEF Sound, NodesOf
            <4> QED
                BY <4>1, <4>3, <4>4
        <3> QED
            BY <3>1, <3>2
    <2>2. \A g \in Files : g \notin Range(nodes') => own[g] = <<>>
        BY <1>2 DEF Sound, NodesOf
    <2> QED
        BY <1>2, <2>1, <2>2 DEF NodesOf
<1>16. SaveOf'
    <2>1. \A k \in 1 .. Len(nodes) : nodes[k] \in Files
        BY DEF Sound, Shapes
    <2>2. \A g \in Files : node'[g].dirty = node[g].dirty
        BY <1>9
    <2> QED
        BY <1>2, <2>1, <2>2 DEF Sound, SaveOf
<1> QED
    BY <1>10, <1>11, <1>13, <1>15, <1>16 DEF Sound

\* A clean file has its entry, so that the save can leave it.
LEMMA SkipCleanKeeps ==
    ASSUME Uncrowded, NEW own \in [Files -> Paths], NEW home \in Homes, Sound(own, home), SkipClean
    PROVE  Sound(own, home)'
<1>1. /\ pc = "save" /\ pc' = pc /\ at' = at + 1 /\ nodes' = nodes /\ node' = node
      /\ bam' = bam /\ diskBam' = diskBam /\ stored' = stored /\ version' = version
      /\ link' = link /\ piece' = piece /\ entries' = entries
      /\ at <= Len(nodes) /\ ~node[nodes[at]].dirty
    BY DEF SkipClean, NextNode, Current, image, source, history
<1>2. at \in 1 .. Len(nodes) /\ nodes[at] \in Range(nodes) /\ Range(nodes) \subseteq Files
    BY <1>1 DEF Sound, Shapes, SaveOf, Range
<1>3. \A g : ~Pending(g) /\ ~Pending(g)'
    BY <1>1 DEF Pending
<1>4. home[nodes[at]] \in Slots
    <2>1. own[nodes[at]] # <<>>
        BY <1>1, <1>2 DEF Sound, NodesOf
    <2> QED
        BY <1>2, <1>3, <2>1 DEF Sound, DirectoryOf
<1>5. Shapes'
    BY <1>1 DEF Sound, Shapes
<1>6. ChainsOf(own)' /\ MapOf(own)'
    BY <1>1 DEF Sound, ChainsOf, MapOf, Linked
<1>7. DirectoryOf(own, home)'
    BY <1>1, <1>3 DEF Sound, DirectoryOf, EntryOf
<1>8. NodesOf(own, home)'
    <2>1. ASSUME NEW g \in Range(nodes)
          PROVE  /\ LoadedAs(own, home, g) => LoadedAs(own, home, g)'
                 /\ MadeAs(own, home, g) => MadeAs(own, home, g)'
        <3>1. node'[g] = node[g] /\ entries' = entries
            BY <1>1
        <3>2. (AtWork(g) => AtWork(g)' \/ home[g] \in Slots) /\ (Pending(g)' <=> Pending(g))
            BY <1>3, <1>4 DEF AtWork
        <3> QED
            BY <3>1, <3>2, NodeKept, Zenon
    <2> QED
        BY <1>1, <2>1 DEF Sound, NodesOf
<1>9. SaveOf'
    <2>1. \A k \in 1 .. Len(nodes) : node[nodes[k]].dirty => k >= at /\ k # at
        BY <1>1 DEF Sound, SaveOf
    <2> QED
        BY <1>1, <1>2, <2>1 DEF Sound, SaveOf
<1> QED
    BY <1>5, <1>6, <1>7, <1>8, <1>9 DEF Sound

\* At the end of a save all files are clean, and the map is saved as it is.
LEMMA SaveDoneKeeps ==
    ASSUME Uncrowded, NEW own \in [Files -> Paths], NEW home \in Homes, Sound(own, home), SaveDone
    PROVE  Sound(own, home)'
<1>1. /\ pc = "save" /\ pc' = "idle" /\ nodes' = nodes /\ node' = node
      /\ bam' = bam /\ diskBam' = bam /\ stored' = stored /\ version' = version
      /\ link' = link /\ entries' = entries /\ at > Len(nodes)
      /\ piece' = [s \in Sectors |-> IF s \in SystemSectors THEN NoPiece ELSE piece[s]]
    BY DEF SaveDone, SavedMap, image, history
<1>2. Range(nodes) \subseteq Files /\ Len(nodes) \in Nat
    BY DEF Sound, Shapes, Range
<1>3. \A g : ~Pending(g) /\ ~Pending(g)' /\ ~AtWork(g)
    BY <1>1, <1>2 DEF Pending, AtWork, Sound, SaveOf
<1>4. Shapes'
    BY <1>1 DEF Sound, Shapes
<1>5. ChainsOf(own)'
    <2>1. ASSUME NEW f \in Files
          PROVE  stored[f] = [j \in 1 .. Len(own[f]) |-> piece'[own[f][j]]]
        <3>1. own[f] \in Paths /\ DOMAIN own[f] = 1 .. Len(own[f])
            BY PathShape
        <3>2. ASSUME NEW j \in 1 .. Len(own[f])
              PROVE  piece'[own[f][j]] = piece[own[f][j]]
            <4>1. own[f][j] \in Sectors /\ own[f][j] \in Range(own[f])
                BY <3>1, PathShape DEF Range
            <4>2. own[f][j] \notin SystemSectors
                BY <4>1 DEF Sound, ChainsOf, Reserved, SystemSectors, Uncrowded
            <4> QED
                BY <1>1, <4>1, <4>2
        <3>3. stored[f] = [j \in 1 .. Len(own[f]) |-> piece[own[f][j]]]
            BY DEF Sound, ChainsOf
        <3> QED
            BY <3>2, <3>3
    <2> QED
        BY <1>1, <2>1 DEF Sound, ChainsOf, Linked
<1>6. MapOf(own)'
    BY <1>1 DEF Sound, MapOf
<1>7. DirectoryOf(own, home)'
    BY <1>1, <1>3 DEF Sound, DirectoryOf, EntryOf
<1>8. NodesOf(own, home)'
    <2>1. ASSUME NEW g \in Range(nodes)
          PROVE  /\ LoadedAs(own, home, g) => LoadedAs(own, home, g)'
                 /\ MadeAs(own, home, g) => MadeAs(own, home, g)'
        <3>1. node'[g] = node[g] /\ entries' = entries
            BY <1>1
        <3>2. (AtWork(g) => AtWork(g)' \/ home[g] \in Slots) /\ (Pending(g)' <=> Pending(g))
            BY <1>3
        <3> QED
            BY <3>1, <3>2, NodeKept, Zenon
    <2> QED
        BY <1>1, <2>1 DEF Sound, NodesOf
<1>9. SaveOf'
    <2>1. \A k \in 1 .. Len(nodes) : ~node[nodes[k]].dirty
        <3> SUFFICES ASSUME NEW k \in 1 .. Len(nodes), node[nodes[k]].dirty PROVE FALSE
            OBVIOUS
        <3>1. k >= at /\ at \in Nat
            BY <1>1 DEF Sound, SaveOf
        <3> QED
            BY <1>1, <1>2, <3>1
    <2> QED
        BY <1>1, <2>1 DEF SaveOf
<1> QED
    BY <1>4, <1>5, <1>6, <1>7, <1>8, <1>9 DEF Sound

-----------------------------------------------------------------------------
(* Finding the place of an entry *)

\* The file a save is at was made or given content in this session.
LEMMA WorkingOn ==
    ASSUME NEW own \in [Files -> Paths], NEW home \in Homes, Sound(own, home), Saving
    PROVE  /\ pc = "save" /\ at \in 1 .. Len(nodes)
           /\ Current \in Files /\ Current \in Range(nodes)
           /\ node[Current].dirty /\ ~node[Current].loaded
           /\ MadeAs(own, home, Current) /\ AtWork(Current) /\ ~Pending(Current)
           /\ node[Current].content # <<>>
<1>1. pc = "save" /\ at \in 1 .. Len(nodes) /\ node[Current].dirty
    BY DEF Saving, Sound, SaveOf
<1>2. Current \in Range(nodes) /\ Current \in Files
    BY <1>1 DEF Current, Sound, Shapes, Range
<1>3. ~node[Current].loaded /\ MadeAs(own, home, Current)
    BY <1>1, <1>2 DEF Sound, NodesOf, LoadedAs
<1>4. AtWork(Current) /\ ~Pending(Current)
    BY <1>1 DEF AtWork, Pending, Current
<1> QED
    BY <1>1, <1>2, <1>3, <1>4 DEF MadeAs

\* The slots of the directory, and the entry in each.
LEMMA SlotShape ==
    /\ \A i \in Slots : i \in Nat /\ i < 8 /\ (i * 32) \div 32 = i
    /\ \A u \in BOOLEAN : SlotsIn(DirStart, u) =
          {SlotOf(32 * i) : i \in {j \in Slots : (entries[DirStart][j] = Unused) = u}}
<1>1. \A i \in Slots : i \in Nat /\ i < 8 /\ (i * 32) \div 32 = i
    BY EntryAssumption DEF Slots
<1>2. \A i \in Slots : SlotOf(32 * i) = [ts |-> DirStart, offset |-> i * 32]
    BY <1>1 DEF SlotOf
<1>3. ASSUME NEW u \in BOOLEAN
      PROVE  SlotsIn(DirStart, u) =
                {SlotOf(32 * i) : i \in {j \in Slots : (entries[DirStart][j] = Unused) = u}}
    BY <1>2 DEF SlotsIn
<1> QED
    BY <1>1, <1>3

\* A file without an entry finds an unused one.
LEMMA UnusedLeft ==
    ASSUME Uncrowded, NEW own \in [Files -> Paths], NEW home \in Homes, Sound(own, home),
           NEW f \in Files, home[f] \notin Slots
    PROVE  \E i \in Slots : entries[DirStart][i] = Unused
<1> SUFFICES ASSUME \A i \in Slots : entries[DirStart][i] # Unused PROVE FALSE
    OBVIOUS
<1> DEFINE who == [i \in Slots |-> CHOOSE g \in Files : home[g] = i]
<1>1. \A i \in Slots : \E g \in Files : home[g] = i
    BY DEF Sound, DirectoryOf
<1>2. \A i \in Slots : who[i] \in Files /\ home[who[i]] = i
    BY <1>1
<1>3. who \in [Slots -> Files \ {f}]
    BY <1>2
<1>4. \A i, j \in Slots : who[i] = who[j] => i = j
    BY <1>2
<1> HIDE DEF who
<1>5. who \in Injection(Slots, Files \ {f})
    BY <1>3, <1>4 DEF Injection, IsInjective
<1>6. IsFiniteSet(Files) /\ Cardinality(Files) <= EntryCount /\ Cardinality(Files) \in Nat
    BY FS_CardinalityType DEF Uncrowded
<1>7. IsFiniteSet(Files \ {f}) /\ Cardinality(Files \ {f}) = Cardinality(Files) - 1
    BY <1>6, FS_RemoveElement
<1>8. Cardinality(Slots) <= Cardinality(Files \ {f})
    BY <1>5, <1>7, FS_Injection
<1>9. Cardinality(Slots) = EntryCount
    <2>1. 0 \in Int /\ EntryCount - 1 \in Int /\ EntryCount \in Nat /\ EntryCount > 0
        BY EntryAssumption
    <2>2. Cardinality(Slots) = IF 0 > EntryCount - 1 THEN 0 ELSE EntryCount - 1 - 0 + 1
        BY <2>1, FS_Interval DEF Slots
    <2> QED
        BY <2>1, <2>2
<1> QED
    BY <1>6, <1>7, <1>8, <1>9, EntryAssumption

\* The first unused slot of the directory's sector is the one found.
LEMMA FirstUnused ==
    ASSUME NEW i \in Slots, entries[DirStart][i] = Unused
    PROVE  \E k \in Slots : /\ entries[DirStart][k] = Unused
                            /\ FirstOf(SlotsIn(DirStart, TRUE)) = SlotOf(32 * k)
<1> DEFINE S == {j \in Slots : entries[DirStart][j] = Unused}
           found == SlotsIn(DirStart, TRUE)
<1>1. S \in SUBSET Nat /\ S # {}
    BY SlotShape
<1>2. PICK k \in S : \A m \in S : k <= m
    BY <1>1, LeastNatural
<1>3. found = {SlotOf(32 * j) : j \in S}
    <2>1. S = {j \in Slots : (entries[DirStart][j] = Unused) = TRUE}
        OBVIOUS
    <2> QED
        BY <2>1, SlotShape, Zenon
<1> HIDE DEF found
<1>4. \A y \in found : SlotOf(32 * k).offset <= y.offset
    BY <1>1, <1>2, <1>3 DEF SlotOf
<1>5. FirstOf(found) \in found
    BY <1>2, <1>3, <1>4 DEF FirstOf
<1> QED
    BY <1>3, <1>5 DEF found

\* The directory is never searched in vain.
LEMMA NeverFull ==
    ASSUME Uncrowded, NEW own \in [Files -> Paths], NEW home \in Homes, Sound(own, home)
    PROVE  ~NeedsExtension
<1> SUFFICES ASSUME NeedsExtension PROVE FALSE
    OBVIOUS
<1>1. Saving /\ node[Current].slot = NoSlot
    BY DEF NeedsExtension
<1>2. Current \in Files /\ MadeAs(own, home, Current)
    BY <1>1, WorkingOn
<1>3. home[Current] \notin Slots
    <2>1. DirStart # End
        BY GeometryAssumption, SectorShape
    <2> QED
        BY <1>1, <1>2, <2>1 DEF MadeAs, SlotOf, NoSlot
<1>4. PICK i \in Slots : entries[DirStart][i] = Unused
    BY <1>2, <1>3, UnusedLeft
<1>5. Len(Directory) = 1 /\ Directory[1] = DirStart
    BY DirectoryFound DEF Sound, DirectoryOf
<1>6. SlotsIn(DirStart, TRUE) = {}
    <2>1. 1 \in 1 .. Len(Directory)
        BY <1>5
    <2> QED
        BY <1>5, <2>1 DEF NeedsExtension
<1>7. SlotOf(32 * i) \in SlotsIn(DirStart, TRUE)
    <2>1. i \in {j \in Slots : (entries[DirStart][j] = Unused) = TRUE}
        BY <1>4
    <2> QED
        BY <2>1, SlotShape
<1> QED
    BY <1>6, <1>7

\* The place found is unused, and of no other file.
LEMMA FindIndexKeeps ==
    ASSUME Uncrowded, NEW own \in [Files -> Paths], NEW home \in Homes, Sound(own, home), FindIndex
    PROVE  Sound(own, home)'
<1>0. PICK f : f = Current
    OBVIOUS
<1>1. /\ pc' = pc /\ at' = at /\ nodes' = nodes
      /\ bam' = bam /\ diskBam' = diskBam /\ stored' = stored /\ version' = version
      /\ link' = link /\ piece' = piece /\ entries' = entries
      /\ Saving /\ node[f].slot = NoSlot
    BY <1>0 DEF FindIndex, source, history
<1>2. /\ pc = "save" /\ at \in 1 .. Len(nodes) /\ f \in Files /\ f \in Range(nodes)
      /\ node[f].dirty /\ ~node[f].loaded /\ MadeAs(own, home, f) /\ AtWork(f) /\ ~Pending(f)
    BY <1>0, <1>1, WorkingOn
<1>3. home[f] \notin Slots
    <2>1. DirStart # End
        BY GeometryAssumption, SectorShape
    <2> QED
        BY <1>1, <1>2, <2>1 DEF MadeAs, SlotOf, NoSlot
<1>4. Len(Directory) = 1 /\ Directory[1] = DirStart
    BY DirectoryFound DEF Sound, DirectoryOf
<1>5. node' = Update(f, "slot", FirstOf(SlotsIn(DirStart, TRUE)))
    <2>1. PICK d \in 1 .. Len(Directory) :
              node' = Update(Current, "slot", FirstOf(SlotsIn(Directory[d], TRUE)))
        BY DEF FindIndex
    <2>2. d = 1
        BY <1>4
    <2> QED
        BY <1>0, <1>4, <2>1, <2>2
<1>6. PICK k \in Slots : /\ entries[DirStart][k] = Unused
                         /\ FirstOf(SlotsIn(DirStart, TRUE)) = SlotOf(32 * k)
    BY <1>2, <1>3, UnusedLeft, FirstUnused
<1>7. node \in [Files -> NodeType]
    BY DEF Sound, Shapes, NodeType
<1>8. node' = [node EXCEPT ![f].slot = SlotOf(32 * k)]
    BY <1>5, <1>6 DEF Update
<1>9. /\ node'[f].slot = SlotOf(32 * k)
      /\ node'[f].content = node[f].content /\ node'[f].dirty = node[f].dirty
      /\ node'[f].chain = node[f].chain /\ node'[f].size = node[f].size
      /\ node'[f].loaded = node[f].loaded
      /\ \A g \in Files : g # f => node'[g] = node[g]
    BY <1>2, <1>7, <1>8 DEF NodeType
<1>10. Shapes'
    <2>1. SlotOf(32 * k) \in [ts : Sectors \cup {End}, offset : Nat]
        BY GeometryAssumption, SlotShape DEF SlotOf
    <2>2. node' \in [Files -> NodeType]
        BY <1>7, <1>8, <2>1 DEF NodeType
    <2> QED
        BY <1>1, <2>2 DEF Sound, Shapes, NodeType
<1>11. ChainsOf(own)' /\ MapOf(own)'
    BY <1>1 DEF Sound, ChainsOf, MapOf, Linked
<1>12. \A g : (Pending(g)' <=> Pending(g)) /\ (AtWork(g)' <=> AtWork(g))
    BY <1>1 DEF Pending, AtWork
<1>13. DirectoryOf(own, home)'
    BY <1>1, <1>12 DEF Sound, DirectoryOf, EntryOf
<1>14. MadeAs(own, home, f)'
    BY <1>1, <1>2, <1>3, <1>6, <1>9, <1>12 DEF MadeAs, SlotOf
<1>15. NodesOf(own, home)'
    <2>1. ASSUME NEW g \in Range(nodes)
          PROVE  /\ IF node'[g].loaded THEN LoadedAs(own, home, g)' ELSE MadeAs(own, home, g)'
                 /\ ~node'[g].dirty => own[g] # <<>>
        <3>1. CASE g = f
            BY <1>2, <1>9, <1>14, <3>1
        <3>2. CASE g # f
            <4>1. g \in Files /\ node'[g] = node[g]
                BY <1>9, <3>2 DEF Sound, Shapes, Range
            <4>2. entries' = entries /\ (AtWork(g) => AtWork(g)' \/ home[g] \in Slots)
                    /\ (Pending(g)' <=> Pending(g))
                BY <1>1, <1>12
            <4>3. /\ LoadedAs(own, home, g) => LoadedAs(own, home, g)'
                  /\ MadeAs(own, home, g) => MadeAs(own, home, g)'
                BY <4>1, <4>2, NodeKept, Zenon
            <4>4. /\ IF node[g].loaded THEN LoadedAs(own, home, g) ELSE MadeAs(own, home, g)
                  /\ ~node[g].dirty => own[g] # <<>>
                BY DEF Sound, NodesOf
            <4> QED
                BY <4>1, <4>3, <4>4
        <3> QED
            BY <3>1, <3>2
    <2>2. \A g \in Files : g \notin Range(nodes') => own[g] = <<>>
        BY <1>1 DEF Sound, NodesOf
    <2> QED
        BY <1>1, <2>1, <2>2 DEF NodesOf
<1>16. SaveOf'
    <2>1. \A k2 \in 1 .. Len(nodes) : nodes[k2] \in Files
        BY DEF Sound, Shapes
    <2>2. \A g \in Files : node'[g].dirty = node[g].dirty
        BY <1>9
    <2> QED
        BY <1>1, <1>2, <2>1, <2>2 DEF Sound, SaveOf
<1> QED
    BY <1>10, <1>11, <1>13, <1>15, <1>16 DEF Sound

-----------------------------------------------------------------------------
(* Writing content *)

\* The sectors of all files but one, and what is left for that one.
LEMMA RoomLeft ==
    ASSUME Uncrowded, NEW own \in [Files -> Paths], ChainsOf(own), NEW f \in Files,
           NEW free \in SUBSET Sectors,
           \A s \in Sectors : s \in free <=>
                s \notin Reserved /\ \A g \in Files : g # f => s \notin Range(own[g])
    PROVE  MaxPieces <= Cardinality(free)
<1> DEFINE others == UNION {Range(own[g]) : g \in Files \ {f}}
           M == 1 .. MaxPieces
           box == (Files \ {f}) \X M
           mine == {f} \X M
           mark == [s \in others |-> CHOOSE p \in box : own[p[1]][p[2]] = s /\ p[2] \in 1 .. Len(own[p[1]])]
<1>0. MaxPieces \in Nat /\ IsFiniteSet(Files) /\ IsFiniteSet(M) /\ Cardinality(M) = MaxPieces
    <2>1. 1 \in Int /\ MaxPieces \in Int /\ MaxPieces \in Nat /\ IsFiniteSet(Files)
        BY BoundsAssumption DEF Uncrowded
    <2>2. IsFiniteSet(M) /\ Cardinality(M) = IF 1 > MaxPieces THEN 0 ELSE MaxPieces - 1 + 1
        BY <2>1, FS_Interval
    <2> QED
        BY <2>1, <2>2
<1>1. \A g \in Files : \A j \in 1 .. Len(own[g]) : j \in M
    <2> SUFFICES ASSUME NEW g \in Files, NEW j \in 1 .. Len(own[g]) PROVE j \in M
        OBVIOUS
    <2>1. Len(own[g]) \in Nat /\ Len(own[g]) <= MaxPieces
        BY PathShape DEF ChainsOf
    <2> QED
        BY <1>0, <2>1
<1>2. \A g \in Files : DOMAIN own[g] = 1 .. Len(own[g]) /\ Range(own[g]) \subseteq Sectors
    BY PathShape
<1>3. ASSUME NEW s \in others
      PROVE  \E p \in box : own[p[1]][p[2]] = s /\ p[2] \in 1 .. Len(own[p[1]])
    <2>1. PICK g \in Files \ {f} : s \in Range(own[g])
        OBVIOUS
    <2>2. PICK j \in 1 .. Len(own[g]) : own[g][j] = s
        BY <1>2, <2>1 DEF Range
    <2>3. <<g, j>> \in box
        BY <1>1, <2>2
    <2> QED
        BY <2>2, <2>3
<1>4. \A s \in others : mark[s] \in box /\ own[mark[s][1]][mark[s][2]] = s
    BY <1>3
<1>5. mark \in Injection(others, box)
    <2>1. mark \in [others -> box]
        BY <1>4
    <2>2. \A s, t \in others : mark[s] = mark[t] => s = t
        BY <1>4
    <2> HIDE DEF mark
    <2> QED
        BY <2>1, <2>2 DEF Injection, IsInjective
<1> HIDE DEF mark
<1>6. /\ IsFiniteSet(box) /\ IsFiniteSet(mine) /\ IsFiniteSet(Files \X M)
      /\ Cardinality(mine) = MaxPieces
      /\ Cardinality(Files \X M) = Cardinality(Files) * MaxPieces
      /\ Cardinality(box) \in Nat /\ Cardinality(Files \X M) \in Nat
    <2>1. IsFiniteSet(Files \ {f}) /\ IsFiniteSet({f}) /\ Cardinality({f}) = 1
        BY <1>0, FS_Subset, FS_Singleton
    <2>2. ASSUME NEW A, IsFiniteSet(A)
          PROVE  IsFiniteSet(A \X M) /\ Cardinality(A \X M) = Cardinality(A) * MaxPieces
        <3> HIDE DEF M
        <3> QED
            BY <1>0, <2>2, FS_Product
    <2>3. IsFiniteSet(box) /\ IsFiniteSet(mine) /\ IsFiniteSet(Files \X M)
        BY <1>0, <2>1, <2>2
    <2>4. Cardinality(mine) = Cardinality({f}) * MaxPieces
        BY <2>1, <2>2
    <2>5. Cardinality(mine) = MaxPieces
        BY <1>0, <2>1, <2>4
    <2>6. Cardinality(Files \X M) = Cardinality(Files) * MaxPieces
        BY <1>0, <2>2
    <2>7. Cardinality(box) \in Nat /\ Cardinality(Files \X M) \in Nat
        BY <2>3, FS_CardinalityType
    <2> HIDE DEF box, mine, M
    <2> QED
        BY <2>3, <2>5, <2>6, <2>7
<1>7. Cardinality(Files \X M) = Cardinality(box) + MaxPieces
    <2>1. Files \X M = box \cup mine /\ box \cap mine = {}
        OBVIOUS
    <2>2. Cardinality(box \cup mine) = Cardinality(box) + Cardinality(mine) - Cardinality(box \cap mine)
        BY <1>6, FS_Union
    <2>3. Cardinality({}) = 0
        BY FS_EmptySet
    <2>4. Cardinality(mine) = MaxPieces /\ Cardinality(box) \in Nat
        BY <1>6
    <2>5. MaxPieces \in Nat
        BY <1>0
    <2> HIDE DEF box, mine, M
    <2>6. Cardinality(Files \X M) = Cardinality(box \cup mine) /\ Cardinality(box \cap mine) = 0
        BY <2>1, <2>3, Zenon
    <2> QED
        BY <2>2, <2>4, <2>5, <2>6
<1>8. IsFiniteSet(others) /\ Cardinality(others) <= Cardinality(box) /\ Cardinality(others) \in Nat
    BY <1>5, <1>6, FS_Injection, FS_CardinalityType
<1>9. /\ IsFiniteSet(Reserved) /\ Cardinality(Reserved) \in Nat
      /\ IsFiniteSet(free) /\ Cardinality(free) \in Nat
    <2>1. Reserved \in SUBSET Sectors
        BY GeometryAssumption DEF Reserved
    <2> QED
        BY <2>1, SectorsFinite, FS_Subset, FS_CardinalityType
<1>10. Sectors = free \cup (others \cup Reserved)
    <2>1. \A s \in others : s \in Sectors
        BY <1>2
    <2>2. Reserved \subseteq Sectors
        BY GeometryAssumption DEF Reserved
    <2>3. \A s \in Sectors : s \notin others <=> \A g \in Files : g # f => s \notin Range(own[g])
        OBVIOUS
    <2> HIDE DEF others
    <2> QED
        BY <2>1, <2>2, <2>3
<1>11. /\ IsFiniteSet(others \cup Reserved) /\ Cardinality(others \cup Reserved) \in Nat
       /\ Cardinality(others \cup Reserved) <= Cardinality(others) + Cardinality(Reserved)
       /\ Cardinality(free \cup (others \cup Reserved)) <= Cardinality(free) + Cardinality(others \cup Reserved)
    <2> HIDE DEF others
    <2>1. ASSUME NEW A, NEW B, IsFiniteSet(A), IsFiniteSet(B)
          PROVE  IsFiniteSet(A \cup B) /\ Cardinality(A \cup B) <= Cardinality(A) + Cardinality(B)
        <3>1. IsFiniteSet(A \cap B)
            BY <2>1, FS_Subset
        <3>2. /\ Cardinality(A) \in Nat /\ Cardinality(B) \in Nat /\ Cardinality(A \cap B) \in Nat
            BY <2>1, <3>1, FS_CardinalityType
        <3>3. IsFiniteSet(A \cup B) /\ Cardinality(A \cup B) = Cardinality(A) + Cardinality(B) - Cardinality(A \cap B)
            BY <2>1, FS_Union
        <3> QED
            BY <3>2, <3>3
    <2>2. IsFiniteSet(others \cup Reserved)
            /\ Cardinality(others \cup Reserved) <= Cardinality(others) + Cardinality(Reserved)
        BY <1>8, <1>9, <2>1
    <2>3. Cardinality(free \cup (others \cup Reserved)) <= Cardinality(free) + Cardinality(others \cup Reserved)
        BY <1>9, <2>1, <2>2
    <2> QED
        BY <2>2, <2>3, FS_CardinalityType
<1>12. Cardinality(Reserved) + Cardinality(Files \X M) <= Cardinality(Sectors)
    <2>1. Cardinality(Files \X M) = Cardinality(Files) * MaxPieces
        BY <1>6
    <2> HIDE DEF M
    <2> QED
        BY <2>1 DEF Uncrowded, Reserved
<1> HIDE DEF others, box, M
<1>13. Cardinality(Sectors) <= Cardinality(free) + Cardinality(others \cup Reserved)
    BY <1>10, <1>11
<1>14. Cardinality(Sectors) \in Nat
    BY SectorsFinite DEF Total
<1>15. Cardinality(Reserved) + (Cardinality(box) + MaxPieces)
         <= Cardinality(free) + Cardinality(others \cup Reserved)
    BY <1>0, <1>6, <1>7, <1>8, <1>9, <1>11, <1>12, <1>13, <1>14
<1> QED
    BY <1>0, <1>6, <1>8, <1>9, <1>11, <1>15

\* A chain that can be given to a file.
Allots(own, f, chain, len) ==
    /\ chain \in Paths /\ Len(chain) = len /\ len \in Nat /\ len > 0
    /\ \A s \in Range(chain) :
          s \notin Reserved /\ \A g \in Files : g # f => s \notin Range(own[g])
    /\ UseSectors(Released(node[f]), IF node[f].size # len THEN Range(chain) ELSE {}).free
         = Sectors \ (Reserved \cup Owned([own EXCEPT ![f] = chain]))

\* The sectors a file is given are its own old ones or free ones, as many as its
\* content has pieces.
LEMMA AllottedShape ==
    ASSUME Uncrowded, NEW own \in [Files -> Paths], NEW home \in Homes, Sound(own, home),
           NEW f \in Files, f = Current, Saving
    PROVE  Allots(own, f, Allotted(node[f]), Len(node[f].content))
<1>a. PICK chain : chain = Allotted(node[f])
    OBVIOUS
<1>b. PICK len : len = Len(node[f].content)
    OBVIOUS
<1> DEFINE n == node[f]
           own2 == [own EXCEPT ![f] = chain]
<1>1. /\ MadeAs(own, home, f) /\ n.content # <<>> /\ n.content \in Texts
      /\ ChainsOf(own) /\ bam.free = Sectors \ (Reserved \cup Owned(own))
    BY WorkingOn DEF Sound, MapOf, Shapes, NodeType
<1>2. n.chain = own[f] /\ n.size = Len(own[f]) /\ len <= MaxPieces
    BY <1>1, <1>b DEF MadeAs
<1>3. len \in Nat /\ len > 0
    <2>1. n.content \in Seq(Files \X Nat \X Nat)
        BY <1>1 DEF Texts
    <2> HIDE DEF n
    <2> QED
        BY <1>1, <1>b, <2>1, EmptySeq DEF n
<1>4. own[f] \in Paths /\ Range(own[f]) \subseteq Sectors
    BY PathShape
<1>5. \A g \in Files : g # f => own2[g] = own[g]
    OBVIOUS
<1>6. \A s : s \in Owned(own2) <=> s \in Range(chain) \/ \E g \in Files : g # f /\ s \in Range(own[g])
    <2>1. own2[f] = chain
        OBVIOUS
    <2> HIDE DEF own2
    <2> QED
        BY <1>5, <2>1 DEF Owned
<1>7. ASSUME n.size = len PROVE Allots(own, f, chain, len)
    <2>1. chain = own[f] /\ Released(n) = bam
        BY <1>a, <1>b, <1>2, <1>7 DEF Allotted, Released
    <2>2. \A s \in Range(own[f]) :
              s \notin Reserved /\ \A g \in Files : g # f => s \notin Range(own[g])
        BY <1>1 DEF ChainsOf
    <2>3. own2 = own
        BY <2>1
    <2>4. UseSectors(Released(n), {}).free = bam.free
        BY <2>1 DEF UseSectors
    <2> QED
        BY <1>1, <1>2, <1>3, <1>4, <1>7, <2>1, <2>2, <2>3, <2>4 DEF Allots
<1>8. ASSUME n.size # len PROVE Allots(own, f, chain, len)
    <2> DEFINE free == Released(n).free
    <2>1. free = bam.free \cup (Range(own[f]) \cap Sectors)
        BY <1>b, <1>2, <1>8 DEF Released, FreeSectors
    <2>2. chain = FirstFree(Released(n), len)
        BY <1>a, <1>b, <1>8 DEF Allotted
    <2> HIDE DEF free
    <2>3. ASSUME NEW s \in Sectors
          PROVE  s \in free <=> s \notin Reserved /\ \A g \in Files : g # f => s \notin Range(own[g])
        <3>1. s \in bam.free <=> s \notin Reserved /\ \A g \in Files : s \notin Range(own[g])
            BY <1>1 DEF Owned
        <3>2. s \in Range(own[f]) =>
                  s \notin Reserved /\ \A g \in Files : g # f => s \notin Range(own[g])
            BY <1>1 DEF ChainsOf
        <3> QED
            BY <2>1, <3>1, <3>2
    <2>4. free \in SUBSET Sectors
        BY <1>1, <2>1
    <2>5. MaxPieces <= Cardinality(free)
        BY <1>1, <2>3, <2>4, RoomLeft
    <2>6. /\ Cardinality(free) \in Nat
          /\ len <= Cardinality(free) =>
                /\ FirstFree(Released(n), len) \in Seq(Sectors)
                /\ Len(FirstFree(Released(n), len)) = len
                /\ IsInjective(FirstFree(Released(n), len))
                /\ Range(FirstFree(Released(n), len)) \subseteq free
        BY <1>3, <2>4, FirstFreeShape DEF free
    <2>7. len <= Cardinality(free)
        <3>1. MaxPieces \in Nat
            BY BoundsAssumption
        <3> QED
            BY <1>2, <1>3, <2>5, <2>6, <3>1
    <2>8. chain \in Paths /\ Len(chain) = len /\ Range(chain) \subseteq free
        BY <2>2, <2>6, <2>7 DEF Paths
    <2>9. UseSectors(Released(n), Range(chain)).free = free \ Range(chain)
        BY DEF UseSectors, free
    <2>10. free \ Range(chain) = Sectors \ (Reserved \cup Owned(own2))
        <3> HIDE DEF own2
        <3> QED
            BY <1>6, <2>3, <2>4
    <2>11. \A s \in Range(chain) :
              s \notin Reserved /\ \A g \in Files : g # f => s \notin Range(own[g])
        BY <2>3, <2>4, <2>8
    <2> QED
        BY <1>3, <1>8, <2>8, <2>9, <2>10, <2>11 DEF Allots
<1> QED
    BY <1>a, <1>b, <1>7, <1>8

\* There is room for every content.
LEMMA AlwaysRoom ==
    ASSUME Uncrowded, NEW own \in [Files -> Paths], NEW home \in Homes, Sound(own, home)
    PROVE  ~NoSpace /\ ~ContentRunsOut /\ ~DropContent
<1> SUFFICES ASSUME Ready PROVE ~NoSpace /\ ~ContentRunsOut /\ ~DropContent
    BY DEF NoSpace, ContentRunsOut, DropContent
<1>1. Saving
    BY DEF Ready
<1>2. Current \in Files /\ node[Current].content # <<>>
    BY <1>1, WorkingOn
<1>3. PICK f \in Files : f = Current
    BY <1>2
<1>4. PICK chain, len : chain = Allotted(node[f]) /\ len = Len(node[f].content)
    OBVIOUS
<1>5. Len(chain) = len /\ len \in Nat /\ len > 0
    <2>1. Allots(own, f, Allotted(node[f]), Len(node[f].content))
        BY <1>1, <1>3, AllottedShape
    <2> QED
        BY <1>4, <2>1 DEF Allots
<1>6. chain # <<>> /\ ~(Len(chain) > len)
    BY <1>5
<1> QED
    BY <1>2, <1>3, <1>4, <1>6 DEF NoSpace, ContentRunsOut, DropContent

\* What is on the disk after a chain was written.
LEMMA WrittenShape ==
    ASSUME NEW chain \in Paths, NEW pieces, WriteSectors(chain, Len(chain), pieces)
    PROVE  /\ DOMAIN link' = Sectors /\ DOMAIN piece' = Sectors /\ DOMAIN entries' = Sectors
           /\ \A s \in Sectors : s \notin Range(chain) =>
                 link'[s] = link[s] /\ piece'[s] = piece[s] /\ entries'[s] = entries[s]
           /\ \A j \in 1 .. Len(chain) :
                 /\ piece'[chain[j]] = pieces[j]
                 /\ link'[chain[j]] = IF j = Len(chain) THEN End ELSE chain[j + 1]
<1> DEFINE written == {chain[j] : j \in 1 .. Len(chain)}
           place(s) == CHOOSE j \in 1 .. Len(chain) : chain[j] = s
<1>1. /\ DOMAIN chain = 1 .. Len(chain) /\ IsInjective(chain) /\ Range(chain) \subseteq Sectors
    BY PathShape
<1>2. written = Range(chain)
    BY <1>1 DEF Range
<1>3. PICK look : entries' = [s \in Sectors |->
                IF s \in written THEN [i \in Slots |-> look] ELSE entries[s]]
    BY DEF WriteSectors
<1>4. /\ link' = [s \in Sectors |->
            IF s \notin written THEN link[s]
            ELSE IF place(s) = Len(chain) THEN End ELSE chain[place(s) + 1]]
      /\ piece' = [s \in Sectors |-> IF s \in written THEN pieces[place(s)] ELSE piece[s]]
    BY DEF WriteSectors
<1>5. \A j \in 1 .. Len(chain) : place(chain[j]) = j /\ chain[j] \in written /\ chain[j] \in Sectors
    <2> SUFFICES ASSUME NEW j \in 1 .. Len(chain)
                 PROVE  place(chain[j]) = j /\ chain[j] \in written /\ chain[j] \in Sectors
        OBVIOUS
    <2>1. \E k \in 1 .. Len(chain) : chain[k] = chain[j]
        OBVIOUS
    <2>2. place(chain[j]) \in 1 .. Len(chain) /\ chain[place(chain[j])] = chain[j]
        BY <2>1
    <2> HIDE DEF place
    <2> QED
        BY <1>1, <1>2, <2>2 DEF IsInjective
<1> HIDE DEF written, place
<1> QED
    BY <1>2, <1>3, <1>4, <1>5

\* Nodes a save is not at are still as they were.
LEMMA OtherKept ==
    ASSUME NEW own, NEW own2, NEW home, NEW home2, NEW g, node'[g] = node[g],
           own2[g] = own[g], home2[g] = home[g],
           ~AtWork(g), ~Pending(g)
    PROVE  /\ LoadedAs(own, home, g) => LoadedAs(own2, home2, g)'
           /\ MadeAs(own, home, g) => MadeAs(own2, home2, g)'
<1>1. LoadedAs(own, home, g) => LoadedAs(own2, home2, g)'
    BY DEF LoadedAs, SlotOf
<1>2. MadeAs(own, home, g) => MadeAs(own2, home2, g)'
    BY DEF MadeAs, SlotOf
<1> QED
    BY <1>1, <1>2

\* Only one file is at work.
LEMMA OneAtWork ==
    ASSUME Shapes, NEW f, f = Current, NEW g, g # f
    PROVE  ~AtWork(g) /\ ~Pending(g)
BY DEF AtWork, Pending, Current

\* The new chain of a file leads through its old sectors and free ones.
LEMMA WriteContentKeeps ==
    ASSUME Uncrowded, NEW own \in [Files -> Paths], NEW home \in Homes, Sound(own, home), WriteContent
    PROVE  \E own2 \in [Files -> Paths] : Sound(own2, home)'
<1>1. Ready /\ Saving
    BY DEF WriteContent, Ready
<1>2. Current \in Files
    BY <1>1, WorkingOn
<1>3. PICK f \in Files : f = Current
    BY <1>2
<1>4. PICK chain : chain = Allotted(node[f])
    OBVIOUS
<1>5. PICK len : len = Len(node[f].content)
    OBVIOUS
<1>6. /\ chain \in Paths /\ Len(chain) = len /\ len \in Nat /\ len > 0
      /\ \A s \in Range(chain) :
            s \notin Reserved /\ \A g \in Files : g # f => s \notin Range(own[g])
      /\ UseSectors(Released(node[f]), IF node[f].size # len THEN Range(chain) ELSE {}).free
           = Sectors \ (Reserved \cup Owned([own EXCEPT ![f] = chain]))
    <2>1. Allots(own, f, Allotted(node[f]), Len(node[f].content))
        BY <1>1, <1>3, AllottedShape
    <2>2. Allots(own, f, chain, len)
        BY <1>4, <1>5, <2>1
    <2> QED
        BY <2>2 DEF Allots
<1>7. PICK text : text = node[f].content
    OBVIOUS
<1>8. /\ bam' = UseSectors(Released(node[f]), IF node[f].size # len THEN Range(chain) ELSE {})
      /\ WriteSectors(chain, Len(chain), text)
      /\ node' = [node EXCEPT ![f] = [@ EXCEPT !.chain = chain, !.size = len,
                                     !.content = SubSeq(node[f].content, Len(chain) + 1, len)]]
      /\ stored' = [stored EXCEPT ![f] = text]
      /\ pc' = "entry" /\ nodes' = nodes /\ diskBam' = diskBam /\ at' = at /\ version' = version
    BY <1>3, <1>4, <1>5, <1>7 DEF WriteContent
<1>9. /\ DOMAIN link' = Sectors /\ DOMAIN piece' = Sectors /\ DOMAIN entries' = Sectors
      /\ \A s \in Sectors : s \notin Range(chain) =>
            link'[s] = link[s] /\ piece'[s] = piece[s] /\ entries'[s] = entries[s]
      /\ \A j \in 1 .. Len(chain) :
            /\ piece'[chain[j]] = text[j]
            /\ link'[chain[j]] = IF j = Len(chain) THEN End ELSE chain[j + 1]
    BY <1>6, <1>8, WrittenShape
<1>10. /\ pc = "save" /\ at \in 1 .. Len(nodes) /\ f \in Range(nodes)
       /\ node[f].dirty /\ ~node[f].loaded /\ MadeAs(own, home, f) /\ AtWork(f) /\ ~Pending(f)
       /\ node[f].slot # NoSlot /\ node \in [Files -> NodeType]
    BY <1>1, <1>3, WorkingOn DEF Ready, Sound, Shapes, NodeType
<1>11. text \in Texts /\ len = Len(text) /\ SubSeq(text, Len(chain) + 1, len) = <<>> /\ <<>> \in Texts
    <2>1. text \in Texts
        BY <1>7, <1>10 DEF NodeType
    <2>2. SubSeq(text, len + 1, len) = <<>>
        BY <1>6, SubSeqEmpty
    <2>3. <<>> \in Texts
        BY DEF Texts
    <2> QED
        BY <1>5, <1>6, <1>7, <2>1, <2>2, <2>3
<1>12. node' = [node EXCEPT ![f] = [@ EXCEPT !.chain = chain, !.size = len, !.content = <<>>]]
    <2>1. SubSeq(node[f].content, Len(chain) + 1, len) = <<>>
        BY <1>7, <1>11
    <2> QED
        BY <1>8, <2>1
<1>13. /\ node'[f].chain = chain /\ node'[f].size = len /\ node'[f].content = <<>>
       /\ node'[f].dirty /\ ~node'[f].loaded /\ node'[f].slot = node[f].slot
       /\ \A g \in Files : g # f => node'[g] = node[g]
    BY <1>10, <1>12 DEF NodeType
<1> DEFINE own2 == [own EXCEPT ![f] = chain]
<1>14. /\ own2 \in [Files -> Paths] /\ own2[f] = chain
       /\ \A g \in Files : g # f => own2[g] = own[g]
    BY <1>6
<1>15. bam'.free = Sectors \ (Reserved \cup Owned(own2))
    BY <1>6, <1>8
<1> HIDE DEF own2
<1>16. Shapes'
    <2>1. node' \in [Files -> NodeType]
        BY <1>6, <1>10, <1>11, <1>12 DEF NodeType
    <2>2. DOMAIN stored' = Files
        BY <1>8 DEF Sound, Shapes
    <2> QED
        BY <1>8, <1>9, <2>1, <2>2 DEF Sound, Shapes, NodeType
<1>17. ChainsOf(own2)'
    <2>1. \A g \in Files : Range(own2[g]) \cap Reserved = {}
        BY <1>6, <1>14 DEF Sound, ChainsOf
    <2>2. \A g, h \in Files : g # h => Range(own2[g]) \cap Range(own2[h]) = {}
        <3> SUFFICES ASSUME NEW g \in Files, NEW h \in Files, g # h
                     PROVE  Range(own2[g]) \cap Range(own2[h]) = {}
            OBVIOUS
        <3>1. CASE g = f
            BY <1>6, <1>14, <3>1
        <3>2. CASE h = f
            BY <1>6, <1>14, <3>2
        <3>3. CASE g # f /\ h # f
            BY <1>14, <3>3 DEF Sound, ChainsOf
        <3> QED
            BY <3>1, <3>2, <3>3
    <2>3. ASSUME NEW g \in Files
          PROVE  /\ Len(own2[g]) <= MaxPieces /\ Linked(own2[g])'
                 /\ stored'[g] = [j \in 1 .. Len(own2[g]) |-> piece'[own2[g][j]]]
        <3>1. CASE g = f
            <4>1. own2[g] = chain
                BY <1>14, <3>1
            <4>2. len <= MaxPieces
                BY <1>5, <1>10 DEF MadeAs
            <4>3. Linked(chain)'
                <5>1. ASSUME NEW j \in 1 .. Len(chain) - 1 PROVE link'[chain[j]] = chain[j + 1]
                    <6>1. j \in 1 .. Len(chain) /\ j # Len(chain)
                        BY <1>6
                    <6> QED
                        BY <1>9, <6>1
                <5>2. link'[chain[Len(chain)]] = End
                    BY <1>6, <1>9
                <5> QED
                    BY <5>1, <5>2 DEF Linked
            <4>4. stored'[f] = text
                BY <1>8 DEF Sound, Shapes
            <4>5. text = [j \in 1 .. Len(chain) |-> text[j]]
                BY <1>6, <1>11 DEF Texts
            <4>6. text = [j \in 1 .. Len(chain) |-> piece'[chain[j]]]
                BY <1>9, <4>5
            <4> QED
                BY <1>6, <3>1, <4>1, <4>2, <4>3, <4>4, <4>6
        <3>2. CASE g # f
            <4>1. own2[g] = own[g] /\ own[g] \in Paths /\ DOMAIN own[g] = 1 .. Len(own[g])
                BY <1>14, <3>2, PathShape
            <4>2. ASSUME NEW j \in 1 .. Len(own[g])
                  PROVE  link'[own[g][j]] = link[own[g][j]] /\ piece'[own[g][j]] = piece[own[g][j]]
                <5>1. own[g][j] \in Sectors /\ own[g][j] \in Range(own[g])
                    BY <4>1, PathShape DEF Range
                <5>2. own[g][j] \notin Range(chain)
                    BY <1>6, <3>2, <5>1
                <5> QED
                    BY <1>9, <5>1, <5>2
            <4>3. /\ Len(own[g]) <= MaxPieces /\ Linked(own[g])
                  /\ stored[g] = [j \in 1 .. Len(own[g]) |-> piece[own[g][j]]]
                BY DEF Sound, ChainsOf
            <4>4. Linked(own[g])'
                <5>1. Len(own[g]) \in Nat /\ (own[g] # <<>> => Len(own[g]) \in 1 .. Len(own[g]))
                    BY <4>1, PathShape, EmptySeq
                <5>2. \A j \in 1 .. Len(own[g]) - 1 : j \in 1 .. Len(own[g])
                    BY <5>1
                <5> QED
                    BY <4>2, <4>3, <5>1, <5>2 DEF Linked
            <4>5. stored'[g] = stored[g]
                BY <1>8, <3>2 DEF Sound, Shapes
            <4>6. [j \in 1 .. Len(own[g]) |-> piece[own[g][j]]]
                    = [j \in 1 .. Len(own[g]) |-> piece'[own[g][j]]]
                BY <4>2
            <4> QED
                BY <4>1, <4>3, <4>4, <4>5, <4>6
        <3> QED
            BY <3>1, <3>2
    <2> QED
        BY <2>1, <2>2, <2>3 DEF ChainsOf
<1>18. MapOf(own2)'
    BY <1>8, <1>15 DEF MapOf
<1>19. link'[DirStart] = link[DirStart] /\ entries'[DirStart] = entries[DirStart]
    <2>1. DirStart \in Sectors /\ DirStart \in Reserved
        BY GeometryAssumption DEF Reserved
    <2> QED
        BY <1>6, <1>9, <2>1
<1>20. \A g : g # f => ~AtWork(g) /\ ~Pending(g) /\ ~Pending(g)'
    BY <1>3, <1>8, <1>10 DEF AtWork, Pending, Current
<1>21. Pending(f)' /\ AtWork(f)' /\ chain # <<>>
    BY <1>3, <1>6, <1>8, <1>10 DEF AtWork, Pending, Current
<1>22. DirectoryOf(own2, home)'
    <2>1. ASSUME NEW g \in Files, home[g] \in Slots
          PROVE  /\ own2[g] # <<>>
                 /\ entries[DirStart][home[g]].file = g
                 /\ entries[DirStart][home[g]].start \in Sectors
                 /\ ~Pending(g)' => entries[DirStart][home[g]] = EntryOf(own2, g)
        <3>1. /\ own[g] # <<>>
              /\ entries[DirStart][home[g]].file = g
              /\ entries[DirStart][home[g]].start \in Sectors
              /\ ~Pending(g) => entries[DirStart][home[g]] = EntryOf(own, g)
            BY <2>1 DEF Sound, DirectoryOf
        <3>2. CASE g = f
            BY <1>14, <1>21, <3>1, <3>2
        <3>3. CASE g # f
            BY <1>14, <1>20, <3>1, <3>3 DEF EntryOf
        <3> QED
            BY <3>2, <3>3
    <2>2. \A g \in Files : own2[g] # <<>> /\ ~Pending(g)' => home[g] \in Slots
        BY <1>14, <1>20, <1>21 DEF Sound, DirectoryOf
    <2>3. link[DirStart] = End
          /\ \A i \in Slots : entries[DirStart][i] = Unused \/ \E g \in Files : home[g] = i
        BY DEF Sound, DirectoryOf
    <2>4. \A g \in Files : EntryOf(own2, g)' = EntryOf(own2, g)
        BY DEF EntryOf
    <2> QED
        BY <1>19, <2>1, <2>2, <2>3, <2>4 DEF DirectoryOf
<1>23. MadeAs(own2, home, f)'
    <2>1. Len(<<>>) = 0 /\ MaxPieces \in Nat
        BY BoundsAssumption
    <2> QED
        BY <1>6, <1>10, <1>13, <1>14, <1>19, <1>21, <2>1 DEF MadeAs, SlotOf
<1>24. NodesOf(own2, home)'
    <2>1. ASSUME NEW g \in Range(nodes)
          PROVE  /\ IF node'[g].loaded THEN LoadedAs(own2, home, g)' ELSE MadeAs(own2, home, g)'
                 /\ ~node'[g].dirty => own2[g] # <<>>
        <3>1. CASE g = f
            BY <1>13, <1>23, <3>1
        <3>2. CASE g # f
            <4>1. g \in Files /\ node'[g] = node[g] /\ own2[g] = own[g] /\ home[g] = home[g]
                BY <1>13, <1>14, <3>2 DEF Sound, Shapes, Range
            <4>2. ~AtWork(g) /\ ~Pending(g)
                BY <1>20, <3>2
            <4>3. /\ LoadedAs(own, home, g) => LoadedAs(own2, home, g)'
                  /\ MadeAs(own, home, g) => MadeAs(own2, home, g)'
                BY <4>1, <4>2, OtherKept, Zenon
            <4>4. /\ IF node[g].loaded THEN LoadedAs(own, home, g) ELSE MadeAs(own, home, g)
                  /\ ~node[g].dirty => own[g] # <<>>
                BY DEF Sound, NodesOf
            <4> QED
                BY <4>1, <4>3, <4>4
        <3> QED
            BY <3>1, <3>2
    <2>2. \A g \in Files : g \notin Range(nodes') => own2[g] = <<>>
        BY <1>8, <1>10, <1>14 DEF Sound, NodesOf
    <2> QED
        BY <1>8, <2>1, <2>2 DEF NodesOf
<1>25. SaveOf'
    <2>1. \A k \in 1 .. Len(nodes) : nodes[k] \in Files
        BY DEF Sound, Shapes
    <2>2. \A g \in Files : node'[g].dirty => node[g].dirty
        BY <1>10, <1>13
    <2>3. \A k \in 1 .. Len(nodes) : node[nodes[k]].dirty => k >= at
        BY DEF Sound, SaveOf
    <2>4. /\ nodes[at] = f /\ node'[f].dirty /\ node'[f].slot # NoSlot /\ node'[f].chain # <<>>
        BY <1>3, <1>10, <1>13, <1>21 DEF Current
    <2> QED
        BY <1>8, <1>10, <2>1, <2>2, <2>3, <2>4 DEF SaveOf
<1>26. Sound(own2, home)'
    BY <1>16, <1>17, <1>18, <1>22, <1>24, <1>25 DEF Sound
<1> QED
    BY <1>14, <1>26

\* What filesystemEntrySave writes at the place of an entry is that entry only.
LEMMA AfterShape ==
    ASSUME NEW i \in Slots, NEW j \in Slots, NEW old, NEW new
    PROVE  After(j, 32 * i, old, new) = IF j = i THEN new ELSE old
<1>1. i \in Nat /\ j \in Nat
    BY SlotShape
<1>2. CASE j = i
    BY <1>1, <1>2 DEF After
<1>3. CASE j # i
    <2>1. 32 * i # j * 32
        BY <1>1, <1>3
    <2>2. Written(32 * i) \subseteq 32 * i .. 32 * i + 31
        BY <1>1 DEF Written
    <2>3. (32 * i .. 32 * i + 31) \cap (j * 32 .. j * 32 + 31) = {}
        BY <1>1, <1>3
    <2>4. Written(32 * i) \cap (j * 32 .. j * 32 + 31) = {}
        BY <2>2, <2>3
    <2> QED
        BY <1>3, <2>1, <2>4 DEF After
<1> QED
    BY <1>2, <1>3

\* The entry written is that of the new chain, and the file's home is its slot.
LEMMA SaveEntryKeeps ==
    ASSUME Uncrowded, NEW own \in [Files -> Paths], NEW home \in Homes, Sound(own, home), SaveEntry
    PROVE  \E home2 \in Homes : Sound(own, home2)'
<1>1. /\ pc = "entry" /\ at \in 1 .. Len(nodes) /\ Current \in Range(nodes) /\ Current \in Files
      /\ node[Current].dirty /\ node[Current].slot # NoSlot /\ node[Current].chain # <<>>
      /\ node \in [Files -> NodeType]
    <2>1. pc = "entry" /\ at \in 1 .. Len(nodes)
        BY DEF SaveEntry, Sound, SaveOf
    <2> QED
        BY <2>1 DEF Sound, SaveOf, Current, Shapes, Range, NodeType
<1>2. PICK f \in Files : f = Current
    BY <1>1
<1>3. /\ f \in Range(nodes) /\ node[f].dirty /\ ~node[f].loaded
      /\ MadeAs(own, home, f) /\ AtWork(f) /\ Pending(f)
    BY <1>1, <1>2 DEF Sound, NodesOf, LoadedAs, AtWork, Pending, Current
<1>4. node[f].chain = own[f] /\ node[f].size = Len(own[f]) /\ own[f] # <<>>
    BY <1>1, <1>2, <1>3 DEF MadeAs
<1>5. PICK i \in Slots : /\ node[f].slot = SlotOf(32 * i)
                         /\ home[f] = i \/ (home[f] \notin Slots /\ entries[DirStart][i] = Unused)
    BY <1>1, <1>2, <1>3 DEF MadeAs
<1>6. /\ bam' = bam /\ nodes' = nodes /\ link' = link /\ diskBam' = diskBam
      /\ version' = version /\ stored' = stored /\ at' = at + 1 /\ pc' = "save"
      /\ piece' = [piece EXCEPT ![DirStart] = NoPiece]
      /\ node' = [node EXCEPT ![f].dirty = FALSE]
      /\ entries' = WithEntry(SlotOf(32 * i), EntryOf(own, f))
    <2>1. node[f].slot.ts = DirStart
        BY <1>5 DEF SlotOf
    <2> QED
        BY <1>2, <1>4, <1>5, <2>1 DEF SaveEntry, NextNode, history, Update, EntryOf
<1>7. /\ DOMAIN entries' = Sectors
      /\ \A j \in Slots : entries'[DirStart][j]
            = IF j = i THEN EntryOf(own, f) ELSE entries[DirStart][j]
    <2>1. SlotOf(32 * i).ts = DirStart /\ SlotOf(32 * i).offset = 32 * i
        BY DEF SlotOf
    <2>2. entries' = [entries EXCEPT ![DirStart] =
              [j \in Slots |-> After(j, 32 * i, entries[DirStart][j], EntryOf(own, f))]]
        BY <1>6, <2>1 DEF WithEntry
    <2>3. DOMAIN entries = Sectors /\ DirStart \in Sectors
        BY GeometryAssumption DEF Sound, Shapes
    <2>4. entries'[DirStart] =
              [j \in Slots |-> After(j, 32 * i, entries[DirStart][j], EntryOf(own, f))]
        BY <2>2, <2>3
    <2> QED
        BY <2>2, <2>3, <2>4, AfterShape
<1> DEFINE home2 == [home EXCEPT ![f] = i]
<1>8. /\ home2 \in Homes /\ home2[f] = i
      /\ \A g \in Files : g # f => home2[g] = home[g]
    BY DEF Homes
<1> HIDE DEF home2
<1>9. /\ \A g : ~Pending(g)'
      /\ \A g : g # f => ~Pending(g) /\ ~AtWork(g)
    BY <1>1, <1>2, <1>6 DEF Pending, AtWork, Current
<1>10. /\ node'[f].chain = node[f].chain /\ node'[f].size = node[f].size
       /\ node'[f].content = node[f].content
       /\ ~node'[f].dirty /\ ~node'[f].loaded /\ node'[f].slot = node[f].slot
       /\ \A g \in Files : g # f => node'[g] = node[g]
    BY <1>1, <1>3, <1>6 DEF NodeType
<1>11. Shapes'
    <2>1. node' \in [Files -> NodeType]
        BY <1>1, <1>6 DEF NodeType
    <2> QED
        BY <1>6, <1>7, <2>1 DEF Sound, Shapes, NodeType
<1>12. ChainsOf(own)'
    <2>1. ASSUME NEW g \in Files
          PROVE  stored[g] = [j \in 1 .. Len(own[g]) |-> piece'[own[g][j]]]
        <3>1. ASSUME NEW j \in 1 .. Len(own[g])
              PROVE  piece'[own[g][j]] = piece[own[g][j]]
            <4>1. own[g][j] \in Range(own[g])
                BY PathShape DEF Range
            <4>2. own[g][j] # DirStart
                BY <4>1 DEF Sound, ChainsOf, Reserved
            <4> QED
                BY <1>6, <4>2
        <3>2. stored[g] = [j \in 1 .. Len(own[g]) |-> piece[own[g][j]]]
            BY DEF Sound, ChainsOf
        <3> QED
            BY <3>1, <3>2
    <2> QED
        BY <1>6, <2>1 DEF Sound, ChainsOf, Linked
<1>13. MapOf(own)'
    BY <1>6 DEF Sound, MapOf
<1>14. EntryOf(own, f).file = f /\ EntryOf(own, f).start \in Sectors
    <2>1. own[f] \in Seq(Sectors) /\ Len(own[f]) > 0
        BY <1>4, PathShape, EmptySeq
    <2> QED
        BY <2>1 DEF EntryOf
<1>15. ASSUME NEW g \in Files, g # f, home[g] \in Slots
       PROVE  /\ own[g] # <<>> /\ home[g] # i
              /\ entries[DirStart][home[g]] = EntryOf(own, g)
              /\ entries[DirStart][home[g]].file = g
              /\ entries[DirStart][home[g]].start \in Sectors
    <2>1. /\ own[g] # <<>> /\ entries[DirStart][home[g]] = EntryOf(own, g)
          /\ entries[DirStart][home[g]].file = g
          /\ entries[DirStart][home[g]].start \in Sectors
        BY <1>9, <1>15 DEF Sound, DirectoryOf
    <2>2. home[g] # i
        <3>1. CASE home[f] = i
            <4>1. entries[DirStart][i].file = f
                BY <3>1 DEF Sound, DirectoryOf
            <4> QED
                BY <1>15, <2>1, <4>1
        <3>2. CASE entries[DirStart][i] = Unused
            BY <2>1, <3>2, SectorShape DEF Unused
        <3> QED
            BY <1>5, <3>1, <3>2
    <2> QED
        BY <2>1, <2>2
<1>16. DirectoryOf(own, home2)'
    <2>1. ASSUME NEW j \in Slots
          PROVE  entries'[DirStart][j] = Unused \/ \E g \in Files : home2[g] = j
        <3>1. CASE j = i
            BY <1>8, <3>1
        <3>2. CASE j # i
            <4>1. entries'[DirStart][j] = entries[DirStart][j]
                BY <1>7, <3>2
            <4>2. entries[DirStart][j] = Unused \/ \E g \in Files : home[g] = j
                BY DEF Sound, DirectoryOf
            <4>3. home[f] # j
                BY <1>5, <3>2
            <4> QED
                BY <1>8, <4>1, <4>2, <4>3
        <3> QED
            BY <3>1, <3>2
    <2>2. ASSUME NEW g \in Files, home2[g] \in Slots
          PROVE  /\ own[g] # <<>>
                 /\ entries'[DirStart][home2[g]].file = g
                 /\ entries'[DirStart][home2[g]].start \in Sectors
                 /\ entries'[DirStart][home2[g]] = EntryOf(own, g)
        <3>1. CASE g = f
            BY <1>4, <1>7, <1>8, <1>14, <3>1
        <3>2. CASE g # f
            BY <1>7, <1>8, <1>15, <2>2, <3>2
        <3> QED
            BY <3>1, <3>2
    <2>3. \A g \in Files : own[g] # <<>> => home2[g] \in Slots
        BY <1>8, <1>9 DEF Sound, DirectoryOf
    <2>4. link'[DirStart] = End
        BY <1>6 DEF Sound, DirectoryOf
    <2>5. \A g \in Files : EntryOf(own, g)' = EntryOf(own, g)
        BY DEF EntryOf
    <2> QED
        BY <2>1, <2>2, <2>3, <2>4, <2>5 DEF DirectoryOf
<1>17. MadeAs(own, home2, f)'
    BY <1>3, <1>4, <1>5, <1>8, <1>10 DEF MadeAs, SlotOf
<1>18. NodesOf(own, home2)'
    <2>1. ASSUME NEW g \in Range(nodes)
          PROVE  /\ IF node'[g].loaded THEN LoadedAs(own, home2, g)' ELSE MadeAs(own, home2, g)'
                 /\ ~node'[g].dirty => own[g] # <<>>
        <3>1. CASE g = f
            BY <1>4, <1>10, <1>17, <3>1
        <3>2. CASE g # f
            <4>1. g \in Files /\ node'[g] = node[g] /\ own[g] = own[g] /\ home2[g] = home[g]
                BY <1>8, <1>10, <3>2 DEF Sound, Shapes, Range
            <4>2. ~AtWork(g) /\ ~Pending(g)
                BY <1>9, <3>2
            <4>3. /\ LoadedAs(own, home, g) => LoadedAs(own, home2, g)'
                  /\ MadeAs(own, home, g) => MadeAs(own, home2, g)'
                BY <4>1, <4>2, OtherKept, Zenon
            <4>4. /\ IF node[g].loaded THEN LoadedAs(own, home, g) ELSE MadeAs(own, home, g)
                  /\ ~node[g].dirty => own[g] # <<>>
                BY DEF Sound, NodesOf
            <4> QED
                BY <4>1, <4>3, <4>4
        <3> QED
            BY <3>1, <3>2
    <2>2. \A g \in Files : g \notin Range(nodes') => own[g] = <<>>
        BY <1>6 DEF Sound, NodesOf
    <2> QED
        BY <1>6, <2>1, <2>2 DEF NodesOf
<1>19. SaveOf'
    <2>1. ASSUME NEW k \in 1 .. Len(nodes), node'[nodes[k]].dirty PROVE k >= at + 1
        <3>1. nodes[k] \in Files
            BY DEF Sound, Shapes
        <3>2. nodes[k] # f
            BY <1>10, <2>1
        <3>3. node[nodes[k]].dirty
            BY <1>10, <2>1, <3>1, <3>2
        <3>4. k >= at /\ k # at
            BY <1>2, <3>2, <3>3 DEF Sound, SaveOf, Current
        <3> QED
            BY <1>1, <3>4
    <2> QED
        BY <1>1, <1>6, <2>1 DEF SaveOf
<1>20. Sound(own, home2)'
    BY <1>11, <1>12, <1>13, <1>16, <1>18, <1>19 DEF Sound
<1> QED
    BY <1>8, <1>20

-----------------------------------------------------------------------------
(* Loading, and what is found in the directory *)

\* Between calls the entries of the directory are those of the files that have
\* a chain, each in a slot of its own.
LEMMA EntriesFound ==
    ASSUME Uncrowded, NEW own \in [Files -> Paths], NEW home \in Homes, Sound(own, home),
           pc = "idle"
    PROVE  /\ Range(Directory) = {DirStart} /\ Len(Directory) = 1 /\ Directory[1] = DirStart
           /\ \A x \in InUse : \E f \in Files :
                 /\ home[f] \in Slots /\ own[f] # <<>> /\ own[f] \in Paths
                 /\ x = SlotOf(32 * home[f]) /\ EntryAt(x) = EntryOf(own, f)
           /\ \A f \in Files : own[f] # <<>> =>
                 /\ home[f] \in Slots /\ SlotOf(32 * home[f]) \in InUse
                 /\ EntryAt(SlotOf(32 * home[f])) = EntryOf(own, f)
           /\ IsFiniteSet(InUse)
<1> DEFINE used == {j \in Slots : (entries[DirStart][j] = Unused) = FALSE}
<1>1. Range(Directory) = {DirStart} /\ Len(Directory) = 1 /\ Directory[1] = DirStart
    <2>1. Directory = <<DirStart>> /\ Len(Directory) = 1 /\ Directory[1] = DirStart
        BY DirectoryFound DEF Sound, DirectoryOf
    <2>2. Range(<<DirStart>>) = {DirStart}
        BY DEF Range
    <2> QED
        BY <2>1, <2>2
<1>2. InUse = SlotsIn(DirStart, FALSE)
    BY <1>1 DEF InUse
<1>3. InUse = {SlotOf(32 * i) : i \in used}
    BY <1>2, SlotShape, Zenon
<1>4. used = {j \in Slots : entries[DirStart][j] # Unused}
    OBVIOUS
<1> HIDE DEF used
<1>5. \A i \in Slots : EntryAt(SlotOf(32 * i)) = entries[DirStart][i]
    <2> SUFFICES ASSUME NEW i \in Slots PROVE EntryAt(SlotOf(32 * i)) = entries[DirStart][i]
        OBVIOUS
    <2>1. (32 * i) \div 32 = i
        BY SlotShape
    <2> QED
        BY <2>1 DEF EntryAt, SlotOf
<1>6. \A f \in Files : home[f] \in Slots =>
          /\ own[f] # <<>> /\ entries[DirStart][home[f]] = EntryOf(own, f)
          /\ entries[DirStart][home[f]].start \in Sectors
    BY IdleNodes DEF Sound, DirectoryOf
<1>7. ASSUME NEW x \in InUse
      PROVE  \E f \in Files :
                 /\ home[f] \in Slots /\ own[f] # <<>> /\ own[f] \in Paths
                 /\ x = SlotOf(32 * home[f]) /\ EntryAt(x) = EntryOf(own, f)
    <2>1. PICK i \in used : x = SlotOf(32 * i)
        BY <1>3
    <2>2. i \in Slots /\ entries[DirStart][i] # Unused
        BY <1>4
    <2>3. PICK f \in Files : home[f] = i
        BY <2>2 DEF Sound, DirectoryOf
    <2> QED
        BY <1>5, <1>6, <2>1, <2>2, <2>3
<1>8. ASSUME NEW f \in Files, own[f] # <<>>
      PROVE  /\ home[f] \in Slots /\ SlotOf(32 * home[f]) \in InUse
             /\ EntryAt(SlotOf(32 * home[f])) = EntryOf(own, f)
    <2>1. home[f] \in Slots
        BY <1>8, IdleNodes
    <2>2. entries[DirStart][home[f]] # Unused
        BY <1>6, <2>1, SectorShape DEF Unused
    <2> QED
        BY <1>3, <1>4, <1>5, <1>6, <2>1, <2>2
<1>9. IsFiniteSet(InUse)
    <2> DEFINE index == [x \in InUse |-> CHOOSE i \in Slots : x = SlotOf(32 * i)]
    <2>1. \A x \in InUse : \E i \in Slots : x = SlotOf(32 * i)
        BY <1>7
    <2>2. \A x \in InUse : index[x] \in Slots /\ x = SlotOf(32 * index[x])
        BY <2>1
    <2>3. index \in [InUse -> Slots]
        BY <2>2
    <2>4. \A x, y \in InUse : index[x] = index[y] => x = y
        BY <2>2
    <2> HIDE DEF index
    <2>5. index \in Injection(InUse, Slots)
        BY <2>3, <2>4 DEF Injection, IsInjective
    <2>6. IsFiniteSet(Slots)
        <3>1. 0 \in Int /\ EntryCount - 1 \in Int
            BY EntryAssumption
        <3> QED
            BY <3>1, FS_Interval DEF Slots
    <2> QED
        BY <2>5, <2>6, FS_Injection
<1> QED
    BY <1>1, <1>7, <1>8, <1>9

\* What is loaded are the files that have a chain.
LEMMA LoadKeeps ==
    ASSUME Uncrowded, NEW own \in [Files -> Paths], NEW home \in Homes, Sound(own, home), Load
    PROVE  Sound(own, home)'
<1> DEFINE N == Cardinality(InUse)
           ofFile(f) == CHOOSE x \in InUse : EntryAt(x).file = f
<1>1. /\ pc = "idle" /\ pc' = pc /\ at' = at /\ bam' = diskBam /\ diskBam' = diskBam
      /\ link' = link /\ piece' = piece /\ entries' = entries
      /\ version' = version /\ stored' = stored
      /\ nodes' = [j \in 1 .. N |-> EntryAt(SlotAt(j)).file]
      /\ node' = [f \in Files |->
            IF \E x \in InUse : EntryAt(x).file = f
            THEN [dirty |-> FALSE, content |-> <<>>,
                  chain |-> <<EntryAt(ofFile(f)).start>>,
                  size |-> EntryAt(ofFile(f)).size,
                  slot |-> [ts |-> ofFile(f).ts,
                            offset |-> LoadOffset(ofFile(f).offset \div 32)],
                  loaded |-> TRUE]
            ELSE NewNode(<<>>)]
    BY DEF Load, source, history
<1>2. /\ N \in Nat
      /\ \A j \in 1 .. N : SlotAt(j) \in InUse
      /\ \A j, k \in 1 .. N : SlotAt(j) = SlotAt(k) => j = k
      /\ \A x \in InUse : \E j \in 1 .. N : SlotAt(j) = x
    BY <1>1, SlotRanks
<1>3. /\ \A x \in InUse : \E f \in Files :
            /\ home[f] \in Slots /\ own[f] # <<>> /\ own[f] \in Paths
            /\ x = SlotOf(32 * home[f]) /\ EntryAt(x) = EntryOf(own, f)
      /\ \A f \in Files : own[f] # <<>> =>
            /\ home[f] \in Slots /\ SlotOf(32 * home[f]) \in InUse
            /\ EntryAt(SlotOf(32 * home[f])) = EntryOf(own, f)
    BY <1>1, EntriesFound
<1>4. \A f \in Files : EntryOf(own, f).file = f
    BY DEF EntryOf
<1>5. \A x \in InUse, f \in Files : EntryAt(x).file = f => own[f] # <<>> /\ x = SlotOf(32 * home[f])
    BY <1>3, <1>4
<1>6. \A f \in Files : (\E x \in InUse : EntryAt(x).file = f) <=> own[f] # <<>>
    BY <1>3, <1>4, <1>5
<1>7. \A f \in Files : own[f] # <<>> => ofFile(f) = SlotOf(32 * home[f])
    <2> SUFFICES ASSUME NEW f \in Files, own[f] # <<>> PROVE ofFile(f) = SlotOf(32 * home[f])
        OBVIOUS
    <2>1. ofFile(f) \in InUse /\ EntryAt(ofFile(f)).file = f
        BY <1>6
    <2> HIDE DEF ofFile
    <2> QED
        BY <1>5, <2>1
<1> HIDE DEF ofFile, N
<1>8. ASSUME NEW f \in Files, own[f] # <<>>
      PROVE  node'[f] = [dirty |-> FALSE, content |-> <<>>, chain |-> <<own[f][1]>>,
                         size |-> Len(own[f]), slot |-> SlotOf(20 * home[f]), loaded |-> TRUE]
    <2>1. home[f] \in Slots /\ EntryAt(SlotOf(32 * home[f])) = EntryOf(own, f)
        BY <1>3, <1>8
    <2>2. /\ EntryOf(own, f).start = own[f][1] /\ EntryOf(own, f).size = Len(own[f])
        BY DEF EntryOf
    <2>3. SlotOf(32 * home[f]).ts = DirStart /\ LoadOffset(SlotOf(32 * home[f]).offset \div 32) = 20 * home[f]
        <3>1. home[f] \in Nat /\ (32 * home[f]) \div 32 = home[f]
            BY <2>1, SlotShape
        <3>2. SlotOf(32 * home[f]).offset = 32 * home[f]
            BY DEF SlotOf
        <3>3. home[f] * 20 = 20 * home[f]
            BY <3>1
        <3>4. LoadOffset(home[f]) = 20 * home[f]
            BY <3>3 DEF LoadOffset
        <3> QED
            BY <3>1, <3>2, <3>4 DEF SlotOf
    <2>4. node'[f] = [dirty |-> FALSE, content |-> <<>>,
                  chain |-> <<EntryAt(ofFile(f)).start>>,
                  size |-> EntryAt(ofFile(f)).size,
                  slot |-> [ts |-> ofFile(f).ts,
                            offset |-> LoadOffset(ofFile(f).offset \div 32)],
                  loaded |-> TRUE]
        BY <1>1, <1>6, <1>8
    <2>5. ofFile(f) = SlotOf(32 * home[f])
        BY <1>7, <1>8
    <2>6. [ts |-> ofFile(f).ts, offset |-> LoadOffset(ofFile(f).offset \div 32)] = SlotOf(20 * home[f])
        BY <2>3, <2>5 DEF SlotOf
    <2> QED
        BY <2>1, <2>2, <2>4, <2>5, <2>6
<1>9. ASSUME NEW f \in Files, own[f] # <<>>
       PROVE  /\ ~node'[f].dirty /\ node'[f].loaded
              /\ node'[f].chain = <<own[f][1]>> /\ node'[f].slot = SlotOf(20 * home[f])
    <2>1. node'[f] = [dirty |-> FALSE, content |-> <<>>, chain |-> <<own[f][1]>>,
                      size |-> Len(own[f]), slot |-> SlotOf(20 * home[f]), loaded |-> TRUE]
        BY <1>8, <1>9
    <2> QED
        BY <2>1
<1>10. \A f \in Files : own[f] = <<>> => node'[f] = NewNode(<<>>)
    BY <1>1, <1>6
<1>11. <<>> \in Texts /\ <<>> \in Paths /\ Len(<<>>) = 0
    BY DEF Texts, Paths, IsInjective
<1>12. \A f \in Files : node'[f] \in NodeType
    <2> SUFFICES ASSUME NEW f \in Files PROVE node'[f] \in NodeType
        OBVIOUS
    <2>1. CASE own[f] = <<>>
        <3>1. NewNode(<<>>) \in NodeType
            BY <1>11 DEF NewNode, NoSlot, NodeType
        <3> QED
            BY <1>10, <2>1, <3>1
    <2>2. CASE own[f] # <<>>
        <3>1. own[f][1] \in Sectors /\ Len(own[f]) \in Nat
            BY <2>2, PathShape, EmptySeq
        <3>2. <<own[f][1]>> \in Paths
            <4>1. <<own[f][1]>> \in Seq(Sectors)
                BY <3>1
            <4>2. IsInjective(<<own[f][1]>>)
                BY DEF IsInjective
            <4> QED
                BY <4>1, <4>2 DEF Paths
        <3>3. 20 * home[f] \in Nat
            BY <1>3, <2>2, SlotShape
        <3>4. SlotOf(20 * home[f]) \in [ts : Sectors \cup {End}, offset : Nat]
            BY <3>3, GeometryAssumption DEF SlotOf
        <3>5. [dirty |-> FALSE, content |-> <<>>, chain |-> <<own[f][1]>>,
               size |-> Len(own[f]), slot |-> SlotOf(20 * home[f]), loaded |-> TRUE] \in NodeType
            BY <1>11, <3>1, <3>2, <3>4 DEF NodeType
        <3>6. node'[f] = [dirty |-> FALSE, content |-> <<>>, chain |-> <<own[f][1]>>,
                          size |-> Len(own[f]), slot |-> SlotOf(20 * home[f]), loaded |-> TRUE]
            BY <1>8, <2>2
        <3> QED
            BY <3>5, <3>6
    <2> QED
        BY <2>1, <2>2
<1>13. node' \in [Files -> NodeType]
    BY <1>1, <1>12
<1>14. /\ nodes' \in Seq(Files) /\ Len(nodes') = N /\ DOMAIN nodes' = 1 .. N
       /\ IsInjective(nodes')
       /\ \A f \in Files : f \in Range(nodes') <=> own[f] # <<>>
    <2>1. \A j \in 1 .. N : nodes'[j] \in Files /\ SlotAt(j) \in InUse /\ nodes'[j] = EntryAt(SlotAt(j)).file
        BY <1>1, <1>2, <1>3, <1>4
    <2>2. nodes' \in [1 .. N -> Files]
        BY <1>1, <2>1
    <2>3. nodes' \in Seq(Files) /\ Len(nodes') = N /\ DOMAIN nodes' = 1 .. N
        BY <1>2, <2>2
    <2>4. \A j, k \in 1 .. N : nodes'[j] = nodes'[k] => j = k
        <3> SUFFICES ASSUME NEW j \in 1 .. N, NEW k \in 1 .. N, nodes'[j] = nodes'[k] PROVE j = k
            OBVIOUS
        <3>1. SlotAt(j) = SlotAt(k)
            BY <1>5, <2>1
        <3> QED
            BY <1>2, <3>1
    <2>5. IsInjective(nodes')
        BY <2>3, <2>4 DEF IsInjective
    <2>6. \A f \in Files : f \in Range(nodes') => own[f] # <<>>
        BY <1>5, <2>1, <2>3 DEF Range
    <2>7. ASSUME NEW f \in Files, own[f] # <<>> PROVE f \in Range(nodes')
        <3>1. SlotOf(32 * home[f]) \in InUse /\ EntryAt(SlotOf(32 * home[f])).file = f
            BY <1>3, <1>4, <2>7
        <3>2. PICK j \in 1 .. N : SlotAt(j) = SlotOf(32 * home[f])
            BY <1>2, <3>1
        <3>3. nodes'[j] = f
            BY <2>1, <3>1, <3>2
        <3> QED
            BY <2>3, <3>3 DEF Range
    <2> QED
        BY <2>3, <2>5, <2>6, <2>7
<1>15. Shapes'
    BY <1>1, <1>13, <1>14 DEF Sound, Shapes, NodeType
<1>16. ChainsOf(own)' /\ MapOf(own)'
    BY <1>1 DEF Sound, ChainsOf, MapOf, Linked
<1>17. \A g : ~Pending(g) /\ ~Pending(g)'
    BY <1>1 DEF Pending
<1>18. DirectoryOf(own, home)'
    BY <1>1, <1>17 DEF Sound, DirectoryOf, EntryOf
<1>19. NodesOf(own, home)'
    <2>1. ASSUME NEW f \in Range(nodes')
          PROVE  node'[f].loaded /\ LoadedAs(own, home, f)' /\ own[f] # <<>>
        <3>1. f \in Files /\ own[f] # <<>>
            BY <1>14 DEF Range
        <3>2. <<own[f][1]>> # <<>> /\ <<own[f][1]>>[1] = own[f][1]
            OBVIOUS
        <3>3. /\ ~node'[f].dirty /\ node'[f].loaded
              /\ node'[f].chain = <<own[f][1]>> /\ node'[f].slot = SlotOf(20 * home[f])
            BY <1>9, <3>1
        <3> QED
            BY <3>1, <3>2, <3>3 DEF LoadedAs, SlotOf
    <2> QED
        BY <1>14, <2>1 DEF NodesOf
<1>20. SaveOf'
    <2>1. ASSUME NEW k \in 1 .. Len(nodes') PROVE ~node'[nodes'[k]].dirty
        <3>1. nodes'[k] \in Files /\ own[nodes'[k]] # <<>>
            BY <1>14, <2>1 DEF Range
        <3> QED
            BY <1>9, <3>1
    <2> QED
        BY <1>1, <2>1 DEF SaveOf
<1> QED
    BY <1>15, <1>16, <1>18, <1>19, <1>20 DEF Sound

-----------------------------------------------------------------------------
(* The invariant is inductive *)

\* A step that changes nothing keeps it.
LEMMA StutterKeeps ==
    ASSUME NEW own \in [Files -> Paths], NEW home \in Homes, Sound(own, home), UNCHANGED vars
    PROVE  Sound(own, home)'
<1>1. /\ pc' = pc /\ at' = at /\ bam' = bam /\ diskBam' = diskBam /\ link' = link
      /\ piece' = piece /\ entries' = entries /\ version' = version /\ stored' = stored
      /\ nodes' = nodes /\ node' = node
    BY DEF vars
<1>2. Shapes'
    BY <1>1 DEF Sound, Shapes
<1>3. ChainsOf(own)' /\ MapOf(own)'
    BY <1>1 DEF Sound, ChainsOf, MapOf, Linked
<1>4. \A g : (Pending(g)' <=> Pending(g)) /\ (AtWork(g)' <=> AtWork(g))
    BY <1>1 DEF Pending, AtWork
<1>5. DirectoryOf(own, home)'
    BY <1>1, <1>4 DEF Sound, DirectoryOf, EntryOf
<1>6. NodesOf(own, home)'
    <2>1. ASSUME NEW g \in Range(nodes)
          PROVE  /\ LoadedAs(own, home, g) => LoadedAs(own, home, g)'
                 /\ MadeAs(own, home, g) => MadeAs(own, home, g)'
        <3>1. node'[g] = node[g] /\ entries' = entries
            BY <1>1
        <3>2. (AtWork(g) => AtWork(g)' \/ home[g] \in Slots) /\ (Pending(g)' <=> Pending(g))
            BY <1>4
        <3> QED
            BY <3>1, <3>2, NodeKept, Zenon
    <2> QED
        BY <1>1, <2>1 DEF Sound, NodesOf
<1>7. SaveOf'
    BY <1>1 DEF Sound, SaveOf
<1> QED
    BY <1>2, <1>3, <1>5, <1>6, <1>7 DEF Sound

\* Each operation, and each step of a save, keeps the invariant.
LEMMA FilesStep == ASSUME Uncrowded, FilesInv, [Next]_vars PROVE FilesInv'
<1>1. PICK own \in [Files -> Paths], home \in Homes : Sound(own, home)
    BY DEF FilesInv
<1>2. pc \in {"idle", "save", "entry"}
    BY <1>1 DEF Sound, SaveOf
<1>3. /\ "format" \notin Ops /\ "remove" \notin Ops /\ "rename" \notin Ops /\ "relabel" \notin Ops
    BY DEF Uncrowded
<1>4. CASE Add
    BY <1>1, <1>4, AddKeeps DEF FilesInv
<1>5. CASE SetContent
    BY <1>1, <1>5, SetContentKeeps DEF FilesInv
<1>6. CASE Read
    BY <1>1, <1>6, ReadKeeps DEF FilesInv
<1>7. CASE Load
    BY <1>1, <1>7, LoadKeeps DEF FilesInv
<1>8. CASE Format \/ Rename \/ RemoveFile
    BY <1>3, <1>8 DEF Format, Rename, RemoveFile
<1>9. CASE SkipClean
    BY <1>1, <1>9, SkipCleanKeeps DEF FilesInv
<1>10. CASE FindIndex
    BY <1>1, <1>10, FindIndexKeeps DEF FilesInv
<1>11. CASE ExtendDirectory \/ DirectoryFull
    BY <1>1, <1>11, NeverFull DEF ExtendDirectory, DirectoryFull
<1>12. CASE NoSpace \/ ContentRunsOut \/ DropContent
    BY <1>1, <1>12, AlwaysRoom
<1>13. CASE WriteContent
    BY <1>1, <1>13, WriteContentKeeps DEF FilesInv
<1>14. CASE SaveEntry
    BY <1>1, <1>14, SaveEntryKeeps DEF FilesInv
<1>15. CASE SaveDone
    BY <1>1, <1>15, SaveDoneKeeps DEF FilesInv
<1>16. CASE RemoveAgain
    BY <1>2, <1>16 DEF RemoveAgain
<1>17. CASE Crashed \/ UNCHANGED vars
    BY <1>1, <1>17, StutterKeeps DEF FilesInv, Crashed
<1> QED
    BY <1>4, <1>5, <1>6, <1>7, <1>8, <1>9, <1>10, <1>11, <1>12, <1>13, <1>14, <1>15, <1>16, <1>17
    DEF Next, Running

-----------------------------------------------------------------------------
(* What follows from it *)

\* An entry leads to the chain of its file.
LEMMA SectorsFound ==
    ASSUME Uncrowded, NEW own \in [Files -> Paths], NEW home \in Homes, Sound(own, home),
           pc = "idle"
    PROVE  /\ System = Reserved
           /\ \A x \in InUse : \E f \in Files :
                 /\ x = SlotOf(32 * home[f]) /\ SectorsOf(x) = Range(own[f])
           /\ \A f \in Files : own[f] # <<>> =>
                 /\ SlotOf(32 * home[f]) \in Entries
                 /\ EntryAt(SlotOf(32 * home[f])).file = f
                 /\ ChainFrom(EntryAt(SlotOf(32 * home[f])).start) = own[f]
<1>1. System = Reserved
    BY EntriesFound DEF System, SystemSectors, Reserved, Uncrowded
<1>2. \A f \in Files : own[f] # <<>> => ChainFrom(EntryOf(own, f).start) = own[f]
    BY ChainFound DEF EntryOf, Sound, ChainsOf
<1>3. \A x \in InUse : \E f \in Files :
          /\ own[f] # <<>> /\ x = SlotOf(32 * home[f]) /\ EntryAt(x) = EntryOf(own, f)
    BY EntriesFound
<1>4. \A x \in InUse : \E f \in Files :
          /\ x = SlotOf(32 * home[f]) /\ SectorsOf(x) = Range(own[f])
    BY <1>2, <1>3 DEF SectorsOf
<1>5. ASSUME NEW f \in Files, own[f] # <<>>
      PROVE  /\ SlotOf(32 * home[f]) \in Entries
             /\ EntryAt(SlotOf(32 * home[f])).file = f
             /\ ChainFrom(EntryAt(SlotOf(32 * home[f])).start) = own[f]
    <2>1. SlotOf(32 * home[f]) \in InUse /\ EntryAt(SlotOf(32 * home[f])) = EntryOf(own, f)
        BY <1>5, EntriesFound
    <2>2. EntryOf(own, f) # Junk /\ EntryOf(own, f).file = f
        <3>1. own[f][1] \in Sectors
            BY <1>5, PathShape, EmptySeq
        <3> QED
            BY <3>1, SectorShape DEF EntryOf, Junk
    <2> QED
        BY <1>2, <1>5, <2>1, <2>2 DEF Entries
<1> QED
    BY <1>1, <1>4, <1>5

\* The saved map has no sector of a file free.
LEMMA FilesFree == ASSUME Uncrowded, FilesInv PROVE FreeMeansUnused
<1> SUFFICES ASSUME pc = "idle"
             PROVE  diskBam.free \cap (System \cup UNION {SectorsOf(x) : x \in Entries}) = {}
    BY DEF FreeMeansUnused
<1>1. PICK own \in [Files -> Paths], home \in Homes : Sound(own, home)
    BY DEF FilesInv
<1>2. diskBam.free = Sectors \ (Reserved \cup Owned(own))
    BY <1>1 DEF Sound, MapOf
<1>3. \A x \in Entries : SectorsOf(x) \subseteq Owned(own)
    BY <1>1, SectorsFound DEF Entries, Owned
<1>4. System = Reserved
    BY <1>1, SectorsFound
<1> QED
    BY <1>2, <1>3, <1>4

\* Entries lead to chains of different files.
LEMMA FilesApart == ASSUME Uncrowded, FilesInv PROVE NoCrossLinks
<1> SUFFICES ASSUME pc = "idle"
             PROVE  /\ \A x \in Entries : SectorsOf(x) \cap System = {}
                    /\ \A x, y \in Entries : x # y => SectorsOf(x) \cap SectorsOf(y) = {}
    BY DEF NoCrossLinks
<1>1. PICK own \in [Files -> Paths], home \in Homes : Sound(own, home)
    BY DEF FilesInv
<1>2. /\ \A f \in Files : Range(own[f]) \cap Reserved = {}
      /\ \A f, g \in Files : f # g => Range(own[f]) \cap Range(own[g]) = {}
    BY <1>1 DEF Sound, ChainsOf
<1>3. /\ System = Reserved
      /\ \A x \in Entries : \E f \in Files :
            x = SlotOf(32 * home[f]) /\ SectorsOf(x) = Range(own[f])
    BY <1>1, SectorsFound DEF Entries
<1>4. \A x, y \in Entries : x # y => SectorsOf(x) \cap SectorsOf(y) = {}
    <2> SUFFICES ASSUME NEW x \in Entries, NEW y \in Entries, x # y
                 PROVE  SectorsOf(x) \cap SectorsOf(y) = {}
        OBVIOUS
    <2>1. PICK f \in Files : x = SlotOf(32 * home[f]) /\ SectorsOf(x) = Range(own[f])
        BY <1>3
    <2>2. PICK g \in Files : y = SlotOf(32 * home[g]) /\ SectorsOf(y) = Range(own[g])
        BY <1>3
    <2>3. f # g
        BY <2>1, <2>2
    <2> QED
        BY <1>2, <2>1, <2>2, <2>3
<1> QED
    BY <1>2, <1>3, <1>4

\* The links of an entry lead to what was stored.
LEMMA FilesReadable == ASSUME Uncrowded, FilesInv PROVE Readable
<1> SUFFICES ASSUME pc = "idle", NEW f \in Files, stored[f] # <<>>
             PROVE  \E x \in Entries :
                       /\ EntryAt(x).file = f
                       /\ LET c == ChainFrom(EntryAt(x).start)
                          IN  [j \in 1 .. Len(c) |-> piece[c[j]]] = stored[f]
    BY DEF Readable
<1>1. PICK own \in [Files -> Paths], home \in Homes : Sound(own, home)
    BY DEF FilesInv
<1>2. stored[f] = [j \in 1 .. Len(own[f]) |-> piece[own[f][j]]]
    BY <1>1 DEF Sound, ChainsOf
<1>3. own[f] # <<>>
    <2> SUFFICES ASSUME own[f] = <<>> PROVE FALSE
        OBVIOUS
    <2>1. Len(own[f]) = 0
        OBVIOUS
    <2>2. stored[f] = <<>>
        BY <1>2, <2>1
    <2> QED
        BY <2>2
<1>4. /\ SlotOf(32 * home[f]) \in Entries
      /\ EntryAt(SlotOf(32 * home[f])).file = f
      /\ ChainFrom(EntryAt(SlotOf(32 * home[f])).start) = own[f]
    BY <1>1, <1>3, SectorsFound
<1> QED
    BY <1>2, <1>4

\* The places nodes remember are of different entries.
LEMMA FilesSlots == ASSUME Uncrowded, FilesInv PROVE SlotsDistinct
<1>1. PICK own \in [Files -> Paths], home \in Homes : Sound(own, home)
    BY DEF FilesInv
<1>2. ASSUME NEW f \in Range(nodes), node[f].slot # NoSlot
      PROVE  \E i \in Slots :
                /\ node[f].slot = SlotOf(20 * i) \/ node[f].slot = SlotOf(32 * i)
                /\ \/ home[f] = i
                   \/ entries[DirStart][i] = Unused /\ AtWork(f)
    <2>1. f \in Files
        BY <1>1 DEF Sound, Shapes, Range
    <2>2. CASE node[f].loaded
        <3>1. ~node[f].dirty /\ own[f] # <<>> /\ node[f].slot = SlotOf(20 * home[f])
            BY <1>1, <2>2 DEF Sound, NodesOf, LoadedAs
        <3>2. ~Pending(f)
            BY <1>1, <3>1 DEF Pending, Sound, SaveOf
        <3>3. home[f] \in Slots
            BY <1>1, <2>1, <3>1, <3>2 DEF Sound, DirectoryOf
        <3> QED
            BY <3>1, <3>3
    <2>3. CASE ~node[f].loaded
        <3>1. MadeAs(own, home, f)
            BY <1>1, <2>3 DEF Sound, NodesOf
        <3> QED
            BY <1>2, <3>1 DEF MadeAs
    <2> QED
        BY <2>2, <2>3
<1>3. \A f \in Files : home[f] \in Slots =>
          entries[DirStart][home[f]].file = f /\ entries[DirStart][home[f]] # Unused
    BY <1>1, SectorShape DEF Sound, DirectoryOf, Unused
<1> SUFFICES ASSUME NEW f \in Range(nodes), NEW g \in Range(nodes), f # g,
                    node[f].slot # NoSlot, node[f].slot = node[g].slot
             PROVE  FALSE
    BY DEF SlotsDistinct
<1>4. f \in Files /\ g \in Files
    BY <1>1 DEF Sound, Shapes, Range
<1>5. PICK i \in Slots : /\ node[f].slot = SlotOf(20 * i) \/ node[f].slot = SlotOf(32 * i)
                         /\ home[f] = i \/ (entries[DirStart][i] = Unused /\ AtWork(f))
    BY <1>2
<1>6. PICK j \in Slots : /\ node[g].slot = SlotOf(20 * j) \/ node[g].slot = SlotOf(32 * j)
                         /\ home[g] = j \/ (entries[DirStart][j] = Unused /\ AtWork(g))
    BY <1>2
<1>7. i = j
    <2>1. i \in Nat /\ i < 8 /\ j \in Nat /\ j < 8
        BY SlotShape
    <2>2. \A a, b : SlotOf(a) = SlotOf(b) => a = b
        BY DEF SlotOf
    <2>3. \/ 20 * i = 20 * j \/ 20 * i = 32 * j \/ 32 * i = 20 * j \/ 32 * i = 32 * j
        BY <1>5, <1>6, <2>2
    <2> QED
        BY <2>1, <2>3
<1>8. ~(AtWork(f) /\ AtWork(g))
    BY DEF AtWork
<1> QED
    BY <1>3, <1>4, <1>5, <1>6, <1>7, <1>8

-----------------------------------------------------------------------------
\* As long as there is room for all files, a sector the saved map has free
\* belongs to no file and to no sector of the system ("1 means free", d64.hpp:67),
\* whatever files are made, given content, loaded and read.
THEOREM FreeIsUnused == ASSUME Uncrowded PROVE Spec => []FreeMeansUnused
<1>1. Init => FilesInv
    BY FilesInit
<1>2. FilesInv /\ [Next]_vars => FilesInv'
    BY FilesStep
<1>3. FilesInv => FreeMeansUnused
    BY FilesFree
<1> QED
    BY <1>1, <1>2, <1>3, PTL DEF Spec

\* Nor does a sector belong to two files: sectorsUse never gives one twice
\* (d64.cpp:479), and a chain that is let go is no longer linked to.
THEOREM ChainsAreApart == ASSUME Uncrowded PROVE Spec => []NoCrossLinks
<1>1. Init => FilesInv
    BY FilesInit
<1>2. FilesInv /\ [Next]_vars => FilesInv'
    BY FilesStep
<1>3. FilesInv => NoCrossLinks
    BY FilesApart
<1> QED
    BY <1>1, <1>2, <1>3, PTL DEF Spec

\* What was saved can be read back: the entry of a file leads along its links to
\* the pieces of its last content, in order (firy-test.cpp:67).
THEOREM SavedIsReadable == ASSUME Uncrowded PROVE Spec => []Readable
<1>1. Init => FilesInv
    BY FilesInit
<1>2. FilesInv /\ [Next]_vars => FilesInv'
    BY FilesStep
<1>3. FilesInv => Readable
    BY FilesReadable
<1> QED
    BY <1>1, <1>2, <1>3, PTL DEF Spec

\* No two files are given the same place in the directory (d64.cpp:394), although
\* a file that was loaded remembers 20 bytes for each entry before its own where
\* there are 32 (d64.cpp:316).
THEOREM PlacesAreApart == ASSUME Uncrowded PROVE Spec => []SlotsDistinct
<1>1. Init => FilesInv
    BY FilesInit
<1>2. FilesInv /\ [Next]_vars => FilesInv'
    BY FilesStep
<1>3. FilesInv => SlotsDistinct
    BY FilesSlots
<1> QED
    BY <1>1, <1>2, <1>3, PTL DEF Spec

=============================================================================
