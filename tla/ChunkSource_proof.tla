------------------------- MODULE ChunkSource_proof -------------------------
(***************************************************************************)
(* A source keeps what is written to it and saves it whole, for any size   *)
(* of chunk, image and transfer (sources::cInterface, source.cpp).         *)
(***************************************************************************)
EXTENDS ChunkSource, SequenceTheorems, WellFoundedInduction, TLAPS

-----------------------------------------------------------------------------
(* Numbers *)

\* The offset of a chunk.
Off(i) == i * ChunkSize

\* Offsets are in the order of the chunks.
LEMMA Offsets ==
    /\ \A a \in Nat : Off(a) \in Nat /\ Off(a + 1) = Off(a) + ChunkSize
    /\ \A a, b \in Nat : a <= b => Off(a) <= Off(b)
    /\ \A a, b \in Nat : a < b => Off(a + 1) <= Off(b)
<1>1. ChunkSize \in Nat
    BY SizeAssumption
<1>2. \A a \in Nat : Off(a) \in Nat /\ Off(a + 1) = Off(a) + ChunkSize
    BY <1>1 DEF Off
<1>3. ASSUME NEW a \in Nat, NEW b \in Nat, a <= b PROVE Off(a) <= Off(b)
    <2>1. PICK c \in Nat : b = a + c
        <3>1. b - a \in Nat /\ b = a + (b - a)
            BY <1>3
        <3> QED
            BY <3>1
    <2>2. Off(b) = Off(a) + c * ChunkSize
        BY <1>1, <2>1 DEF Off
    <2>3. Off(a) \in Nat /\ c * ChunkSize \in Nat
        BY <1>1 DEF Off
    <2> QED
        BY <2>2, <2>3
<1>4. \A a, b \in Nat : a < b => a + 1 \in Nat /\ a + 1 <= b
    OBVIOUS
<1> QED
    BY <1>2, <1>3, <1>4

LEMMA ExtentIs ==
    ASSUME NEW i, NEW n
    PROVE  Extent(i, n) = IF n <= Off(i) THEN 0
                          ELSE IF n >= Off(i + 1) THEN ChunkSize ELSE n - Off(i)
BY DEF Extent, Off

LEMMA ExtentRange ==
    ASSUME NEW i \in Nat, NEW n \in Nat
    PROVE  Extent(i, n) \in Nat /\ Extent(i, n) <= ChunkSize
<1>1. Off(i) \in Nat /\ Off(i + 1) = Off(i) + ChunkSize /\ ChunkSize \in Nat
    BY SizeAssumption, Offsets
<1> QED
    BY <1>1, ExtentIs

\* How far an image of n bytes reaches into chunk i.
LEMMA Extents ==
    ASSUME NEW i \in Nat, NEW n \in Nat
    PROVE  /\ Extent(i, n) \in 0 .. ChunkSize /\ Extent(i, n) \in Nat
           /\ Extent(i, n) = 0 <=> n <= Off(i)
           /\ \A j \in Nat : j < i /\ Extent(i, n) > 0 => Extent(j, n) = ChunkSize
           /\ \A k \in Nat : Off(i) + k < n /\ k < ChunkSize => k < Extent(i, n)
<1>1. ChunkSize \in Nat /\ ChunkSize > 0
    BY SizeAssumption
<1>2. Off(i) \in Nat /\ Off(i + 1) = Off(i) + ChunkSize
    BY Offsets
<1>3. /\ Extent(i, n) \in 0 .. ChunkSize /\ Extent(i, n) \in Nat
      /\ Extent(i, n) = 0 <=> n <= Off(i)
      /\ \A k \in Nat : Off(i) + k < n /\ k < ChunkSize => k < Extent(i, n)
    BY <1>1, <1>2, ExtentIs
<1>4. ASSUME NEW j \in Nat, j < i, Extent(i, n) > 0 PROVE Extent(j, n) = ChunkSize
    <2>1. Off(j + 1) <= Off(i) /\ Off(j) \in Nat /\ Off(j + 1) = Off(j) + ChunkSize
        BY <1>4, Offsets
    <2>2. n > Off(i)
        BY <1>1, <1>2, <1>3, <1>4
    <2> QED
        BY <1>1, <1>2, <2>1, <2>2, ExtentIs
<1> QED
    BY <1>3, <1>4

\* A set of naturals below a bound has a greatest element, and a least one.
LEMMA LeastOf ==
    ASSUME NEW S \in SUBSET Nat, S # {}
    PROVE  Least(S) \in S /\ \A j \in S : Least(S) <= j
<1>1. \E i \in S : \A j \in S : ~(<<j, i>> \in OpToRel(<, Nat))
    BY NatLessThanWellFounded, WFMin, Zenon
<1>2. \E i \in S : \A j \in S : ~(j < i)
    BY <1>1, Zenon DEF OpToRel
<1>3. \E i \in S : \A j \in S : i <= j
    BY <1>2
<1> QED
    BY <1>3 DEF Least

LEMMA GreatestOf ==
    ASSUME NEW n \in Nat, NEW S \in SUBSET (0 .. n), S # {}
    PROVE  \E i \in S : \A j \in S : j <= i
<1> DEFINE T == {n - j : j \in S}
<1>1. T \in SUBSET Nat /\ T # {}
    <2>1. \A j \in S : n - j \in Nat
        OBVIOUS
    <2> QED
        BY <2>1
<1>2. PICK k \in T : \A m \in T : k <= m
    BY <1>1, LeastOf
<1>3. PICK i \in S : k = n - i
    OBVIOUS
<1>4. \A j \in S : n - i <= n - j
    BY <1>2, <1>3
<1>5. \A j \in S : j \in 0 .. n
    OBVIOUS
<1> QED
    BY <1>3, <1>4, <1>5

-----------------------------------------------------------------------------
(* Contents *)

LEMMA DataShape == \A d : d \in Data <=> d \in Seq(Byte) /\ Len(d) <= ChunkSize
<1>1. ChunkSize \in Nat
    BY SizeAssumption
<1> SUFFICES ASSUME NEW d PROVE d \in Data <=> d \in Seq(Byte) /\ Len(d) <= ChunkSize
    OBVIOUS
<1>2. ASSUME d \in Data PROVE d \in Seq(Byte) /\ Len(d) <= ChunkSize
    <2>1. PICK n \in 0 .. ChunkSize : d \in [1 .. n -> Byte]
        BY <1>2 DEF Data
    <2> QED
        BY <1>1, <2>1
<1>3. ASSUME d \in Seq(Byte), Len(d) <= ChunkSize PROVE d \in Data
    <2>1. Len(d) \in 0 .. ChunkSize /\ d \in [1 .. Len(d) -> Byte]
        BY <1>1, <1>3
    <2> QED
        BY <2>1 DEF Data
<1> QED
    BY <1>2, <1>3

LEMMA ZerosShape ==
    ASSUME NEW n \in Nat
    PROVE  Zeros(n) \in Seq(Byte) /\ Len(Zeros(n)) = n
BY ByteAssumption DEF Zeros

LEMMA PrefixIs ==
    ASSUME NEW s \in Seq(Byte), NEW t \in Seq(Byte)
    PROVE  IsPrefix(s, t) <=> Len(s) <= Len(t) /\ \A j \in 1 .. Len(s) : s[j] = t[j]
<1>1. SubSeq(s, 1, Len(s)) = s
    BY SubSeqFull
<1> SUFFICES ASSUME Len(s) <= Len(t)
             PROVE  SubSeq(t, 1, Len(s)) = s <=> \A j \in 1 .. Len(s) : s[j] = t[j]
    BY <1>1 DEF IsPrefix
<1> DEFINE u == SubSeq(t, 1, Len(s))
<1>2. Len(s) \in Nat /\ Len(t) \in Nat
    OBVIOUS
<1>3. u \in Seq(Byte) /\ Len(u) = Len(s) /\ \A j \in 1 .. Len(s) : u[j] = t[j]
    BY <1>2
<1> HIDE DEF u
<1>4. (\A j \in 1 .. Len(s) : s[j] = t[j]) => u = s
    BY <1>3, SeqEqual
<1>5. u = s => \A j \in 1 .. Len(s) : s[j] = t[j]
    BY <1>3
<1> QED
    BY <1>4, <1>5 DEF u

LEMMA PrefixOfSame == ASSUME NEW s \in Seq(Byte) PROVE IsPrefix(s, s)
BY PrefixIs

\* What follows a prefix does not matter.
LEMMA PrefixOfConcat ==
    ASSUME NEW s \in Seq(Byte), NEW t \in Seq(Byte), NEW u \in Seq(Byte), IsPrefix(s, t)
    PROVE  IsPrefix(s, t \o u)
<1>1. /\ t \o u \in Seq(Byte) /\ Len(t \o u) = Len(t) + Len(u)
      /\ \A j \in 1 .. Len(t) : (t \o u)[j] = t[j]
    BY ConcatProperties
<1>2. Len(s) \in Nat /\ Len(t) \in Nat /\ Len(u) \in Nat
    OBVIOUS
<1>3. Len(s) <= Len(t) /\ \A j \in 1 .. Len(s) : s[j] = t[j]
    BY PrefixIs
<1>4. Len(s) <= Len(t \o u)
    BY <1>1, <1>2, <1>3
<1>5. \A j \in 1 .. Len(s) : s[j] = (t \o u)[j]
    BY <1>1, <1>2, <1>3
<1> QED
    BY <1>1, <1>4, <1>5, PrefixIs

LEMMA WholePrefix ==
    ASSUME NEW s \in Seq(Byte), NEW t \in Seq(Byte), IsPrefix(s, t), Len(t) <= Len(s)
    PROVE  s = t
<1>1. Len(s) = Len(t) /\ \A j \in 1 .. Len(s) : s[j] = t[j]
    BY PrefixIs
<1> QED
    BY <1>1, SeqEqual

-----------------------------------------------------------------------------
(* Files *)

LEMMA ChunkNumbers ==
    /\ MaxChunks \in Nat /\ MaxChunks > 0 /\ ChunkSize \in Nat /\ ChunkSize > 0
    /\ \A i : i \in Chunk <=> i \in Nat /\ i < MaxChunks
    /\ \A i \in Chunk : i \in Nat
BY SizeAssumption DEF Chunk

LEMMA FileShape ==
    ASSUME NEW file \in File, NEW i \in Chunk
    PROVE  file[i] \in Data /\ file[i] \in Seq(Byte) /\ Len(file[i]) \in 0 .. ChunkSize
           /\ (file[i] = <<>> <=> Len(file[i]) = 0)
<1>1. file[i] \in Data
    BY DEF File
<1>2. file[i] \in Seq(Byte) /\ Len(file[i]) <= ChunkSize
    BY <1>1, DataShape
<1> QED
    BY <1>1, <1>2, EmptySeq, ChunkNumbers

\* The length of a file is where its last chunk ends.
LEMMA FileSizeIs ==
    ASSUME NEW file \in File
    PROVE  \/ FileSize(file) = 0 /\ \A i \in Chunk : file[i] = <<>>
           \/ \E last \in Chunk :
                 /\ FileSize(file) = Off(last) + Len(file[last])
                 /\ file[last] # <<>>
                 /\ \A j \in Chunk : j > last => file[j] = <<>>
<1>1. CASE \A i \in Chunk : file[i] = <<>>
    BY <1>1 DEF FileSize
<1>2. CASE ~ \A i \in Chunk : file[i] = <<>>
    <2> DEFINE S == {i \in Chunk : file[i] # <<>>}
               IsLast(i) == file[i] # <<>> /\ \A j \in Chunk : j > i => file[j] = <<>>
               last == CHOOSE i \in Chunk : IsLast(i)
    <2>1. MaxChunks \in Nat /\ S \in SUBSET (0 .. MaxChunks) /\ S # {}
        BY <1>2, ChunkNumbers
    <2>2. PICK i \in S : \A j \in S : j <= i
        BY <2>1, GreatestOf
    <2>3. i \in Chunk /\ IsLast(i)
        BY <2>2, ChunkNumbers
    <2>4. last \in Chunk /\ IsLast(last)
        BY <2>3
    <2>5. FileSize(file) = Off(last) + Len(file[last])
        BY <1>2 DEF FileSize, Off
    <2> HIDE DEF last
    <2> QED
        BY <2>4, <2>5
<1> QED
    BY <1>1, <1>2

\* A file whose chunks are all full but the last is as long as its chunks say.
Solid(file) ==
    \A i, j \in Chunk : j < i /\ file[i] # <<>> => Len(file[j]) = ChunkSize

LEMMA FileSizeBounds ==
    ASSUME NEW file \in File
    PROVE  /\ FileSize(file) \in 0 .. Off(MaxChunks)
           /\ \A i \in Chunk : file[i] # <<>> => Off(i) < FileSize(file)
           /\ \A i \in Chunk : Len(file[i]) <= Extent(i, FileSize(file))
           /\ Solid(file) => \A i \in Chunk : Len(file[i]) = Extent(i, FileSize(file))
<1>1. CASE FileSize(file) = 0 /\ \A i \in Chunk : file[i] = <<>>
    <2>1. \A i \in Chunk : Off(i) \in Nat
        BY Offsets, ChunkNumbers
    <2>2. \A i \in Chunk : Extent(i, 0) = 0
        BY <2>1, ExtentIs
    <2>3. Off(MaxChunks) \in Nat
        BY Offsets, ChunkNumbers
    <2>4. \A i \in Chunk : Len(file[i]) = 0
        BY <1>1, FileShape
    <2> QED
        BY <1>1, <2>2, <2>3, <2>4
<1>2. ASSUME NEW last \in Chunk,
             FileSize(file) = Off(last) + Len(file[last]),
             file[last] # <<>>,
             \A j \in Chunk : j > last => file[j] = <<>>
      PROVE  /\ FileSize(file) \in 0 .. Off(MaxChunks)
             /\ \A i \in Chunk : file[i] # <<>> => Off(i) < FileSize(file)
             /\ \A i \in Chunk : Len(file[i]) <= Extent(i, FileSize(file))
             /\ Solid(file) => \A i \in Chunk : Len(file[i]) = Extent(i, FileSize(file))
    <2> DEFINE n == FileSize(file)
    <2>1. last \in Nat /\ MaxChunks \in Nat /\ last < MaxChunks /\ ChunkSize \in Nat
        BY ChunkNumbers
    <2>2. Len(file[last]) \in 1 .. ChunkSize
        BY <1>2, <2>1, FileShape
    <2>3. /\ Off(last) \in Nat /\ Off(MaxChunks) \in Nat
          /\ Off(last + 1) = Off(last) + ChunkSize
          /\ Off(last + 1) <= Off(MaxChunks)
        BY <2>1, Offsets
    <2> HIDE DEF n
    <2>4. n = Off(last) + Len(file[last]) /\ n \in 0 .. Off(MaxChunks)
        BY <1>2, <2>1, <2>2, <2>3 DEF n
    <2>5. ASSUME NEW i \in Chunk
          PROVE  /\ file[i] # <<>> => Off(i) < n
                 /\ Len(file[i]) <= Extent(i, n)
                 /\ Solid(file) => Len(file[i]) = Extent(i, n)
        <3>1. i \in Nat /\ Off(i) \in Nat /\ Off(i + 1) = Off(i) + ChunkSize
            BY Offsets, ChunkNumbers
        <3>2. Len(file[i]) \in 0 .. ChunkSize
            BY FileShape
        <3>3. CASE i < last
            <4>1. Off(i + 1) <= Off(last)
                BY <2>1, <3>1, <3>3, Offsets
            <4>2. n >= Off(i + 1) /\ n > Off(i)
                BY <2>1, <2>2, <2>3, <2>4, <3>1, <4>1
            <4>3. Extent(i, n) = ChunkSize
                BY <2>3, <2>4, <3>1, <4>2, ExtentIs
            <4>4. Solid(file) => Len(file[i]) = ChunkSize
                BY <1>2, <3>3 DEF Solid
            <4> QED
                BY <2>1, <3>2, <4>2, <4>3, <4>4
        <3>4. CASE i = last
            <4>1. Extent(i, n) = Len(file[last])
                BY <2>1, <2>2, <2>3, <2>4, <3>1, <3>4, ExtentIs
            <4> QED
                BY <2>1, <2>2, <2>3, <2>4, <3>4, <4>1
        <3>5. CASE i > last
            <4>1. Off(last + 1) <= Off(i)
                BY <2>1, <3>1, <3>5, Offsets
            <4>2. n <= Off(i)
                BY <2>1, <2>2, <2>3, <2>4, <3>1, <4>1
            <4>3. Extent(i, n) = 0 /\ file[i] = <<>> /\ Len(file[i]) = 0
                BY <1>2, <3>5, <4>2, FileShape, ExtentIs
            <4> QED
                BY <4>3
        <3> QED
            BY <2>1, <3>1, <3>3, <3>4, <3>5
    <2> QED
        BY <2>4, <2>5 DEF n
<1> QED
    BY <1>1, <1>2, FileSizeIs

\* What a file of n equal bytes has in each chunk.
LEMMA FilledShape ==
    ASSUME NEW n \in Nat, NEW b \in Byte
    PROVE  /\ Filled(n, b) \in File /\ Solid(Filled(n, b))
           /\ \A i \in Chunk : Len(Filled(n, b)[i]) = Extent(i, n)
<1> DEFINE file == Filled(n, b)
<1>1. ASSUME NEW i \in Chunk
      PROVE  file[i] \in Data /\ Len(file[i]) = Extent(i, n) /\ (file[i] # <<>> => Extent(i, n) > 0)
    <2>0. i \in Nat /\ ChunkSize \in Nat
        BY ChunkNumbers
    <2>1. Extent(i, n) \in Nat /\ Extent(i, n) <= ChunkSize
        BY <2>0, ExtentRange
    <2>2. file[i] = [j \in 1 .. Extent(i, n) |-> b]
        BY DEF Filled
    <2>3. file[i] \in Seq(Byte) /\ Len(file[i]) = Extent(i, n)
        BY <2>1, <2>2
    <2>4. file[i] # <<>> => Len(file[i]) > 0
        BY <2>3, EmptySeq
    <2> QED
        BY <2>1, <2>3, <2>4, DataShape
<1>2. file \in File
    BY <1>1 DEF Filled, File
<1> HIDE DEF file
<1>3. Solid(file)
    <2> SUFFICES ASSUME NEW i \in Chunk, NEW j \in Chunk, j < i, file[i] # <<>>
                 PROVE  Len(file[j]) = ChunkSize
        BY DEF Solid
    <2>1. i \in Nat /\ j \in Nat
        BY ChunkNumbers
    <2>2. Extent(i, n) > 0
        BY <1>1
    <2>3. Extent(j, n) = ChunkSize
        BY <2>1, <2>2, Extents
    <2> QED
        BY <1>1, <2>3
<1> QED
    BY <1>1, <1>2, <1>3 DEF file

\* What a write of a chunk leaves in the file.
LEMMA WrittenFile ==
    ASSUME NEW file \in File, NEW i \in Chunk, NEW d \in Data
    PROVE  /\ FileWrite(file, i, d) \in File
           /\ IsPrefix(d, FileWrite(file, i, d)[i])
           /\ d # <<>> => \A j \in Chunk : j <= i => FileWrite(file, i, d)[j] # <<>>
           /\ \A j \in Chunk : j > i => FileWrite(file, i, d)[j] = file[j]
           /\ \A j \in Chunk, s \in Seq(Byte) :
                 j # i /\ IsPrefix(s, file[j]) => IsPrefix(s, FileWrite(file, i, d)[j])
           /\ (/\ Len(file[i]) <= Len(d)
               /\ \A j \in Chunk : j < i => Len(file[j]) = ChunkSize)
                    => FileWrite(file, i, d) = [file EXCEPT ![i] = d]
<1> DEFINE written == FileWrite(file, i, d)
           rest == SubSeq(file[i], Len(d) + 1, Len(file[i]))
           gap(j) == Zeros(ChunkSize - Len(file[j]))
<1>1. d \in Seq(Byte) /\ Len(d) \in 0 .. ChunkSize /\ ChunkSize \in Nat /\ ChunkSize > 0
    BY DataShape, ChunkNumbers
<1>2. \A j \in Chunk : file[j] \in Seq(Byte) /\ Len(file[j]) \in 0 .. ChunkSize
    BY FileShape
<1>3. rest \in Seq(Byte) /\ Len(rest) = IF Len(d) + 1 <= Len(file[i]) THEN Len(file[i]) - Len(d) ELSE 0
    <2>1. \A k \in Len(d) + 1 .. Len(file[i]) : file[i][k] \in Byte
        BY <1>1, <1>2
    <2> QED
        BY <1>1, <1>2, <2>1, SubSeqProperties
<1>4. \A j \in Chunk : gap(j) \in Seq(Byte) /\ Len(gap(j)) = ChunkSize - Len(file[j])
    <2>1. \A j \in Chunk : ChunkSize - Len(file[j]) \in Nat
        BY <1>1, <1>2
    <2> QED
        BY <2>1, ZerosShape
<1> HIDE DEF rest, gap
<1>0. i \in Nat /\ \A j \in Chunk : j \in Nat
    BY ChunkNumbers
<1>5. /\ written[i] = d \o rest
      /\ \A j \in Chunk : j < i => written[j] = file[j] \o gap(j)
      /\ \A j \in Chunk : j > i => written[j] = file[j]
    <2>1. written[i] = d \o rest
        <3>1. ~(i < i) /\ ~(i > i) /\ i = i
            BY <1>0
        <3>2. written[i] = CASE i = i -> d \o SubSeq(file[i], Len(d) + 1, Len(file[i]))
                             [] i < i -> file[i] \o Zeros(ChunkSize - Len(file[i]))
                             [] i > i -> file[i]
            BY DEF FileWrite
        <3>3. written[i] = d \o SubSeq(file[i], Len(d) + 1, Len(file[i]))
            BY <3>1, <3>2
        <3> QED
            BY <3>3 DEF rest
    <2>2. ASSUME NEW j \in Chunk, j < i PROVE written[j] = file[j] \o gap(j)
        <3>1. j # i /\ ~(j > i)
            BY <1>0, <2>2
        <3> QED
            BY <2>2, <3>1 DEF FileWrite, gap
    <2>3. ASSUME NEW j \in Chunk, j > i PROVE written[j] = file[j]
        <3>1. j # i /\ ~(j < i)
            BY <1>0, <2>3
        <3> QED
            BY <2>3, <3>1 DEF FileWrite
    <2> QED
        BY <2>1, <2>2, <2>3
<1>6. /\ d \o rest \in Seq(Byte) /\ Len(d \o rest) = Len(d) + Len(rest)
      /\ \A j \in Chunk : file[j] \o gap(j) \in Seq(Byte)
                            /\ Len(file[j] \o gap(j)) = Len(file[j]) + Len(gap(j))
    BY <1>1, <1>2, <1>3, <1>4, ConcatProperties
<1> HIDE DEF written
<1>7. \A j \in Chunk : written[j] \in Seq(Byte) /\ Len(written[j]) <= ChunkSize
    <2> SUFFICES ASSUME NEW j \in Chunk
                 PROVE  written[j] \in Seq(Byte) /\ Len(written[j]) <= ChunkSize
        OBVIOUS
    <2>1. CASE j = i
        <3>1. written[j] = d \o rest /\ d \o rest \in Seq(Byte) /\ Len(d \o rest) = Len(d) + Len(rest)
            BY <1>5, <1>6, <2>1
        <3>2. Len(d) + Len(rest) <= ChunkSize
            BY <1>1, <1>2, <1>3
        <3> QED
            BY <3>1, <3>2
    <2>2. CASE j < i
        <3>1. /\ written[j] = file[j] \o gap(j) /\ file[j] \o gap(j) \in Seq(Byte)
              /\ Len(file[j] \o gap(j)) = Len(file[j]) + Len(gap(j))
            BY <1>5, <1>6, <2>2
        <3>2. Len(file[j]) + Len(gap(j)) <= ChunkSize
            BY <1>1, <1>2, <1>4
        <3> QED
            BY <3>1, <3>2
    <2>3. CASE j > i
        BY <1>1, <1>2, <1>5, <2>3
    <2> QED
        BY <1>0, <2>1, <2>2, <2>3
<1>8. written \in File
    BY <1>7, DataShape DEF File, FileWrite, written
<1>9. IsPrefix(d, written[i])
    BY <1>1, <1>3, <1>5, PrefixOfSame, PrefixOfConcat
<1>10. ASSUME d # <<>>, NEW j \in Chunk, j <= i PROVE written[j] # <<>>
    <2>1. Len(d) > 0
        BY <1>1, <1>10, EmptySeq
    <2>2. CASE j = i
        <3>1. Len(written[j]) > 0
            BY <1>1, <1>2, <1>3, <1>5, <1>6, <2>1, <2>2
        <3> QED
            BY <3>1
    <2>3. CASE j < i
        <3>1. Len(written[j]) > 0
            BY <1>1, <1>2, <1>4, <1>5, <1>6, <2>3
        <3> QED
            BY <3>1
    <2> QED
        BY <1>0, <1>10, <2>2, <2>3
<1>11. ASSUME NEW j \in Chunk, NEW s \in Seq(Byte), j # i, IsPrefix(s, file[j])
       PROVE  IsPrefix(s, written[j])
    <2>1. CASE j < i
        BY <1>2, <1>4, <1>5, <1>11, <2>1, PrefixOfConcat
    <2>2. CASE j > i
        BY <1>5, <1>11, <2>2
    <2> QED
        BY <1>11, <2>1, <2>2, ChunkNumbers
<1>12. ASSUME Len(file[i]) <= Len(d), \A j \in Chunk : j < i => Len(file[j]) = ChunkSize
       PROVE  written = [file EXCEPT ![i] = d]
    <2>1. rest = <<>>
        BY <1>1, <1>2, <1>12, SubSeqEmpty DEF rest
    <2>2. written[i] = d
        BY <1>1, <1>5, <2>1, ConcatEmptySeq
    <2>3. ASSUME NEW j \in Chunk, j < i PROVE written[j] = file[j]
        <3>1. Len(gap(j)) = 0
            BY <1>1, <1>4, <1>12, <2>3
        <3>2. gap(j) = <<>>
            BY <1>4, <3>1, EmptySeq
        <3> QED
            BY <1>2, <1>5, <2>3, <3>2, ConcatEmptySeq
    <2>4. \A j \in Chunk : written[j] = [file EXCEPT ![i] = d][j]
        BY <1>5, <2>2, <2>3, ChunkNumbers DEF File
    <2> QED
        BY <1>8, <2>4 DEF File
<1> QED
    BY <1>5, <1>8, <1>9, <1>10, <1>11, <1>12 DEF written

-----------------------------------------------------------------------------
(* Chunks and calls *)

\* A call speaks of bytes that the source has, and none is over when it begins.
Limit == IF creating /\ "stray" \notin Faults THEN size ELSE Off(MaxChunks)
CallInv ==
    /\ call.op # "idle" => saved = "no"
    /\ call.op \in {"read", "write"} =>
          call.i \in Chunk /\ Off(call.i) + call.k + Len(call.data) <= Limit

LEMMA CallShape ==
    ASSUME TypeOK
    PROVE  /\ call.op \in {"read", "write", "save", "idle"}
           /\ call = Idle <=> call.op = "idle"
           /\ call.op \in {"read", "write"} =>
                 /\ call.i \in Nat /\ call.k \in Nat /\ call.k < ChunkSize
                 /\ call.data \in Seq(Byte) /\ Len(call.data) \in 1 .. MaxData
                 /\ call = [op |-> call.op, i |-> call.i, k |-> call.k, data |-> call.data]
           /\ call.op = "save" => call.to \in {"own", "copy"} /\ call.old \in File
<1>1. \A d \in UNION {[1 .. n -> Byte] : n \in 1 .. MaxData} :
          d \in Seq(Byte) /\ Len(d) \in 1 .. MaxData
    <2> SUFFICES ASSUME NEW n \in 1 .. MaxData, NEW d \in [1 .. n -> Byte]
                 PROVE  d \in Seq(Byte) /\ Len(d) \in 1 .. MaxData
        OBVIOUS
    <2>1. n \in Nat
        OBVIOUS
    <2> QED
        BY <2>1
<1>2. call \in Call
    BY DEF TypeOK
<1>3. CASE call \in [op : {"read", "write"}, i : 0 .. MaxChunks, k : 0 .. ChunkSize - 1,
                     data : UNION {[1 .. n -> Byte] : n \in 1 .. MaxData}]
    BY <1>1, <1>3, ChunkNumbers DEF Idle
<1>4. CASE call \in [op : {"save"}, to : {"own", "copy"}, old : File]
    BY <1>4 DEF Idle
<1>5. CASE call = Idle
    BY <1>5 DEF Idle
<1> QED
    BY <1>2, <1>3, <1>4, <1>5 DEF Call

LEMMA TransferShape ==
    ASSUME NEW op \in {"read", "write"}, NEW i \in Nat, i <= MaxChunks, NEW k \in Nat, k < ChunkSize,
           NEW d \in Seq(Byte), Len(d) \in 1 .. MaxData
    PROVE  [op |-> op, i |-> i, k |-> k, data |-> d] \in Call
<1>1. d \in [1 .. Len(d) -> Byte]
    OBVIOUS
<1>2. i \in 0 .. MaxChunks /\ k \in 0 .. ChunkSize - 1
    BY ChunkNumbers
<1> QED
    BY <1>1, <1>2 DEF Call

\* What is loaded is a chunk: the cached one, the file's or a new one.
LEMMA LoadedShape ==
    ASSUME TypeOK, NEW i \in Chunk
    PROVE  /\ Loaded(i) \in [data : Data, dirty : BOOLEAN]
           /\ Loaded(i).data \in Seq(Byte) /\ Len(Loaded(i).data) \in 0 .. ChunkSize
           /\ i \in DOMAIN chunks => Loaded(i) = chunks[i]
           /\ i \notin DOMAIN chunks /\ ~(disk[i] = <<>> /\ creating) =>
                 Loaded(i) = [data |-> disk[i], dirty |-> FALSE]
<1>1. Zeros(ChunkSize) \in Data
    BY ZerosShape, DataShape, ChunkNumbers
<1>2. disk[i] \in Data
    BY FileShape DEF TypeOK
<1>3. Loaded(i) \in [data : Data, dirty : BOOLEAN]
    BY <1>1, <1>2 DEF Loaded, FileRead, TypeOK
<1>4. Loaded(i).data \in Data
    BY <1>3
<1>5. Loaded(i).data \in Seq(Byte) /\ Len(Loaded(i).data) <= ChunkSize
    BY <1>4, DataShape
<1> QED
    BY <1>3, <1>5, ChunkNumbers DEF Loaded, FileRead

\* A piece of a transfer, laid over the chunk.
Patched(s, k, t, n) == SubSeq(s, 1, k) \o SubSeq(t, 1, n) \o SubSeq(s, k + n + 1, Len(s))

LEMMA PatchedIs ==
    ASSUME NEW s \in Seq(Byte), NEW t \in Seq(Byte), NEW k \in Nat, NEW n \in Nat,
           n <= Len(t), k + n <= Len(s)
    PROVE  /\ Patched(s, k, t, n) \in Seq(Byte) /\ Len(Patched(s, k, t, n)) = Len(s)
           /\ \A j \in 1 .. Len(s) :
                 Patched(s, k, t, n)[j] = IF j \in k + 1 .. k + n THEN t[j - k] ELSE s[j]
<1> DEFINE a == SubSeq(s, 1, k)
           b == SubSeq(t, 1, n)
           c == SubSeq(s, k + n + 1, Len(s))
<1>0. Len(s) \in Nat /\ Len(t) \in Nat
    OBVIOUS
<1>1. a \in Seq(Byte) /\ Len(a) = k /\ \A j \in 1 .. k : a[j] = s[j]
    <2>1. \A j \in 1 .. k : s[j] \in Byte
        BY <1>0
    <2> QED
        BY <2>1, SubSeqProperties
<1>2. b \in Seq(Byte) /\ Len(b) = n /\ \A j \in 1 .. n : b[j] = t[j]
    <2>1. \A j \in 1 .. n : t[j] \in Byte
        BY <1>0
    <2> QED
        BY <2>1, SubSeqProperties
<1>3. /\ c \in Seq(Byte) /\ Len(c) = Len(s) - (k + n)
      /\ \A j \in 1 .. Len(s) - (k + n) : c[j] = s[k + n + j]
    <2>1. \A j \in k + n + 1 .. Len(s) : s[j] \in Byte
        BY <1>0
    <2>2. /\ c \in Seq(Byte)
          /\ Len(c) = IF k + n + 1 <= Len(s) THEN Len(s) - (k + n + 1) + 1 ELSE 0
          /\ \A j \in 1 .. Len(s) - (k + n + 1) + 1 : c[j] = s[k + n + 1 + j - 1]
        BY <1>0, <2>1, SubSeqProperties
    <2>3. \A j \in 1 .. Len(s) - (k + n) :
              j \in 1 .. Len(s) - (k + n + 1) + 1 /\ k + n + 1 + j - 1 = k + n + j
        BY <1>0
    <2> HIDE DEF c
    <2>4. Len(c) = Len(s) - (k + n)
        BY <1>0, <2>2
    <2> QED
        BY <2>2, <2>3, <2>4
<1> HIDE DEF a, b, c
<1>4. /\ a \o b \in Seq(Byte) /\ Len(a \o b) = k + n
      /\ \A j \in 1 .. k + n : (a \o b)[j] = IF j <= k THEN a[j] ELSE b[j - k]
    BY <1>1, <1>2, ConcatProperties
<1> DEFINE p == (a \o b) \o c
<1>5. /\ p \in Seq(Byte) /\ Len(p) = k + n + Len(c)
      /\ \A j \in 1 .. k + n + Len(c) : p[j] = IF j <= k + n THEN (a \o b)[j] ELSE c[j - (k + n)]
    <2> DEFINE ab == a \o b
    <2>1. ab \in Seq(Byte) /\ Len(ab) = k + n
        BY <1>4
    <2> HIDE DEF ab
    <2>2. /\ ab \o c \in Seq(Byte) /\ Len(ab \o c) = Len(ab) + Len(c)
          /\ \A j \in 1 .. Len(ab) + Len(c) :
                (ab \o c)[j] = IF j <= Len(ab) THEN ab[j] ELSE c[j - Len(ab)]
        BY <1>3, <2>1, ConcatProperties
    <2>3. /\ ab \o c \in Seq(Byte) /\ Len(ab \o c) = k + n + Len(c)
          /\ \A j \in 1 .. k + n + Len(c) :
                (ab \o c)[j] = IF j <= k + n THEN ab[j] ELSE c[j - (k + n)]
        BY <2>1, <2>2
    <2> QED
        BY <2>3 DEF ab
<1>6. p = Patched(s, k, t, n)
    BY DEF Patched, a, b, c
<1> HIDE DEF p
<1>7. Len(p) = Len(s)
    BY <1>0, <1>3, <1>5
<1>8. ASSUME NEW j \in 1 .. Len(s)
      PROVE  p[j] = IF j \in k + 1 .. k + n THEN t[j - k] ELSE s[j]
    <2>0. j \in 1 .. k + n + Len(c) /\ Len(c) \in Nat
        BY <1>0, <1>3
    <2>1. CASE j <= k
        <3>1. j \in 1 .. k /\ j \in 1 .. k + n /\ j <= k + n /\ j \notin k + 1 .. k + n
            BY <1>0, <2>1
        <3>2. p[j] = a[j]
            BY <1>4, <1>5, <2>0, <2>1, <3>1
        <3> QED
            BY <1>1, <3>1, <3>2
    <2>2. CASE j \in k + 1 .. k + n
        <3>1. j - k \in 1 .. n /\ j \in 1 .. k + n /\ ~(j <= k) /\ j <= k + n
            BY <2>2
        <3>2. p[j] = b[j - k]
            BY <1>4, <1>5, <2>0, <3>1
        <3> QED
            BY <1>2, <2>2, <3>1, <3>2
    <2>3. CASE j > k + n
        <3>1. j - (k + n) \in 1 .. Len(s) - (k + n) /\ k + n + (j - (k + n)) = j /\ j \in 1 .. k + n + Len(c)
            BY <1>0, <1>3, <2>3
        <3>2. p[j] = c[j - (k + n)] /\ j \notin k + 1 .. k + n
            BY <1>5, <2>0, <2>3
        <3> QED
            BY <1>3, <3>1, <3>2
    <2> QED
        BY <2>1, <2>2, <2>3
<1> QED
    BY <1>5, <1>6, <1>7, <1>8

-----------------------------------------------------------------------------
(* One round of a transfer *)

\* The bytes it moves, and the chunk it leaves in the cache.
Moved == Fits(call.data, Len(Loaded(call.i).data) - call.k)
Left ==
    IF call.op = "read" THEN Loaded(call.i)
    ELSE [data |-> Patched(Loaded(call.i).data, call.k, call.data, Moved), dirty |-> TRUE]

LEMMA KeepShape ==
    ASSUME NEW i, NEW c
    PROVE  /\ DOMAIN Keep(i, c) = DOMAIN chunks \cup {i}
           /\ Keep(i, c)[i] = c
           /\ \A j \in DOMAIN chunks : j # i => Keep(i, c)[j] = chunks[j]
BY DEF Keep

LEMMA KeepType ==
    ASSUME TypeOK, NEW i \in Chunk, NEW c \in [data : Data, dirty : BOOLEAN], c.data # <<>>
    PROVE  /\ DOMAIN Keep(i, c) \subseteq Chunk
           /\ \A j \in DOMAIN Keep(i, c) : Keep(i, c)[j] \in [data : Data \ {<<>>}, dirty : BOOLEAN]
<1>1. c \in [data : Data \ {<<>>}, dirty : BOOLEAN]
    OBVIOUS
<1>2. DOMAIN chunks \subseteq Chunk /\ DOMAIN Keep(i, c) = DOMAIN chunks \cup {i}
    BY KeepShape, Zenon DEF TypeOK
<1>3. ASSUME NEW j \in DOMAIN Keep(i, c)
      PROVE  Keep(i, c)[j] \in [data : Data \ {<<>>}, dirty : BOOLEAN]
    <2>1. CASE j = i
        BY <1>1, <2>1, KeepShape, Zenon
    <2>2. CASE j # i
        <3>1. j \in DOMAIN chunks
            BY <1>2, <2>2
        <3>2. Keep(i, c)[j] = chunks[j]
            BY <2>2, <3>1 DEF Keep
        <3> QED
            BY <3>1, <3>2 DEF TypeOK
    <2> QED
        BY <2>1, <2>2
<1> QED
    BY <1>2, <1>3

LEMMA PieceShape ==
    ASSUME TypeOK, CallInv, Piece
    PROVE  /\ call.op \in {"read", "write"} /\ call.i \in Chunk /\ call.k \in Nat
           /\ Moved \in 1 .. ChunkSize /\ Moved <= Len(call.data)
           /\ call.k + Moved <= Len(Loaded(call.i).data)
           /\ chunks' = Keep(call.i, Left) /\ call' = Rest(call.i, call.k, Moved)
           /\ Left \in [data : Data, dirty : BOOLEAN] /\ Left.data # <<>>
           /\ Len(Left.data) = Len(Loaded(call.i).data)
           /\ UNCHANGED <<disk, copy, size, creating, saved>>
<1>1. call.op \in {"read", "write"} /\ call.i \in Chunk
    BY DEF Piece, CallInv
<1>2. call.k \in Nat /\ call.data \in Seq(Byte) /\ Len(call.data) \in Nat /\ Len(call.data) > 0
    BY <1>1, CallShape
<1> DEFINE old == Loaded(call.i).data
<1>3. /\ Loaded(call.i) \in [data : Data, dirty : BOOLEAN] /\ old \in Seq(Byte)
      /\ Len(old) \in 0 .. ChunkSize /\ Len(old) > call.k
    BY <1>1, LoadedShape DEF Piece
<1> HIDE DEF old
<1>4. Moved = IF Len(call.data) < Len(old) - call.k THEN Len(call.data) ELSE Len(old) - call.k
    BY DEF Moved, Fits, old
<1>5. Moved \in 1 .. ChunkSize /\ Moved <= Len(call.data) /\ call.k + Moved <= Len(old)
    BY <1>2, <1>3, <1>4, ChunkNumbers
<1>6. /\ chunks' = Keep(call.i, Left) /\ call' = Rest(call.i, call.k, Moved)
      /\ UNCHANGED <<disk, copy, size, creating, saved>>
    BY DEF Piece, Left, Moved, Patched
<1>7. /\ Patched(old, call.k, call.data, Moved) \in Seq(Byte)
      /\ Len(Patched(old, call.k, call.data, Moved)) = Len(old)
    BY <1>2, <1>3, <1>5, PatchedIs
<1>8. Patched(old, call.k, call.data, Moved) \in Data
    BY <1>3, <1>7, DataShape
<1>9. /\ Left \in [data : Data, dirty : BOOLEAN] /\ Left.data \in Seq(Byte)
      /\ Len(Left.data) = Len(old)
    BY <1>3, <1>7, <1>8 DEF Left, old
<1>10. Left.data # <<>>
    BY <1>2, <1>3, <1>9
<1> QED
    BY <1>1, <1>2, <1>5, <1>6, <1>9, <1>10 DEF old

\* What is left of a call after n bytes of it.
LEMMA RestShape ==
    ASSUME TypeOK, call.op \in {"read", "write"}, call.i \in Chunk,
           Off(call.i) + call.k + Len(call.data) <= Off(MaxChunks),
           NEW n \in Nat, n > 0, n <= Len(call.data), call.k + n <= ChunkSize
    PROVE  LET rest == Rest(call.i, call.k, n) IN
           \/ rest = Idle
           \/ /\ rest \in Call /\ rest.op = call.op /\ rest.i \in Chunk
              /\ Off(rest.i) + rest.k + Len(rest.data) = Off(call.i) + call.k + Len(call.data)
<1> DEFINE i == IF call.k + n = ChunkSize THEN call.i + 1 ELSE call.i
           k == IF call.k + n = ChunkSize THEN 0 ELSE call.k + n
           d == SubSeq(call.data, n + 1, Len(call.data))
           rest == [op |-> call.op, i |-> i, k |-> k, data |-> d]
<1>1. /\ call.i \in Nat /\ call.k \in Nat /\ call.k < ChunkSize
      /\ call.data \in Seq(Byte) /\ Len(call.data) \in 1 .. MaxData
      /\ call = [op |-> call.op, i |-> call.i, k |-> call.k, data |-> call.data]
    BY CallShape
<1>2. CASE n = Len(call.data)
    BY <1>2 DEF Rest
<1>3. CASE n # Len(call.data)
    <2>1. Rest(call.i, call.k, n) = rest
        <3>1. Rest(call.i, call.k, n) = [call EXCEPT !.data = d, !.i = i, !.k = k]
            BY <1>3 DEF Rest
        <3> HIDE DEF i, k, d
        <3> QED
            BY <1>1, <3>1
    <2>2. d \in Seq(Byte) /\ Len(d) = Len(call.data) - n
        <3>1. \A j \in n + 1 .. Len(call.data) : call.data[j] \in Byte
            BY <1>1
        <3>2. Len(call.data) \in Int /\ n + 1 \in Int /\ n + 1 <= Len(call.data)
            BY <1>1, <1>3
        <3>3. d \in Seq(Byte) /\ Len(d) = IF n + 1 <= Len(call.data) THEN Len(call.data) - (n + 1) + 1 ELSE 0
            BY <3>1, <3>2, SubSeqProperties
        <3> HIDE DEF d
        <3> QED
            BY <1>1, <3>2, <3>3
    <2>3. i \in Nat /\ k \in Nat /\ k < ChunkSize /\ Off(i) + k = Off(call.i) + call.k + n
        <3>1. Off(call.i) \in Nat /\ Off(call.i + 1) = Off(call.i) + ChunkSize
            BY <1>1, Offsets
        <3> QED
            BY <1>1, <3>1, ChunkNumbers
    <2> HIDE DEF i, k, d
    <2>4. /\ Off(i) \in Nat /\ Len(d) > 0 /\ Len(d) \in 1 .. MaxData
          /\ Off(i) + k + Len(d) = Off(call.i) + call.k + Len(call.data)
        <3>1. Off(i) \in Nat /\ Off(call.i) \in Nat
            BY <1>1, <2>3, Offsets
        <3>2. Len(call.data) \in 1 .. MaxData /\ MaxData \in Nat /\ call.k \in Nat
            BY <1>1, SizeAssumption
        <3>3. n < Len(call.data) /\ Len(d) = Len(call.data) - n
            BY <1>3, <2>2, <3>2
        <3>4. Len(d) > 0 /\ Len(d) \in 1 .. MaxData
            BY <3>2, <3>3
        <3>5. Off(i) + k + Len(d) = Off(call.i) + call.k + Len(call.data)
            BY <2>3, <3>1, <3>2, <3>3
        <3> QED
            BY <3>1, <3>4, <3>5
    <2>5. i < MaxChunks
        <3> SUFFICES ASSUME i >= MaxChunks PROVE FALSE
            BY <2>3, ChunkNumbers
        <3>1. Off(MaxChunks) <= Off(i)
            BY <2>3, Offsets, ChunkNumbers
        <3>2. Off(MaxChunks) \in Nat
            BY Offsets, ChunkNumbers
        <3>3. Off(i) + k + Len(d) <= Off(MaxChunks)
            BY <2>4
        <3> QED
            BY <2>3, <2>4, <3>1, <3>2, <3>3
    <2>6. rest \in Call /\ i \in Chunk
        <3>1. i \in Chunk /\ i <= MaxChunks
            BY <2>3, <2>5, ChunkNumbers
        <3> QED
            BY <2>2, <2>3, <2>4, <3>1, TransferShape
    <2> QED
        BY <2>1, <2>4, <2>6
<1> QED
    BY <1>2, <1>3

-----------------------------------------------------------------------------
(* Types *)

LEMMA NextDirty ==
    ASSUME TypeOK, Dirty # {}
    PROVE  /\ NextToSave \in Dirty /\ NextToSave \in Chunk /\ \A j \in Dirty : NextToSave <= j
           /\ chunks[NextToSave] \in [data : Data \ {<<>>}, dirty : BOOLEAN]
<1>1. Dirty \in SUBSET Chunk /\ Dirty \in SUBSET Nat /\ Dirty \subseteq DOMAIN chunks
    BY ChunkNumbers DEF Dirty, TypeOK
<1> QED
    BY <1>1, LeastOf DEF NextToSave, TypeOK

\* What a save changes: a flag, and the chunk in one of the files.
LEMMA SaveChunkShape ==
    ASSUME TypeOK, SaveChunk
    PROVE  LET i == NextToSave IN
           /\ call.op = "save" /\ i \in Dirty /\ i \in Chunk /\ \A j \in Dirty : i <= j
           /\ chunks[i].data \in Data /\ chunks[i].data \in Seq(Byte) /\ chunks[i].data # <<>>
           /\ DOMAIN chunks' = DOMAIN chunks
           /\ chunks'[i] = [data |-> chunks[i].data, dirty |-> FALSE]
           /\ \A j \in DOMAIN chunks : j # i => chunks'[j] = chunks[j]
           /\ Dirty' = Dirty \ {i}
           /\ UNCHANGED <<size, creating, call, saved>>
           /\ \/ call.to = "own" /\ disk' = FileWrite(disk, i, chunks[i].data) /\ copy' = copy
              \/ call.to = "copy" /\ copy' = FileWrite(copy, i, chunks[i].data) /\ disk' = disk
              \/ "silent" \in Faults /\ UNCHANGED <<disk, copy>>
<1> DEFINE i == NextToSave
<1>1. /\ i \in Dirty /\ i \in Chunk /\ i \in DOMAIN chunks /\ \A j \in Dirty : i <= j
      /\ chunks[i] \in [data : Data \ {<<>>}, dirty : BOOLEAN]
    BY NextDirty DEF SaveChunk, Dirty
<1>2. chunks' = [chunks EXCEPT ![i].dirty = FALSE]
    BY DEF SaveChunk
<1> HIDE DEF i
<1>3. chunks' = [chunks EXCEPT ![i] = [chunks[i] EXCEPT !.dirty = FALSE]]
    BY <1>2
<1>4. [chunks[i] EXCEPT !.dirty = FALSE] = [data |-> chunks[i].data, dirty |-> FALSE]
    <2>1. \A c \in [data : Data \ {<<>>}, dirty : BOOLEAN] : \A f :
              [c EXCEPT !.dirty = f] = [data |-> c.data, dirty |-> f]
        OBVIOUS
    <2>2. \A f : [chunks[i] EXCEPT !.dirty = f] = [data |-> chunks[i].data, dirty |-> f]
        BY <1>1, <2>1
    <2> QED
        BY <2>2, Zenon
<1>5. /\ DOMAIN chunks' = DOMAIN chunks
      /\ chunks'[i] = [data |-> chunks[i].data, dirty |-> FALSE]
      /\ \A j \in DOMAIN chunks : j # i => chunks'[j] = chunks[j]
    BY <1>1, <1>3, <1>4
<1>6. Dirty' = Dirty \ {i}
    <2>1. Dirty' = {j \in DOMAIN chunks' : chunks'[j].dirty}
        BY DEF Dirty
    <2>2. ~chunks'[i].dirty
        BY <1>5
    <2> QED
        BY <1>1, <1>5, <2>1, <2>2 DEF Dirty
<1> QED
    BY <1>1, <1>5, <1>6, DataShape DEF i, SaveChunk

LEMMA TypeStep == TypeOK /\ CallInv /\ [Next]_vars => TypeOK' /\ CallInv'
<1> SUFFICES ASSUME TypeOK, CallInv, [Next]_vars PROVE TypeOK' /\ CallInv'
    OBVIOUS
<1>0. Idle \in Call /\ Idle.op = "idle"
    BY DEF Call, Idle
<1>1. CASE Reopen
    <2>1. FileSize(disk) \in 0 .. MaxChunks * ChunkSize
        BY FileSizeBounds DEF TypeOK, Off
    <2>2. DOMAIN chunks' = {}
        BY <1>1 DEF Reopen
    <2>3. CallInv'
        BY <1>0, <1>1 DEF Reopen, CallInv
    <2> QED
        BY <1>0, <1>1, <2>1, <2>2, <2>3 DEF Reopen, TypeOK
<1>2. CASE Create
    <2>1. PICK n \in 1 .. MaxChunks * ChunkSize :
              /\ size' = n
              /\ chunks' = [i \in {c \in Chunk : c * ChunkSize < n} |->
                              [data |-> Zeros(Extent(i, n)), dirty |-> TRUE]]
        BY <1>2 DEF Create
    <2>2. n \in 0 .. MaxChunks * ChunkSize /\ n \in Nat
        <3>1. MaxChunks * ChunkSize \in Nat
            BY ChunkNumbers
        <3> QED
            BY <3>1
    <2>3. ASSUME NEW i \in Chunk, i * ChunkSize < n
          PROVE  Zeros(Extent(i, n)) \in Data \ {<<>>}
        <3>1. Extent(i, n) \in Nat /\ Extent(i, n) <= ChunkSize /\ Extent(i, n) > 0
            BY <2>2, <2>3, Extents, ExtentRange, ChunkNumbers, Offsets DEF Off
        <3>2. Zeros(Extent(i, n)) \in Seq(Byte) /\ Len(Zeros(Extent(i, n))) = Extent(i, n)
            BY <3>1, ZerosShape
        <3> QED
            BY <3>1, <3>2, DataShape
    <2>4. /\ DOMAIN chunks' \subseteq Chunk
          /\ \A i \in DOMAIN chunks' : chunks'[i] \in [data : Data \ {<<>>}, dirty : BOOLEAN]
        BY <2>1, <2>3
    <2>5. call' = Idle /\ creating' = TRUE /\ saved' = "no" /\ UNCHANGED <<disk, copy>>
        BY <1>2 DEF Create
    <2> QED
        BY <1>0, <2>1, <2>2, <2>4, <2>5 DEF TypeOK, CallInv
<1>3. CASE Close
    BY <1>0, <1>3 DEF Close, TypeOK, CallInv
<1>4. CASE Transfer
    <2>0. PICK op \in {"read", "write"}, i \in Chunk, k \in 0 .. ChunkSize - 1, n \in 1 .. MaxData :
              /\ i * ChunkSize + k + n <= IF creating /\ "stray" \notin Faults
                                          THEN size ELSE MaxChunks * ChunkSize
              /\ \E d \in {Zeros(n)} \cup [1 .. n -> Byte \ {0}] :
                    call' = [op |-> op, i |-> i, k |-> k, data |-> d]
        BY <1>4 DEF Transfer
    <2>1. PICK d \in {Zeros(n)} \cup [1 .. n -> Byte \ {0}] :
              call' = [op |-> op, i |-> i, k |-> k, data |-> d]
        BY <2>0
    <2>2. n \in Nat /\ i \in Nat /\ i <= MaxChunks /\ k \in Nat /\ k < ChunkSize
        BY ChunkNumbers, SizeAssumption
    <2>3. d \in Seq(Byte) /\ Len(d) = n
        BY <2>2, ZerosShape
    <2>4. call' \in Call
        BY <2>1, <2>2, <2>3, TransferShape
    <2>5. UNCHANGED <<disk, copy, chunks, size, creating>> /\ saved' = "no"
        BY <1>4 DEF Transfer
    <2>6. CallInv'
        BY <2>0, <2>1, <2>3, <2>5 DEF CallInv, Limit, Off
    <2> QED
        BY <2>4, <2>5, <2>6 DEF TypeOK
<1>5. CASE Piece
    <2>1. /\ call.op \in {"read", "write"} /\ call.i \in Chunk
          /\ chunks' = Keep(call.i, Left) /\ call' = Rest(call.i, call.k, Moved)
          /\ Left \in [data : Data, dirty : BOOLEAN] /\ Left.data # <<>>
          /\ UNCHANGED <<disk, copy, size, creating, saved>>
          /\ Moved \in Nat /\ Moved > 0 /\ Moved <= Len(call.data) /\ call.k + Moved <= ChunkSize
        BY <1>5, PieceShape, LoadedShape, ChunkNumbers
    <2>2. /\ DOMAIN chunks' \subseteq Chunk
          /\ \A i \in DOMAIN chunks' : chunks'[i] \in [data : Data \ {<<>>}, dirty : BOOLEAN]
        BY <2>1, KeepType
    <2>3. /\ Off(call.i) + call.k + Len(call.data) <= Limit
          /\ Off(call.i) + call.k + Len(call.data) <= Off(MaxChunks)
        <3>1. Off(call.i) + call.k + Len(call.data) <= Limit /\ Limit <= Off(MaxChunks)
              /\ Limit \in Nat /\ Off(MaxChunks) \in Nat
            BY <2>1, Offsets, ChunkNumbers DEF CallInv, Limit, TypeOK, Off
        <3>2. Off(call.i) + call.k + Len(call.data) \in Nat
            BY <2>1, CallShape, Offsets
        <3> QED
            BY <3>1, <3>2
    <2>4. \/ call' = Idle
          \/ /\ call' \in Call /\ call'.i \in Chunk
             /\ Off(call'.i) + call'.k + Len(call'.data) = Off(call.i) + call.k + Len(call.data)
        BY <2>1, <2>3, RestShape
    <2>5. Limit' = Limit /\ saved' = "no"
        BY <2>1 DEF Limit, CallInv
    <2>6. CallInv'
        BY <1>0, <2>3, <2>4, <2>5 DEF CallInv
    <2> QED
        BY <1>0, <2>1, <2>2, <2>4, <2>6 DEF TypeOK
<1>6. CASE Short
    <2>1. call.op \in {"read", "write"} /\ call.i \in Chunk
        BY <1>6 DEF Short, CallInv
    <2>2. Loaded(call.i) \in [data : Data, dirty : BOOLEAN]
        BY <2>1, LoadedShape
    <2>3. /\ DOMAIN chunks' \subseteq Chunk
          /\ \A i \in DOMAIN chunks' : chunks'[i] \in [data : Data \ {<<>>}, dirty : BOOLEAN]
        <3>1. CASE Loaded(call.i).data = <<>>
            BY <1>6, <3>1 DEF Short, TypeOK
        <3>2. CASE Loaded(call.i).data # <<>>
            <4>1. chunks' = Keep(call.i, Loaded(call.i))
                BY <1>6, <3>2 DEF Short
            <4> QED
                BY <2>1, <2>2, <3>2, <4>1, KeepType
        <3> QED
            BY <3>1, <3>2
    <2> QED
        BY <1>0, <1>6, <2>3 DEF Short, TypeOK, CallInv
<1>7. CASE Save
    <2>1. call' \in Call /\ call'.op = "save"
        BY <1>7 DEF Save, Call, TypeOK
    <2> QED
        BY <1>7, <2>1 DEF Save, TypeOK, CallInv
<1>8. CASE SaveChunk
    <2> DEFINE i == NextToSave
    <2>1. SaveChunk
        BY <1>8
    <2>2. /\ i \in Chunk /\ chunks[i].data \in Data /\ chunks[i].data # <<>>
          /\ DOMAIN chunks' = DOMAIN chunks
          /\ chunks'[i] = [data |-> chunks[i].data, dirty |-> FALSE]
          /\ \A j \in DOMAIN chunks : j # i => chunks'[j] = chunks[j]
          /\ UNCHANGED <<size, creating, call, saved>> /\ call.op = "save"
        BY <2>1, SaveChunkShape
    <2>3. disk' \in File /\ copy' \in File
        <3>1. /\ FileWrite(disk, i, chunks[i].data) \in File
              /\ FileWrite(copy, i, chunks[i].data) \in File
            BY <2>2, WrittenFile DEF TypeOK
        <3> QED
            BY <2>1, <3>1, SaveChunkShape DEF TypeOK
    <2> HIDE DEF i
    <2>4. ASSUME NEW j \in DOMAIN chunks' PROVE chunks'[j] \in [data : Data \ {<<>>}, dirty : BOOLEAN]
        <3>1. CASE j = i
            <4>1. [data |-> chunks[i].data, dirty |-> FALSE] \in [data : Data \ {<<>>}, dirty : BOOLEAN]
                BY <2>2
            <4> QED
                BY <2>2, <3>1, <4>1, Zenon
        <3>2. CASE j # i
            BY <2>2, <3>2 DEF TypeOK
        <3> QED
            BY <3>1, <3>2
    <2> QED
        BY <2>2, <2>3, <2>4 DEF TypeOK, CallInv
<1>9. CASE SaveFails
    BY <1>0, <1>9 DEF SaveFails, TypeOK, CallInv
<1>10. CASE SaveDone
    <2>1. call.to \in {"own", "copy"} /\ saved' = call.to /\ call' = Idle
        BY <1>10, CallShape DEF SaveDone
    <2>2. creating' \in BOOLEAN
        BY <1>10 DEF SaveDone
    <2> QED
        BY <1>0, <1>10, <2>1, <2>2 DEF SaveDone, TypeOK, CallInv
<1>11. CASE UNCHANGED vars
    BY <1>11 DEF vars, TypeOK, CallInv, Limit
<1> QED
    BY <1>1, <1>2, <1>3, <1>4, <1>5, <1>6, <1>7, <1>8, <1>9, <1>10, <1>11 DEF Next

LEMMA TypeInit == Init => TypeOK /\ CallInv
<1> SUFFICES ASSUME Init PROVE TypeOK /\ CallInv
    OBVIOUS
<1>0. Idle \in Call /\ Idle.op = "idle"
    BY DEF Call, Idle
<1>1. PICK n \in 0 .. MaxChunks * ChunkSize, b \in Byte : disk = Filled(n, b)
    BY DEF Init
<1>2. n \in Nat /\ 0 \in Nat
    BY ChunkNumbers
<1>3. disk \in File /\ copy \in File
    BY <1>1, <1>2, FilledShape, ByteAssumption DEF Init
<1>4. size \in 0 .. MaxChunks * ChunkSize
    BY <1>3, FileSizeBounds DEF Init, Off
<1>5. DOMAIN chunks = {}
    BY DEF Init
<1> QED
    BY <1>0, <1>3, <1>4, <1>5 DEF Init, TypeOK, CallInv

\* Whatever is done to a source, even what the library itself never does, it keeps chunks
\* of the file's size and calls within its bounds (source.hpp:69-74).
THEOREM SourceTypes == Spec => []TypeOK
<1>1. TypeOK /\ CallInv /\ [Next]_vars => (TypeOK /\ CallInv)'
    BY TypeStep
<1> QED
    BY <1>1, TypeInit, PTL DEF Spec

-----------------------------------------------------------------------------
(* What is safe when every write reaches the source's own file *)

Reliable == {"silent", "copy"} \cap Faults = {}

SafeInv ==
    /\ CleanAgrees
    /\ saved = "own" => Dirty = {} /\ ~creating
    /\ call.op = "save" =>
          /\ call.to = "own"
          /\ \E cut \in 0 .. MaxChunks :
                /\ \A i \in Chunk : i < cut => i \notin Dirty /\ disk[i] # <<>>
                /\ \A i \in Chunk : i >= cut => disk[i] = call.old[i]

\* A chunk that is loaded is dirty, or the file has its bytes.
LEMMA LoadedAgrees ==
    ASSUME TypeOK, CleanAgrees, NEW i \in Chunk, ~Loaded(i).dirty
    PROVE  IsPrefix(Loaded(i).data, disk[i])
<1>1. CASE i \in DOMAIN chunks
    BY <1>1, LoadedShape DEF CleanAgrees
<1>2. CASE i \notin DOMAIN chunks
    <2>1. Loaded(i) = FileRead(i)
        BY <1>2 DEF Loaded
    <2>2. Loaded(i).data = disk[i]
        BY <2>1 DEF FileRead
    <2> QED
        BY <2>2, FileShape, PrefixOfSame DEF TypeOK
<1> QED
    BY <1>1, <1>2

LEMMA KeepAgrees ==
    ASSUME CleanAgrees, NEW i \in Chunk, NEW c, c.dirty \/ IsPrefix(c.data, disk[i]),
           chunks' = Keep(i, c), disk' = disk
    PROVE  CleanAgrees'
<1> SUFFICES ASSUME NEW j \in DOMAIN chunks', ~chunks'[j].dirty
             PROVE  IsPrefix(chunks'[j].data, disk[j])
    BY DEF CleanAgrees
<1>1. CASE j = i
    <2>1. chunks'[j] = c
        BY <1>1, KeepShape, Zenon
    <2> QED
        BY <1>1, <2>1
<1>2. CASE j # i
    <2>1. j \in DOMAIN chunks /\ chunks'[j] = chunks[j]
        BY <1>2 DEF Keep
    <2> QED
        BY <2>1 DEF CleanAgrees
<1> QED
    BY <1>1, <1>2

\* Below the chunk that is written the others keep what they have, so what was clean is.
LEMMA SavedAgrees ==
    ASSUME TypeOK, CleanAgrees, SaveChunk, disk' = FileWrite(disk, NextToSave, chunks[NextToSave].data)
    PROVE  CleanAgrees'
<1> DEFINE i == NextToSave
           d == chunks[i].data
<1>1. /\ i \in Chunk /\ d \in Data /\ d \in Seq(Byte)
      /\ DOMAIN chunks' = DOMAIN chunks
      /\ chunks'[i] = [data |-> d, dirty |-> FALSE]
      /\ \A j \in DOMAIN chunks : j # i => chunks'[j] = chunks[j]
    BY SaveChunkShape
<1>2. disk \in File /\ disk' = FileWrite(disk, i, d)
    BY DEF TypeOK
<1> HIDE DEF i, d
<1>3. /\ IsPrefix(d, disk'[i])
      /\ \A j \in Chunk, s \in Seq(Byte) : j # i /\ IsPrefix(s, disk[j]) => IsPrefix(s, disk'[j])
    BY <1>1, <1>2, WrittenFile
<1> SUFFICES ASSUME NEW j \in DOMAIN chunks', ~chunks'[j].dirty
             PROVE  IsPrefix(chunks'[j].data, disk'[j])
    BY DEF CleanAgrees
<1>4. CASE j = i
    BY <1>1, <1>3, <1>4
<1>5. CASE j # i
    <2>1. /\ j \in DOMAIN chunks /\ chunks'[j] = chunks[j] /\ j \in Chunk
          /\ chunks[j] \in [data : Data \ {<<>>}, dirty : BOOLEAN]
        BY <1>1, <1>5 DEF TypeOK
    <2>2. chunks[j].data \in Seq(Byte)
        BY <2>1, DataShape
    <2>3. IsPrefix(chunks[j].data, disk[j])
        BY <2>1 DEF CleanAgrees
    <2> QED
        BY <1>3, <1>5, <2>1, <2>2, <2>3
<1> QED
    BY <1>4, <1>5

LEMMA SafeStep ==
    ASSUME Reliable, TypeOK, CallInv, SafeInv, [Next]_vars
    PROVE  SafeInv'
<1>0. Idle.op = "idle"
    BY DEF Idle
<1>1. CASE Reopen
    <2>1. DOMAIN chunks' = {}
        BY <1>1 DEF Reopen
    <2> QED
        BY <1>0, <1>1, <2>1 DEF Reopen, SafeInv, CleanAgrees
<1>2. CASE Create
    <2>1. \A i \in DOMAIN chunks' : chunks'[i].dirty
        BY <1>2 DEF Create
    <2> QED
        BY <1>0, <1>2, <2>1 DEF Create, SafeInv, CleanAgrees
<1>3. CASE Close
    <2>1. DOMAIN chunks' = {}
        BY <1>3 DEF Close
    <2> QED
        BY <1>0, <1>3, <2>1 DEF Close, SafeInv, CleanAgrees
<1>4. CASE Transfer
    <2>1. call'.op \in {"read", "write"} /\ saved' = "no" /\ UNCHANGED <<disk, chunks>>
        BY <1>4 DEF Transfer
    <2> QED
        BY <2>1 DEF SafeInv, CleanAgrees
<1>5. CASE Piece
    <2>1. /\ call.op \in {"read", "write"} /\ call.i \in Chunk
          /\ chunks' = Keep(call.i, Left) /\ call' = Rest(call.i, call.k, Moved)
          /\ UNCHANGED <<disk, saved>>
        BY <1>5, PieceShape
    <2>2. Left.dirty \/ IsPrefix(Left.data, disk[call.i])
        <3>1. CASE call.op = "read"
            BY <2>1, <3>1, LoadedAgrees DEF Left, SafeInv
        <3>2. CASE call.op # "read"
            BY <3>2 DEF Left
        <3> QED
            BY <3>1, <3>2
    <2>3. CleanAgrees'
        BY <2>1, <2>2, KeepAgrees DEF SafeInv
    <2>4. call'.op # "save"
        BY <1>0, <2>1, CallShape DEF Rest
    <2>5. saved' = "no"
        BY <2>1 DEF CallInv
    <2> QED
        BY <2>3, <2>4, <2>5 DEF SafeInv
<1>6. CASE Short
    <2>1. /\ call.op \in {"read", "write"} /\ call.i \in Chunk /\ call' = Idle
          /\ UNCHANGED <<disk, saved>> /\ saved = "no"
        BY <1>6 DEF Short, CallInv
    <2>2. CleanAgrees'
        <3>1. CASE Loaded(call.i).data = <<>>
            BY <1>6, <2>1, <3>1 DEF Short, SafeInv, CleanAgrees
        <3>2. CASE Loaded(call.i).data # <<>>
            <4>1. chunks' = Keep(call.i, Loaded(call.i))
                BY <1>6, <3>2 DEF Short
            <4>2. Loaded(call.i).dirty \/ IsPrefix(Loaded(call.i).data, disk[call.i])
                BY <2>1, LoadedAgrees DEF SafeInv
            <4> QED
                BY <2>1, <4>1, <4>2, KeepAgrees DEF SafeInv
        <3> QED
            BY <3>1, <3>2
    <2> QED
        BY <1>0, <2>1, <2>2 DEF SafeInv
<1>7. CASE Save
    <2>1. /\ call' = [op |-> "save", to |-> "own", old |-> disk]
          /\ saved' = "no" /\ UNCHANGED <<disk, chunks>>
        BY <1>7 DEF Save, Reliable
    <2>2. call'.to = "own" /\ call'.old = disk'
        BY <2>1
    <2>3. 0 \in 0 .. MaxChunks /\ \A i \in Chunk : ~(i < 0)
        BY ChunkNumbers
    <2> QED
        BY <2>1, <2>2, <2>3 DEF SafeInv, CleanAgrees
<1>8. CASE SaveChunk
    <2> DEFINE i == NextToSave
               d == chunks[i].data
    <2>1. SaveChunk /\ call.op = "save" /\ call.to = "own"
        BY <1>8 DEF SaveChunk, SafeInv
    <2>2. /\ i \in Dirty /\ i \in Chunk /\ \A j \in Dirty : i <= j
          /\ d \in Data /\ d # <<>> /\ Dirty' = Dirty \ {i}
          /\ UNCHANGED <<size, creating, call, saved>>
          /\ disk' = FileWrite(disk, i, d)
        BY <2>1, SaveChunkShape DEF Reliable
    <2>3. disk \in File
        BY DEF TypeOK
    <2>4. CleanAgrees'
        BY <2>1, <2>2, SavedAgrees DEF SafeInv
    <2> HIDE DEF i, d
    <2>5. /\ \A j \in Chunk : j <= i => disk'[j] # <<>>
          /\ \A j \in Chunk : j > i => disk'[j] = disk[j]
        BY <2>2, <2>3, WrittenFile
    <2>6. PICK cut \in 0 .. MaxChunks :
              /\ \A j \in Chunk : j < cut => j \notin Dirty /\ disk[j] # <<>>
              /\ \A j \in Chunk : j >= cut => disk[j] = call.old[j]
        BY <2>1 DEF SafeInv
    <2>7. i + 1 \in 0 .. MaxChunks /\ cut <= i
        BY <2>2, <2>6, ChunkNumbers
    <2>8. \A j \in Chunk : j < i + 1 => j \notin Dirty' /\ disk'[j] # <<>>
        <3> SUFFICES ASSUME NEW j \in Chunk, j < i + 1 PROVE j \notin Dirty' /\ disk'[j] # <<>>
            OBVIOUS
        <3>1. j <= i /\ (j # i => ~(i <= j))
            BY <2>2, ChunkNumbers
        <3> QED
            BY <2>2, <2>5, <3>1
    <2>9. \A j \in Chunk : j >= i + 1 => disk'[j] = call.old[j]
        <3> SUFFICES ASSUME NEW j \in Chunk, j >= i + 1 PROVE disk'[j] = call.old[j]
            OBVIOUS
        <3>1. j > i /\ j >= cut
            BY <2>2, <2>7, ChunkNumbers
        <3> QED
            BY <2>5, <2>6, <3>1
    <2>10. saved' # "own"
        BY <2>1, <2>2 DEF CallInv
    <2> QED
        BY <2>1, <2>2, <2>4, <2>7, <2>8, <2>9, <2>10 DEF SafeInv
<1>9. CASE SaveFails
    <2>1. call' = Idle /\ saved' = saved /\ saved = "no" /\ UNCHANGED <<disk, chunks>>
        BY <1>9 DEF SaveFails, CallInv
    <2> QED
        BY <1>0, <2>1 DEF SafeInv, CleanAgrees
<1>10. CASE SaveDone
    <2>1. /\ Dirty = {} /\ call.to = "own" /\ ~creating' /\ call' = Idle
          /\ UNCHANGED <<disk, chunks>>
        BY <1>10 DEF SaveDone, SafeInv
    <2>2. Dirty' = {}
        BY <2>1 DEF Dirty
    <2> QED
        BY <1>0, <2>1, <2>2 DEF SafeInv, CleanAgrees
<1>11. CASE UNCHANGED vars
    BY <1>11 DEF vars, SafeInv, CleanAgrees, Dirty
<1> QED
    BY <1>1, <1>2, <1>3, <1>4, <1>5, <1>6, <1>7, <1>8, <1>9, <1>10, <1>11 DEF Next

LEMMA SafeInit == Init => SafeInv
<1> SUFFICES ASSUME Init PROVE SafeInv
    OBVIOUS
<1>1. DOMAIN chunks = {} /\ call.op = "idle" /\ saved = "no"
    BY DEF Init, Idle
<1> QED
    BY <1>1 DEF SafeInv, CleanAgrees

LEMMA Safe == ASSUME Reliable PROVE Spec => [](TypeOK /\ CallInv /\ SafeInv)
<1>1. TypeOK /\ CallInv /\ SafeInv /\ [Next]_vars => (TypeOK /\ CallInv /\ SafeInv)'
    BY TypeStep, SafeStep
<1>2. Init => TypeOK /\ CallInv /\ SafeInv
    BY TypeInit, SafeInit
<1> QED
    BY <1>1, <1>2, PTL DEF Spec

\* A buffer that is not dirty can be dropped: hasDirtyBuffers tells the truth
\* (source.cpp:213-221), whether the image is a new one or not.
THEOREM CleanIsSaved == ASSUME Reliable PROVE Spec => []CleanAgrees
<1>1. TypeOK /\ CallInv /\ SafeInv => CleanAgrees
    BY DEF SafeInv
<1> QED
    BY <1>1, Safe, PTL

\* When save returns true, the file holds whatever the source can be asked for
\* (sourcefile.cpp:60-84).
THEOREM SavesLast == ASSUME Reliable PROVE Spec => []SaveIsDurable
<1>1. ASSUME TypeOK, SafeInv PROVE SaveIsDurable
    <2> SUFFICES ASSUME saved = "own", NEW i \in Chunk PROVE IsPrefix(Loaded(i).data, disk[i])
        BY DEF SaveIsDurable
    <2>1. Dirty = {} /\ ~creating
        BY <1>1 DEF SafeInv
    <2>2. ~Loaded(i).dirty
        BY <2>1 DEF Loaded, FileRead, Dirty
    <2> QED
        BY <1>1, <2>2, LoadedAgrees DEF SafeInv
<1> QED
    BY <1>1, Safe, PTL

\* A save that dies has written all the chunks below some chunk and none above it
\* (the walk over mBuffers, sourcefile.cpp:66-79).
THEOREM SavesTearOnce == ASSUME Reliable PROVE Spec => []TornSave
<1>1. ASSUME TypeOK, SafeInv PROVE TornSave
    <2> SUFFICES ASSUME call.op = "save"
                 PROVE  \E cut \in 0 .. MaxChunks :
                            /\ \A i \in Chunk : i < cut => IsPrefix(Loaded(i).data, disk[i])
                            /\ \A i \in Chunk : i >= cut => disk[i] = call.old[i]
        BY DEF TornSave
    <2>1. PICK cut \in 0 .. MaxChunks :
              /\ \A i \in Chunk : i < cut => i \notin Dirty /\ disk[i] # <<>>
              /\ \A i \in Chunk : i >= cut => disk[i] = call.old[i]
        BY <1>1 DEF SafeInv
    <2>2. ASSUME NEW i \in Chunk, i < cut PROVE IsPrefix(Loaded(i).data, disk[i])
        <3>1. ~Loaded(i).dirty
            BY <2>1, <2>2 DEF Loaded, FileRead, Dirty
        <3> QED
            BY <1>1, <3>1, LoadedAgrees DEF SafeInv
    <2> QED
        BY <2>1, <2>2
<1> QED
    BY <1>1, Safe, PTL

-----------------------------------------------------------------------------
(* What a read leaves dirty *)

Bounded == "stray" \notin Faults

\* chunkPrepare has allocated every chunk of an image that is being created.
Prepared == creating => \A i \in Chunk : Off(i) < size => i \in DOMAIN chunks

LEMMA PreparedStep ==
    ASSUME Bounded, TypeOK, CallInv, Prepared, [Next]_vars
    PROVE  Prepared'
<1>1. CASE Reopen
    BY <1>1 DEF Reopen, Prepared
<1>2. CASE Create
    <2>1. PICK n \in 1 .. MaxChunks * ChunkSize :
              /\ size' = n
              /\ chunks' = [i \in {c \in Chunk : c * ChunkSize < n} |->
                              [data |-> Zeros(Extent(i, n)), dirty |-> TRUE]]
        BY <1>2 DEF Create
    <2> QED
        BY <2>1 DEF Prepared, Off
<1>3. CASE Close
    BY <1>3 DEF Close, Prepared, Bounded
<1>4. CASE Transfer
    BY <1>4 DEF Transfer, Prepared
<1>5. CASE Piece
    <2>1. DOMAIN chunks \subseteq DOMAIN chunks' /\ UNCHANGED <<size, creating>>
        BY <1>5, PieceShape DEF Keep
    <2> QED
        BY <2>1 DEF Prepared
<1>6. CASE Short
    <2>1. DOMAIN chunks \subseteq DOMAIN chunks' /\ UNCHANGED <<size, creating>>
        BY <1>6 DEF Short, Keep
    <2> QED
        BY <2>1 DEF Prepared
<1>7. CASE Save
    BY <1>7 DEF Save, Prepared
<1>8. CASE SaveChunk
    <2>1. DOMAIN chunks = DOMAIN chunks' /\ UNCHANGED <<size, creating>>
        BY <1>8, SaveChunkShape
    <2> QED
        BY <2>1 DEF Prepared
<1>9. CASE SaveFails
    BY <1>9 DEF SaveFails, Prepared
<1>10. CASE SaveDone
    BY <1>10 DEF SaveDone, Prepared
<1>11. CASE UNCHANGED vars
    BY <1>11 DEF vars, Prepared
<1> QED
    BY <1>1, <1>2, <1>3, <1>4, <1>5, <1>6, <1>7, <1>8, <1>9, <1>10, <1>11 DEF Next

\* So a transfer never comes across a chunk that is not there yet.
LEMMA NeverFresh ==
    ASSUME Bounded, TypeOK, CallInv, Prepared, call.op \in {"read", "write"}
    PROVE  /\ call.i \in Chunk
           /\ creating => call.i \in DOMAIN chunks
           /\ call.i \notin DOMAIN chunks => Loaded(call.i) = FileRead(call.i)
<1>1. call.i \in Chunk /\ Off(call.i) + call.k + Len(call.data) <= Limit
    BY DEF CallInv
<1>2. ASSUME creating PROVE call.i \in DOMAIN chunks
    <2>1. Limit = size
        BY <1>2 DEF Limit, Bounded
    <2>2. /\ Off(call.i) \in Nat /\ call.k \in Nat /\ Len(call.data) \in Nat
          /\ Len(call.data) > 0 /\ size \in Nat
        <3>1. MaxData \in Nat
            BY SizeAssumption
        <3> QED
            <4>1. call.i \in Nat /\ Off(call.i) \in Nat
                BY <1>1, Offsets, ChunkNumbers
            <4>2. call.k \in Nat /\ call.data \in Seq(Byte) /\ Len(call.data) \in 1 .. MaxData
                BY CallShape
            <4>3. size \in Nat
                BY DEF TypeOK
            <4> QED
                BY <3>1, <4>1, <4>2, <4>3
    <2>3. Off(call.i) < size
        BY <1>1, <2>1, <2>2
    <2> QED
        BY <1>1, <1>2, <2>3 DEF Prepared
<1> QED
    BY <1>1, <1>2 DEF Loaded

LEMMA PreparedAlways == ASSUME Bounded PROVE Spec => [](TypeOK /\ CallInv /\ Prepared)
<1>1. TypeOK /\ CallInv /\ Prepared /\ [Next]_vars => (TypeOK /\ CallInv /\ Prepared)'
    BY TypeStep, PreparedStep
<1>2. Init => TypeOK /\ CallInv /\ Prepared
    BY TypeInit DEF Init, Prepared
<1> QED
    BY <1>1, <1>2, PTL DEF Spec

LEMMA ReadKeeps ==
    ASSUME NEW i, i \in DOMAIN chunks \/ Loaded(i) = FileRead(i), chunks' = Keep(i, Loaded(i))
    PROVE  Dirty' \subseteq Dirty
<1> SUFFICES ASSUME NEW j \in DOMAIN chunks', chunks'[j].dirty
             PROVE  j \in DOMAIN chunks /\ chunks[j].dirty
    BY DEF Dirty
<1>1. CASE j = i
    <2>1. chunks'[j] = Loaded(i)
        BY <1>1, KeepShape, Zenon
    <2>2. i \in DOMAIN chunks
        BY <2>1 DEF FileRead
    <2> QED
        BY <1>1, <2>1, <2>2 DEF Loaded
<1>2. CASE j # i
    BY <1>2 DEF Keep
<1> QED
    BY <1>1, <1>2

\* Reading through a source fills its cache and gives a save nothing to write
\* (chunkCopyToPtr, source.cpp:93-127), an image being created included.
THEOREM ReadsLeaveClean == ASSUME Bounded PROVE Spec => ReadsAreClean
<1>1. ASSUME TypeOK, CallInv, Prepared, [Next]_vars
      PROVE  [call.op = "read" => Dirty' \subseteq Dirty]_vars
    <2> SUFFICES ASSUME call.op = "read", Next PROVE Dirty' \subseteq Dirty
        BY <1>1
    <2>1. call.i \in DOMAIN chunks \/ Loaded(call.i) = FileRead(call.i)
        BY <1>1, NeverFresh
    <2>2. CASE Reopen
        <3>1. DOMAIN chunks' = {}
            BY <2>2 DEF Reopen
        <3> QED
            BY <3>1 DEF Dirty
    <2>3. CASE Piece
        <3>1. chunks' = Keep(call.i, Loaded(call.i))
            BY <1>1, <2>3, PieceShape DEF Left
        <3> QED
            BY <2>1, <3>1, ReadKeeps
    <2>4. CASE Short
        <3>1. CASE Loaded(call.i).data = <<>>
            BY <2>4, <3>1 DEF Short, Dirty
        <3>2. CASE Loaded(call.i).data # <<>>
            <4>1. chunks' = Keep(call.i, Loaded(call.i))
                BY <2>4, <3>2 DEF Short
            <4> QED
                BY <2>1, <4>1, ReadKeeps
        <3> QED
            BY <3>1, <3>2
    <2>5. ~(Create \/ Close \/ Transfer \/ Save \/ SaveChunk \/ SaveFails \/ SaveDone)
        BY DEF Create, Close, Transfer, Save, SaveChunk, SaveFails, SaveDone, Idle
    <2> QED
        BY <2>2, <2>3, <2>4, <2>5 DEF Next
<1> QED
    BY <1>1, PreparedAlways, PTL DEF Spec, ReadsAreClean

-----------------------------------------------------------------------------
(* The lengths of chunks and of the file *)

Sized ==
    /\ Solid(disk)
    /\ \A i \in Chunk : Len(disk[i]) <= Extent(i, size)
    /\ \A i \in DOMAIN chunks : Len(chunks[i].data) = Extent(i, size)
    /\ ~creating => \A i \in Chunk : Len(disk[i]) = Extent(i, size)

LEMMA ExtentGrows ==
    ASSUME NEW i \in Nat, NEW m \in Nat, NEW n \in Nat, m <= n
    PROVE  Extent(i, m) <= Extent(i, n)
<1>1. Off(i) \in Nat /\ Off(i + 1) = Off(i) + ChunkSize /\ ChunkSize \in Nat
    BY Offsets, ChunkNumbers
<1> QED
    BY <1>1, ExtentIs

LEMMA CachedShape ==
    ASSUME TypeOK, Sized, NEW i \in DOMAIN chunks
    PROVE  /\ i \in Chunk /\ size \in Nat /\ Off(i) < size
           /\ chunks[i].data \in Seq(Byte) /\ Len(chunks[i].data) > 0
           /\ Len(chunks[i].data) = Extent(i, size) /\ Extent(i, size) > 0
<1>1. /\ i \in Chunk /\ i \in Nat /\ size \in Nat
      /\ chunks[i] \in [data : Data \ {<<>>}, dirty : BOOLEAN]
    BY ChunkNumbers DEF TypeOK
<1>2. chunks[i].data \in Seq(Byte) /\ chunks[i].data # <<>>
    BY <1>1, DataShape
<1>3. Len(chunks[i].data) > 0
    BY <1>2, EmptySeq
<1>4. Extent(i, size) \in Nat /\ (Extent(i, size) = 0 <=> size <= Off(i)) /\ Off(i) \in Nat
    BY <1>1, Extents, Offsets
<1> QED
    BY <1>1, <1>2, <1>3, <1>4 DEF Sized

\* A clean chunk is the file's, byte for byte.
LEMMA CleanIsFile ==
    ASSUME TypeOK, CleanAgrees, Sized, NEW i \in DOMAIN chunks, ~chunks[i].dirty
    PROVE  chunks[i].data = disk[i]
<1>1. /\ i \in Chunk /\ chunks[i].data \in Seq(Byte)
      /\ Len(chunks[i].data) = Extent(i, size)
    BY CachedShape
<1>2. disk[i] \in Seq(Byte) /\ Len(disk[i]) <= Extent(i, size)
    BY <1>1, FileShape DEF TypeOK, Sized
<1>3. IsPrefix(chunks[i].data, disk[i])
    BY DEF CleanAgrees
<1> QED
    BY <1>1, <1>2, <1>3, WholePrefix

\* Nothing below the first dirty chunk is missing from the file, so that the chunk that
\* is saved lands where it belongs and nowhere else.
LEMMA SavedInPlace ==
    ASSUME TypeOK, CleanAgrees, Prepared, Sized, SaveChunk
    PROVE  LET i == NextToSave IN
           /\ FileWrite(disk, i, chunks[i].data) = [disk EXCEPT ![i] = chunks[i].data]
           /\ \A j \in Chunk : j < i => Len(disk[j]) = ChunkSize
<1> DEFINE i == NextToSave
           d == chunks[i].data
<1>1. /\ i \in Dirty /\ i \in DOMAIN chunks /\ i \in Chunk /\ i \in Nat
      /\ d \in Data /\ \A j \in Dirty : i <= j
    BY SaveChunkShape, ChunkNumbers DEF Dirty
<1>2. Len(d) = Extent(i, size) /\ Extent(i, size) > 0 /\ size \in Nat
    BY <1>1, CachedShape
<1>3. Len(disk[i]) <= Len(d) /\ disk \in File
    BY <1>1, <1>2 DEF Sized, TypeOK
<1> HIDE DEF i, d
<1>4. ASSUME NEW j \in Chunk, j < i PROVE Len(disk[j]) = ChunkSize
    <2>1. j \in Nat /\ j \notin Dirty
        BY <1>1, <1>4, ChunkNumbers
    <2>2. Extent(j, size) = ChunkSize
        BY <1>1, <1>2, <1>4, <2>1, Extents
    <2>3. CASE creating
        <3>1. Off(j) < size
            <4>1. Off(j) \in Nat /\ (Extent(j, size) = 0 <=> size <= Off(j))
                BY <1>2, <2>1, Extents, Offsets
            <4> QED
                BY <1>2, <2>2, <4>1, ChunkNumbers
        <3>2. j \in DOMAIN chunks /\ ~chunks[j].dirty
            BY <2>1, <2>3, <3>1 DEF Prepared, Dirty
        <3>3. chunks[j].data = disk[j]
            BY <3>2, CleanIsFile
        <3> QED
            BY <2>2, <3>2, <3>3 DEF Sized
    <2>4. CASE ~creating
        BY <2>2, <2>4 DEF Sized
    <2> QED
        BY <2>3, <2>4
<1>5. FileWrite(disk, i, d) = [disk EXCEPT ![i] = d]
    BY <1>1, <1>3, <1>4, WrittenFile
<1> QED
    BY <1>4, <1>5 DEF i, d

\* At the end of a save to the own file, every chunk of the file has its length.
LEMMA WholeFile ==
    ASSUME TypeOK, CleanAgrees, Prepared, Sized, Dirty = {}, NEW i \in Chunk
    PROVE  Len(disk[i]) = Extent(i, size)
<1>1. i \in Nat /\ size \in Nat /\ Len(disk[i]) \in Nat /\ Len(disk[i]) <= Extent(i, size)
    BY ChunkNumbers, FileShape DEF Sized, TypeOK
<1>2. CASE ~creating
    BY <1>2 DEF Sized
<1>3. CASE creating /\ Off(i) < size
    <2>1. i \in DOMAIN chunks /\ ~chunks[i].dirty
        BY <1>3 DEF Prepared, Dirty
    <2>2. chunks[i].data = disk[i]
        BY <2>1, CleanIsFile
    <2> QED
        BY <2>1, <2>2 DEF Sized
<1>4. CASE ~(Off(i) < size)
    <2>1. Extent(i, size) = 0
        BY <1>1, <1>4, Extents, Offsets
    <2> QED
        BY <1>1, <2>1
<1> QED
    BY <1>2, <1>3, <1>4

\* What is loaded for a transfer is as long as the image reaches into the chunk.
LEMMA LoadedLength ==
    ASSUME Bounded, TypeOK, CallInv, Prepared, Sized, call.op \in {"read", "write"}
    PROVE  Len(Loaded(call.i).data) = Extent(call.i, size)
<1>1. /\ call.i \in Chunk /\ (creating => call.i \in DOMAIN chunks)
      /\ (call.i \notin DOMAIN chunks => Loaded(call.i) = FileRead(call.i))
    BY NeverFresh
<1>2. CASE call.i \in DOMAIN chunks
    BY <1>1, <1>2, LoadedShape DEF Sized
<1>3. CASE call.i \notin DOMAIN chunks
    <2>1. Loaded(call.i).data = disk[call.i]
        BY <1>1, <1>3 DEF FileRead
    <2> QED
        BY <1>1, <1>3, <2>1 DEF Sized
<1> QED
    BY <1>2, <1>3

LEMMA KeepSized ==
    ASSUME Sized, NEW i \in Chunk, NEW c, Len(c.data) = Extent(i, size),
           chunks' = Keep(i, c), UNCHANGED <<disk, size, creating>>
    PROVE  Sized'
<1>1. ASSUME NEW j \in DOMAIN chunks' PROVE Len(chunks'[j].data) = Extent(j, size)
    <2>1. CASE j = i
        <3>1. chunks'[j] = c
            BY <2>1, KeepShape, Zenon
        <3> QED
            BY <2>1, <3>1
    <2>2. CASE j # i
        <3>1. j \in DOMAIN chunks /\ chunks'[j] = chunks[j]
            BY <2>2 DEF Keep
        <3> QED
            BY <3>1 DEF Sized
    <2> QED
        BY <2>1, <2>2
<1> QED
    BY <1>1 DEF Sized

LEMMA SizedStep ==
    ASSUME Faults = {}, TypeOK, CallInv, SafeInv, Prepared, Sized, [Next]_vars
    PROVE  Sized'
<1>0. Reliable /\ Bounded /\ CleanAgrees
    BY DEF Reliable, Bounded, SafeInv
<1>1. CASE Reopen
    <2>1. DOMAIN chunks' = {} /\ size' = FileSize(disk) /\ disk' = disk
        BY <1>1 DEF Reopen
    <2>2. \A i \in Chunk : Len(disk[i]) = Extent(i, FileSize(disk))
        BY FileSizeBounds DEF TypeOK, Sized
    <2>3. \A i \in Chunk : Len(disk[i]) <= Extent(i, FileSize(disk))
        BY FileSizeBounds DEF TypeOK
    <2> QED
        BY <2>1, <2>2, <2>3 DEF Sized, Solid
<1>2. CASE Create
    <2>1. PICK n \in 1 .. MaxChunks * ChunkSize :
              /\ n >= FileSize(disk)
              /\ size' = n
              /\ chunks' = [i \in {c \in Chunk : c * ChunkSize < n} |->
                              [data |-> Zeros(Extent(i, n)), dirty |-> TRUE]]
        BY <1>2 DEF Create
    <2>2. n \in Nat /\ FileSize(disk) \in Nat
        <3>1. FileSize(disk) \in 0 .. Off(MaxChunks)
            BY FileSizeBounds DEF TypeOK
        <3>2. Off(MaxChunks) \in Nat
            BY ChunkNumbers, Offsets
        <3>3. MaxChunks * ChunkSize \in Nat
            BY <3>2 DEF Off
        <3> QED
            BY <3>1, <3>2, <3>3
    <2>3. ASSUME NEW i \in DOMAIN chunks' PROVE Len(chunks'[i].data) = Extent(i, n)
        <3>1. i \in Nat /\ chunks'[i].data = Zeros(Extent(i, n))
            BY <2>1, <2>3, ChunkNumbers
        <3>2. Extent(i, n) \in Nat
            BY <2>2, <3>1, ExtentRange
        <3> QED
            BY <3>1, <3>2, ZerosShape
    <2>4. ASSUME NEW i \in Chunk PROVE Len(disk[i]) <= Extent(i, n)
        <3>1. Len(disk[i]) <= Extent(i, FileSize(disk)) /\ Len(disk[i]) \in Nat
            BY FileSizeBounds, FileShape, ChunkNumbers DEF TypeOK
        <3>2. i \in Nat
            BY ChunkNumbers
        <3>3. /\ Extent(i, FileSize(disk)) <= Extent(i, n)
              /\ Extent(i, FileSize(disk)) \in Nat /\ Extent(i, n) \in Nat
            BY <2>1, <2>2, <3>2, ExtentGrows, ExtentRange
        <3> QED
            BY <3>1, <3>3
    <2>5. creating' /\ disk' = disk
        BY <1>2 DEF Create
    <2> QED
        BY <2>1, <2>3, <2>4, <2>5 DEF Sized, Solid
<1>3. CASE Close
    <2>1. DOMAIN chunks' = {} /\ UNCHANGED <<disk, size, creating>>
        BY <1>3 DEF Close
    <2> QED
        BY <2>1 DEF Sized, Solid
<1>4. CASE Transfer
    BY <1>4 DEF Transfer, Sized
<1>5. CASE Piece
    <2>1. /\ call.op \in {"read", "write"} /\ call.i \in Chunk /\ chunks' = Keep(call.i, Left)
          /\ Len(Left.data) = Len(Loaded(call.i).data)
          /\ UNCHANGED <<disk, size, creating>>
        BY <1>5, PieceShape
    <2>2. Len(Left.data) = Extent(call.i, size)
        BY <1>0, <2>1, LoadedLength
    <2> QED
        BY <2>1, <2>2, KeepSized
<1>6. CASE Short
    <2>1. /\ call.op \in {"read", "write"} /\ call.i \in Chunk
          /\ UNCHANGED <<disk, size, creating>>
        BY <1>6 DEF Short, CallInv
    <2>2. CASE Loaded(call.i).data = <<>>
        BY <1>6, <2>2 DEF Short, Sized
    <2>3. CASE Loaded(call.i).data # <<>>
        <3>1. chunks' = Keep(call.i, Loaded(call.i))
            BY <1>6, <2>3 DEF Short
        <3>2. Len(Loaded(call.i).data) = Extent(call.i, size)
            BY <1>0, <2>1, LoadedLength
        <3> QED
            BY <2>1, <3>1, <3>2, KeepSized
    <2> QED
        BY <2>2, <2>3
<1>7. CASE Save
    BY <1>7 DEF Save, Sized
<1>8. CASE SaveChunk
    <2> DEFINE i == NextToSave
               d == chunks[i].data
    <2>1. SaveChunk /\ call.to = "own"
        BY <1>8 DEF SaveChunk, SafeInv
    <2>2. /\ i \in DOMAIN chunks /\ i \in Chunk
          /\ DOMAIN chunks' = DOMAIN chunks
          /\ chunks'[i] = [data |-> d, dirty |-> FALSE]
          /\ \A j \in DOMAIN chunks : j # i => chunks'[j] = chunks[j]
          /\ UNCHANGED <<size, creating>>
        BY <2>1, SaveChunkShape DEF Dirty
    <2>3. /\ disk' = [disk EXCEPT ![i] = d]
          /\ \A j \in Chunk : j < i => Len(disk[j]) = ChunkSize
        BY <1>0, <2>1, SaveChunkShape, SavedInPlace DEF Reliable
    <2>4. Len(d) = Extent(i, size) /\ Extent(i, size) > 0 /\ size \in Nat /\ i \in Nat
        BY <2>2, CachedShape, ChunkNumbers
    <2>5. disk \in File /\ DOMAIN disk = Chunk
        BY DEF TypeOK, File
    <2> HIDE DEF i, d
    <2>6. disk'[i] = d /\ \A j \in Chunk : j # i => disk'[j] = disk[j]
        BY <2>2, <2>3, <2>5
    <2>7. ASSUME NEW j \in DOMAIN chunks' PROVE Len(chunks'[j].data) = Extent(j, size)
        BY <2>2, <2>4 DEF Sized
    <2>8. ASSUME NEW j \in Chunk PROVE /\ Len(disk'[j]) <= Extent(j, size)
                                       /\ ~creating => Len(disk'[j]) = Extent(j, size)
        <3>1. CASE j = i
            <4>1. Extent(i, size) \in Nat
                BY <2>4, ExtentRange
            <4> QED
                BY <2>4, <2>6, <3>1, <4>1
        <3>2. CASE j # i
            BY <2>6, <3>2 DEF Sized
        <3> QED
            BY <3>1, <3>2
    <2>9. ASSUME NEW m \in Chunk, NEW j \in Chunk, j < m, disk'[m] # <<>>
          PROVE  Len(disk'[j]) = ChunkSize
        <3>0. m \in Nat /\ j \in Nat
            BY ChunkNumbers
        <3>1. CASE m = i
            BY <2>3, <2>6, <2>9, <3>0, <3>1
        <3>2. CASE m # i /\ j # i
            BY <2>6, <2>9, <3>2 DEF Sized, Solid
        <3>3. CASE m # i /\ j = i
            <4>1. disk[m] # <<>> /\ Len(disk[m]) <= Extent(m, size) /\ Len(disk[m]) \in Nat /\ Len(disk[m]) # 0
                BY <2>5, <2>6, <2>9, <3>3, FileShape, ChunkNumbers DEF Sized
            <4>2. Extent(m, size) \in Nat
                BY <2>4, <3>0, ExtentRange
            <4>3. Extent(m, size) > 0
                BY <4>1, <4>2
            <4>4. Extent(i, size) = ChunkSize
                BY <2>4, <2>9, <3>0, <3>3, <4>3, Extents
            <4> QED
                BY <2>4, <2>6, <3>3, <4>4
        <3> QED
            BY <3>1, <3>2, <3>3
    <2> QED
        BY <2>2, <2>7, <2>8, <2>9 DEF Sized, Solid
<1>9. CASE SaveFails
    BY <1>9 DEF SaveFails, Sized
<1>10. CASE SaveDone
    <2>1. Dirty = {} /\ UNCHANGED <<disk, chunks, size>>
        BY <1>10 DEF SaveDone
    <2>2. \A i \in Chunk : Len(disk[i]) = Extent(i, size)
        BY <1>0, <2>1, WholeFile
    <2> QED
        BY <2>1, <2>2 DEF Sized
<1>11. CASE UNCHANGED vars
    BY <1>11 DEF vars, Sized
<1> QED
    BY <1>1, <1>2, <1>3, <1>4, <1>5, <1>6, <1>7, <1>8, <1>9, <1>10, <1>11 DEF Next

LEMMA SizedInit == Init => Sized
<1> SUFFICES ASSUME Init PROVE Sized
    OBVIOUS
<1>1. PICK n \in 0 .. MaxChunks * ChunkSize, b \in Byte : disk = Filled(n, b)
    BY DEF Init
<1>2. n \in Nat
    BY ChunkNumbers
<1>3. disk \in File /\ Solid(disk)
    BY <1>1, <1>2, FilledShape
<1>4. \A i \in Chunk : Len(disk[i]) = Extent(i, size)
    BY <1>3, FileSizeBounds DEF Init
<1>5. \A i \in Chunk : Len(disk[i]) <= Extent(i, size)
    BY <1>3, FileSizeBounds DEF Init
<1>6. DOMAIN chunks = {}
    BY DEF Init
<1> QED
    BY <1>3, <1>4, <1>5, <1>6 DEF Sized

SourceInv == TypeOK /\ CallInv /\ SafeInv /\ Prepared /\ Sized

LEMMA SourceStep == ASSUME Faults = {} PROVE SourceInv /\ [Next]_vars => SourceInv'
<1>1. Reliable /\ Bounded
    BY DEF Reliable, Bounded
<1> QED
    BY <1>1, TypeStep, SafeStep, PreparedStep, SizedStep DEF SourceInv

LEMMA SourceInit == Init => SourceInv
BY TypeInit, SafeInit, SizedInit DEF SourceInv, Init, Prepared

-----------------------------------------------------------------------------
(* The source implements the store *)

\* What a read of chunk i returns, in one expression.
Content(i) ==
    IF i \in DOMAIN chunks THEN chunks[i].data
    ELSE IF disk[i] = <<>> /\ creating THEN Zeros(ChunkSize) ELSE disk[i]
Mem == [i \in Chunk |-> Loaded(i).data]

LEMMA MemIs ==
    /\ DOMAIN Mem = Chunk /\ DOMAIN Mem' = Chunk
    /\ \A i \in Chunk : Mem[i] = Content(i) /\ Mem'[i] = Content(i)'
BY DEF Mem, Content, Loaded, FileRead

LEMMA MemSame ==
    ASSUME \A i \in Chunk : Content(i)' = Content(i)
    PROVE  Mem' = Mem
<1>1. Mem = [i \in Chunk |-> Content(i)] /\ Mem' = [i \in Chunk |-> Content(i)']
    BY DEF Mem, Content, Loaded, FileRead
<1> QED
    BY <1>1

\* The piece a write leaves in the cache is the store's overlay.
LEMMA PatchedIsOverlay ==
    ASSUME NEW s \in Seq(Byte), NEW t \in Seq(Byte), NEW k \in Nat, NEW n \in Nat,
           n > 0, n <= Len(t), k + n <= Len(s)
    PROVE  \E d \in [1 .. n -> Byte] : Patched(s, k, t, n) = Store!Overlay(s, k, d)
<1> DEFINE d == [j \in 1 .. n |-> t[j]]
           p == Patched(s, k, t, n)
           o == Store!Overlay(s, k, d)
<1>1. Len(t) \in Nat /\ Len(s) \in Nat
    OBVIOUS
<1>2. d \in [1 .. n -> Byte] /\ d \in Seq(Byte) /\ Len(d) = n
    <2>1. \A j \in 1 .. n : t[j] \in Byte
        BY <1>1
    <2> QED
        BY <2>1
<1>3. /\ p \in Seq(Byte) /\ Len(p) = Len(s)
      /\ \A j \in 1 .. Len(s) : p[j] = IF j \in k + 1 .. k + n THEN t[j - k] ELSE s[j]
    BY PatchedIs
<1>4. o = [j \in 1 .. Len(s) |-> IF j \in k + 1 .. k + n THEN t[j - k] ELSE s[j]]
    <2>1. o = [j \in 1 .. Len(s) |-> IF j \in k + 1 .. k + Len(d) THEN d[j - k] ELSE s[j]]
        BY DEF Store!Overlay
    <2>2. \A j \in k + 1 .. k + n : d[j - k] = t[j - k]
        BY <1>1
    <2> HIDE DEF d
    <2> QED
        BY <1>2, <2>1, <2>2
<1> HIDE DEF p, o, d
<1>5. DOMAIN p = 1 .. Len(s) /\ p = [j \in DOMAIN p |-> p[j]]
    BY <1>3
<1>6. p = o
    BY <1>3, <1>4, <1>5
<1> QED
    BY <1>2, <1>6 DEF p, o

LEMMA KeepSame ==
    ASSUME NEW i \in Chunk, i \in DOMAIN chunks \/ Loaded(i) = FileRead(i),
           chunks' = Keep(i, Loaded(i)) \/ chunks' = chunks,
           UNCHANGED <<disk, creating>>,
           i \notin DOMAIN chunks => ~(disk[i] = <<>> /\ creating)
    PROVE  Mem' = Mem
<1>1. CASE chunks' = chunks
    BY <1>1 DEF Mem, Loaded, FileRead
<1>2. CASE chunks' = Keep(i, Loaded(i))
    <2> SUFFICES ASSUME NEW j \in Chunk PROVE Content(j)' = Content(j)
        BY MemSame
    <2>1. CASE j = i
        <3>1. j \in DOMAIN chunks' /\ chunks'[j] = Loaded(i)
            BY <1>2, <2>1 DEF Keep
        <3>2. Loaded(i).data = Content(i)
            BY DEF Loaded, Content, FileRead
        <3> QED
            BY <2>1, <3>1, <3>2 DEF Content
    <2>2. CASE j # i
        <3>1. (j \in DOMAIN chunks' <=> j \in DOMAIN chunks) /\ (j \in DOMAIN chunks => chunks'[j] = chunks[j])
            BY <1>2, <2>2 DEF Keep
        <3> QED
            BY <3>1 DEF Content
    <2> QED
        BY <2>1, <2>2
<1> QED
    BY <1>1, <1>2

LEMMA WriteIsPut ==
    ASSUME Bounded, TypeOK, CallInv, Prepared, Piece, call.op = "write"
    PROVE  Store!Put
<1> DEFINE i == call.i
           old == Loaded(i).data
<1>1. /\ i \in Chunk /\ call.k \in Nat /\ Moved \in 1 .. ChunkSize /\ Moved <= Len(call.data)
      /\ call.k + Moved <= Len(old) /\ chunks' = Keep(i, Left)
      /\ UNCHANGED <<disk, creating, saved>>
    BY PieceShape
<1>2. /\ Left.data = Patched(old, call.k, call.data, Moved)
      /\ old \in Seq(Byte) /\ Len(old) \in 0 .. ChunkSize /\ call.data \in Seq(Byte)
    BY <1>1, LoadedShape, CallShape DEF Left
<1> HIDE DEF old
<1>3. /\ call.k \in 0 .. ChunkSize - 1 /\ Moved \in Nat /\ Moved > 0
    BY <1>1, <1>2, ChunkNumbers
<1>4. PICK d \in [1 .. Moved -> Byte] : Left.data = Store!Overlay(old, call.k, d)
    BY <1>1, <1>2, <1>3, PatchedIsOverlay
<1>5. Mem[i] = old /\ DOMAIN Mem = Chunk
    BY <1>1 DEF Mem, old
<1>6. Mem' = [Mem EXCEPT ![i] = Left.data]
    <2>1. ASSUME NEW j \in Chunk PROVE Content(j)' = IF j = i THEN Left.data ELSE Content(j)
        <3>1. CASE j = i
            <4>1. i \in DOMAIN chunks' /\ chunks'[i] = Left
                BY <1>1, KeepShape, Zenon DEF Keep
            <4> QED
                BY <3>1, <4>1 DEF Content
        <3>2. CASE j # i
            <4>1. /\ j \in DOMAIN chunks' <=> j \in DOMAIN chunks
                  /\ j \in DOMAIN chunks => chunks'[j] = chunks[j]
                BY <1>1, <3>2 DEF Keep
            <4> QED
                BY <1>1, <3>2, <4>1 DEF Content
        <3> QED
            BY <3>1, <3>2
    <2>2. Mem = [j \in Chunk |-> Content(j)] /\ Mem' = [j \in Chunk |-> Content(j)']
        BY DEF Mem, Content, Loaded, FileRead
    <2> HIDE DEF i
    <2> QED
        BY <1>1, <2>1, <2>2
<1>7. saved' = "no"
    BY <1>1 DEF CallInv
<1>8. Store!Chunk = Chunk
    BY DEF Store!Chunk, Chunk
<1> HIDE DEF i
<1>9. Mem' = [Mem EXCEPT ![i] = Store!Overlay(@, call.k, d)]
    BY <1>1, <1>4, <1>5, <1>6
<1>10. \E c \in Store!Chunk, k \in 0 .. ChunkSize - 1, n \in 1 .. ChunkSize :
           /\ k + n <= Len(Mem[c])
           /\ \E b \in [1 .. n -> Byte] : Mem' = [Mem EXCEPT ![c] = Store!Overlay(@, k, b)]
    BY <1>1, <1>3, <1>5, <1>8, <1>9
<1>11. (saved = "own")' = FALSE /\ disk' = disk
    BY <1>1, <1>7
<1> QED
    BY <1>10, <1>11 DEF Store!Put, Mem

LEMMA BlankStep ==
    ASSUME Faults = {}, TypeOK, Sized, Sized', Create
    PROVE  Store!Blank
<1>1. PICK n \in 1 .. MaxChunks * ChunkSize :
          /\ size' = n
          /\ chunks' = [i \in {c \in Chunk : c * ChunkSize < n} |->
                          [data |-> Zeros(Extent(i, n)), dirty |-> TRUE]]
    BY DEF Create
<1>2. n \in Nat
    <2>1. MaxChunks * ChunkSize \in Nat
        BY ChunkNumbers
    <2> QED
        BY <2>1
<1>3. creating' = TRUE /\ saved' = "no" /\ disk' = disk
    BY DEF Create
<1>4. ASSUME NEW i \in Chunk
      PROVE  Content(i)' = IF i * ChunkSize < n /\ n < (i + 1) * ChunkSize
                           THEN Store!Zeros(n - i * ChunkSize)
                           ELSE Store!Zeros(ChunkSize)
    <2>0. /\ \A m : Store!Zeros(m) = Zeros(m)
          /\ i \in Nat /\ Off(i) \in Nat /\ Off(i + 1) \in Nat
        <3>1. i \in Nat /\ i + 1 \in Nat
            BY ChunkNumbers
        <3>2. Off(i) \in Nat /\ Off(i + 1) \in Nat
            BY <3>1, Offsets
        <3>3. \A m : Store!Zeros(m) = Zeros(m)
            BY DEF Store!Zeros, Zeros
        <3> QED
            BY <3>1, <3>2, <3>3
    <2>1. CASE i * ChunkSize < n
        <3>1. i \in DOMAIN chunks' /\ chunks'[i].data = Zeros(Extent(i, n))
            BY <1>1, <2>1
        <3>2. Content(i)' = Zeros(Extent(i, n))
            BY <3>1 DEF Content
        <3>3. Extent(i, n) = IF n < (i + 1) * ChunkSize THEN n - i * ChunkSize ELSE ChunkSize
            BY <1>2, <2>0, <2>1 DEF Extent, Off
        <3> QED
            BY <2>0, <2>1, <3>2, <3>3
    <2>2. CASE ~(i * ChunkSize < n)
        <3>1. i \notin DOMAIN chunks'
            BY <1>1, <2>2
        <3>2. Extent(i, n) = 0
            BY <1>2, <2>0, <2>2 DEF Extent, Off
        <3>3. Len(disk[i]) <= 0
            BY <1>1, <1>3, <3>2 DEF Sized
        <3>4. disk[i] = <<>>
            BY <3>3, FileShape DEF TypeOK
        <3> QED
            BY <1>3, <2>0, <2>2, <3>1, <3>4 DEF Content
    <2> QED
        BY <2>1, <2>2
<1>5. Mem' = [i \in Chunk |-> Content(i)']
    BY DEF Mem, Content, Loaded, FileRead
<1>6. Store!Chunk = Chunk
    BY DEF Store!Chunk, Chunk
<1>7. Mem' = [i \in Store!Chunk |->
                 IF i * ChunkSize < n /\ n < (i + 1) * ChunkSize
                 THEN Store!Zeros(n - i * ChunkSize)
                 ELSE Store!Zeros(ChunkSize)]
    BY <1>4, <1>5, <1>6
<1>8. (saved = "own")' = FALSE
    BY <1>3
<1> QED
    BY <1>3, <1>7, <1>8 DEF Store!Blank, Mem

LEMMA LoseStep ==
    ASSUME TypeOK, DOMAIN chunks' = {}, ~creating', saved' = "no", disk' = disk
    PROVE  Store!Lose
<1>1. Mem' = [i \in Chunk |-> disk[i]]
    BY DEF Mem, Loaded, FileRead
<1>2. disk = [i \in Chunk |-> disk[i]]
    BY DEF TypeOK, File
<1>3. (saved = "own")' = FALSE /\ Mem' = disk
    BY <1>1, <1>2
<1> QED
    BY <1>3 DEF Store!Lose, Mem

\* The chunk that is saved becomes stable, and reads still return what they did.
LEMMA FlushStep ==
    ASSUME Faults = {}, SourceInv, SaveChunk
    PROVE  Store!Flush
<1> DEFINE i == NextToSave
           d == chunks[i].data
<1>1. /\ TypeOK /\ CleanAgrees /\ Prepared /\ Sized /\ call.to = "own"
      /\ Reliable
    BY DEF SourceInv, SafeInv, SaveChunk, Reliable
<1>2. /\ i \in DOMAIN chunks /\ i \in Chunk
      /\ DOMAIN chunks' = DOMAIN chunks
      /\ chunks'[i] = [data |-> d, dirty |-> FALSE]
      /\ \A j \in DOMAIN chunks : j # i => chunks'[j] = chunks[j]
      /\ UNCHANGED <<creating, saved>>
    BY <1>1, SaveChunkShape DEF Dirty
<1>3. disk' = [disk EXCEPT ![i] = d]
    BY <1>1, SaveChunkShape, SavedInPlace DEF Reliable
<1>4. DOMAIN disk = Chunk
    BY <1>1 DEF TypeOK, File
<1>5. Mem[i] = d
    BY <1>2 DEF Mem, Loaded
<1> HIDE DEF i, d
<1>6. Mem' = Mem
    <2> SUFFICES ASSUME NEW j \in Chunk PROVE Content(j)' = Content(j)
        BY MemSame
    <2>1. CASE j \in DOMAIN chunks
        <3>1. chunks'[j].data = chunks[j].data
            <4>1. CASE j = i
                BY <1>2, <4>1 DEF d
            <4>2. CASE j # i
                BY <1>2, <2>1, <4>2
            <4> QED
                BY <4>1, <4>2
        <3> QED
            BY <1>2, <2>1, <3>1 DEF Content
    <2>2. CASE j \notin DOMAIN chunks
        <3>1. disk'[j] = disk[j]
            BY <1>2, <1>3, <1>4, <2>2
        <3> QED
            BY <1>2, <2>2, <3>1 DEF Content
    <2> QED
        BY <2>1, <2>2
<1>7. Store!Chunk = Chunk
    BY DEF Store!Chunk, Chunk
<1>8. \E c \in Store!Chunk : disk' = [disk EXCEPT ![c] = Mem[c]]
    BY <1>2, <1>3, <1>5, <1>7
<1>9. UNCHANGED <<Mem, saved = "own">>
    BY <1>2, <1>6
<1> QED
    BY <1>8, <1>9 DEF Store!Flush, Mem

\* A save that returns true finds everything stable already.
LEMMA SaveStep ==
    ASSUME Faults = {}, SourceInv, SaveDone
    PROVE  Store!Save
<1>1. /\ TypeOK /\ CleanAgrees /\ Prepared /\ Sized /\ Dirty = {} /\ call.to = "own"
      /\ ~creating' /\ saved' = "own" /\ UNCHANGED <<disk, chunks>>
    BY DEF SourceInv, SafeInv, SaveDone
<1>2. ASSUME NEW i \in Chunk
      PROVE  /\ Content(i)' = disk[i]
             /\ Content(i) = disk[i] \/ (disk[i] = <<>> /\ Content(i) = Zeros(ChunkSize))
    <2>1. CASE i \in DOMAIN chunks
        <3>1. ~chunks[i].dirty
            BY <1>1, <2>1 DEF Dirty
        <3>2. chunks[i].data = disk[i]
            BY <1>1, <2>1, <3>1, CleanIsFile
        <3> QED
            BY <1>1, <2>1, <3>2 DEF Content
    <2>2. CASE i \notin DOMAIN chunks
        BY <1>1, <2>2 DEF Content
    <2> QED
        BY <2>1, <2>2
<1>3. disk = [i \in Chunk |-> disk[i]]
    BY <1>1 DEF TypeOK, File
<1>4. Mem' = [i \in Chunk |-> Content(i)']
    BY DEF Mem, Content, Loaded, FileRead
<1>5. Mem' = disk
    BY <1>2, <1>3, <1>4
<1>6. /\ \A m : Store!Zeros(m) = Zeros(m)
      /\ Store!Chunk = Chunk
    BY DEF Store!Zeros, Zeros, Store!Chunk, Chunk
<1>7. \A i \in Store!Chunk : Mem[i] \in {disk[i], Store!Zeros(ChunkSize)}
    BY <1>2, <1>6, MemIs
<1>8. \A i \in Store!Chunk : Mem[i] # disk[i] => disk[i] = <<>>
    BY <1>2, <1>6, MemIs
<1>9. (saved = "own")' = TRUE /\ disk' = disk
    BY <1>1
<1> QED
    BY <1>5, <1>7, <1>8, <1>9 DEF Store!Save, Mem

LEMMA StoreStep ==
    ASSUME Faults = {}, SourceInv, SourceInv', [Next]_vars
    PROVE  [Store!Next]_(Store!vars)
<1>0. /\ Reliable /\ Bounded /\ TypeOK /\ CallInv /\ Prepared /\ Sized /\ Sized'
      /\ (call.op # "idle" => saved = "no")
    BY DEF Reliable, Bounded, SourceInv, CallInv
<1>1. ASSUME UNCHANGED <<Mem, disk, saved>> PROVE UNCHANGED Store!vars
    BY <1>1 DEF Store!vars, Mem
<1>2. ASSUME UNCHANGED <<Mem, disk>>, saved' = "no" PROVE Store!Call
    <2>1. (saved = "own")' = FALSE
        BY <1>2
    <2> QED
        BY <1>2, <2>1 DEF Store!Call, Mem
<1>3. ASSUME UNCHANGED <<disk, chunks, creating>> PROVE UNCHANGED <<Mem, disk>>
    BY <1>3 DEF Mem, Loaded, FileRead
<1>4. CASE Reopen
    <2>1. DOMAIN chunks' = {} /\ ~creating' /\ saved' = "no" /\ disk' = disk
        BY <1>4 DEF Reopen
    <2> QED
        BY <1>0, <2>1, LoseStep DEF Store!Next
<1>5. CASE Create
    BY <1>0, <1>5, BlankStep DEF Store!Next
<1>6. CASE Close
    <2>1. DOMAIN chunks' = {} /\ ~creating' /\ saved' = "no" /\ disk' = disk
        BY <1>6 DEF Close
    <2> QED
        BY <1>0, <2>1, LoseStep DEF Store!Next
<1>7. CASE Transfer
    <2>1. saved' = "no" /\ UNCHANGED <<disk, chunks, creating>>
        BY <1>7 DEF Transfer
    <2> QED
        BY <1>2, <1>3, <2>1 DEF Store!Next
<1>8. ASSUME call.op \in {"read", "write"}, UNCHANGED <<disk, creating, saved>>,
             chunks' = Keep(call.i, Loaded(call.i)) \/ chunks' = chunks
      PROVE  UNCHANGED Store!vars
    <2>1. /\ call.i \in Chunk
          /\ call.i \in DOMAIN chunks \/ Loaded(call.i) = FileRead(call.i)
          /\ call.i \notin DOMAIN chunks => ~(disk[call.i] = <<>> /\ creating)
        BY <1>0, <1>8, NeverFresh
    <2>2. Mem' = Mem
        BY <1>8, <2>1, KeepSame
    <2> QED
        BY <1>1, <1>8, <2>2
<1>9. CASE Piece /\ call.op = "write"
    BY <1>0, <1>9, WriteIsPut DEF Store!Next
<1>10. CASE Piece /\ call.op # "write"
    <2>1. /\ call.op \in {"read", "write"} /\ chunks' = Keep(call.i, Left)
          /\ UNCHANGED <<disk, creating, saved>>
        BY <1>0, <1>10, PieceShape
    <2>2. Left = Loaded(call.i)
        BY <1>10, <2>1 DEF Left
    <2> QED
        BY <1>8, <2>1, <2>2
<1>11. CASE Short
    <2>1. /\ call.op \in {"read", "write"} /\ UNCHANGED <<disk, creating, saved>>
          /\ chunks' = Keep(call.i, Loaded(call.i)) \/ chunks' = chunks
        BY <1>11 DEF Short
    <2> QED
        BY <1>8, <2>1
<1>12. CASE Save
    <2>1. saved' = "no" /\ UNCHANGED <<disk, chunks, creating>>
        BY <1>12 DEF Save
    <2> QED
        BY <1>2, <1>3, <2>1 DEF Store!Next
<1>13. CASE SaveChunk
    BY <1>13, FlushStep DEF Store!Next
<1>14. CASE SaveFails
    <2>1. UNCHANGED <<disk, chunks, creating, saved>>
        BY <1>14 DEF SaveFails
    <2> QED
        BY <1>1, <1>3, <2>1
<1>15. CASE SaveDone
    BY <1>15, SaveStep DEF Store!Next
<1>16. CASE UNCHANGED vars
    <2>1. UNCHANGED <<disk, chunks, creating, saved>>
        BY <1>16 DEF vars
    <2> QED
        BY <1>1, <1>3, <2>1
<1> QED
    BY <1>4, <1>5, <1>6, <1>7, <1>9, <1>10, <1>11, <1>12, <1>13, <1>14, <1>15, <1>16 DEF Next

LEMMA StoreInit == Init => Store!Init
<1> SUFFICES ASSUME Init PROVE Store!Init
    OBVIOUS
<1>1. DOMAIN chunks = {} /\ ~creating /\ saved = "no" /\ disk \in File
    BY TypeInit DEF Init, TypeOK
<1>2. Mem = [i \in Chunk |-> disk[i]]
    BY <1>1 DEF Mem, Loaded, FileRead
<1>3. Mem = disk
    BY <1>1, <1>2 DEF File
<1>4. disk \in [Store!Chunk -> UNION {[1 .. n -> Byte] : n \in 0 .. ChunkSize}]
    BY <1>1 DEF File, Data, Store!Chunk, Chunk
<1>5. (saved = "own") = FALSE
    BY <1>1
<1> QED
    BY <1>3, <1>4, <1>5 DEF Store!Init, Mem

\* The whole of the cache, its dirty flags, the loops that stop half way and the file below
\* it make one memory with a stable copy, if the writes are real and nobody leaves the
\* image that is being created: Faults is empty, which is how cImage uses a source.
THEOREM SourceIsStore == ASSUME Faults = {} PROVE Spec => ImplementsStore
<1>1. SourceInv /\ [Next]_vars => SourceInv'
    BY SourceStep
<1>2. SourceInv /\ SourceInv' /\ [Next]_vars => [Store!Next]_(Store!vars)
    BY StoreStep
<1> QED
    BY <1>1, <1>2, SourceInit, StoreInit, PTL DEF Spec, ImplementsStore, Store!Spec
=============================================================================
