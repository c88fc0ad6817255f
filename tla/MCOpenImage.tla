---------------------------- MODULE MCOpenImage ----------------------------
(***************************************************************************)
(* Images for TLC, with blocks of 6 bytes, directory entries of 3, ISO     *)
(* sectors of 8 and records of 2 bytes and a name.                         *)
(***************************************************************************)
EXTENDS OpenImage

\* Bytes of a table of 12, 16 or 32 bits.
Bytes(entries, first, type) ==
    LET e(i) == IF i \in DOMAIN entries THEN IF type = 12 THEN entries[i] % 4096 ELSE entries[i] ELSE 0
        n == Len(entries)
    IN  IF type = 12
        THEN [p \in first .. first + 3 * Ceil(n, 2) - 1 |->
                LET i == 2 * ((p - first) \div 3) + 1 IN
                CASE (p - first) % 3 = 0 -> e(i) % 256
                  [] (p - first) % 3 = 1 -> (e(i) \div 256) + (e(i + 1) % 16) * 16
                  [] OTHER -> e(i + 1) \div 16]
        ELSE LET w == type \div 8 IN
             [p \in first .. first + w * n - 1 |->
                (e((p - first) \div w + 1) \div 256 ^ ((p - first) % w)) % 256]

Empty == [bytes |-> 0, dos |-> FALSE, boot |-> <<>>, table |-> <<>>, entries |-> <<>>,
          descriptors |-> <<>>, records |-> <<>>, written |-> <<>>]
BootOf == [NoBoot EXCEPT !.signed = TRUE, !.bytes = 6, !.perCluster = 1, !.reserved = 1,
           !.fats = 1, !.perFat = 2, !.rootEntries = 4, !.total = 9]
Entry(kind, name, part, start) ==
    [kind |-> kind, name |-> name, part |-> part, start |-> start, size |-> 1]
Placed(entries, first) ==
    [p \in {first + 3 * (i - 1) : i \in DOMAIN entries} |-> entries[(p - first) \div 3 + 1]]

-----------------------------------------------------------------------------
(* FAT: directories *)

Kinds == {Entry("end", "", 0, 0), Entry("deleted", "x", 0, 0), Entry("label", "v", 0, 0),
          Entry("long", "l1", 1, 0), Entry("long", "l2", 2, 0),
          Entry("file", "a", 0, 2), Entry("dir", "A", 0, 2)}
\* The subdirectory: four entries in clusters 2 and 3, or in a circle.
SubEntries == <<Entry("dir", ".", 0, 2), Entry("dir", "..", 0, 0), Entry("file", "b", 0, 5),
                Entry("dir", "c", 0, 4)>>
HighEntries == <<Entry("long", "l1", 1, 0), Entry("high", "x", 0, 3), Entry("file", "b", 0, 4)>>
Tables == {<<4088, 4095, 3, 4095, 0, 2748, 5, 0>>, <<4088, 4095, 3, 2, 4, 9, 0, 0>>}
Directories ==
    {[Empty EXCEPT !.bytes = 54, !.boot = 0 :> BootOf, !.table = Bytes(table, 6, 12),
                   !.entries = Placed(root, 18) @@ Placed(SubEntries, 30)] :
        root \in [1 .. 4 -> Kinds], table \in Tables}

-----------------------------------------------------------------------------
(* FAT: partitions.  Volumes are at blocks 6 and 20, tables elsewhere. *)

Part(type, start, active) == [type |-> type, start |-> start, active |-> active]
Fat(start) == Part("fat", start, FALSE)
Extended(start) == Part("extended", start, FALSE)
VolumeAt(total) ==
    [BootOf EXCEPT !.perFat = 1, !.rootEntries = 2, !.total = total]
Masters == {<<Fat(20), Extended(2)>>, <<Extended(2), Extended(4), Fat(20)>>,
            <<Extended(4), Part("other", 2, TRUE), Part("fat", 20, TRUE)>>, <<Extended(20), Fat(0)>>}
Links == {<<>>, <<Fat(2)>>, <<Extended(1)>>, <<Extended(2), Extended(1)>>,
          <<Extended(31), Fat(3)>>, <<Extended(30), Part("other", 1, FALSE)>>, <<Fat(0), Extended(0), Extended(31)>>}
Partitions ==
    {[Empty EXCEPT !.bytes = 270,
        !.boot = (0 :> [NoBoot EXCEPT !.parts = master]) @@ (6 :> VolumeAt(11)) @@ (20 :> VolumeAt(25))
                    @@ [r \in 1 .. 4 |-> [NoBoot EXCEPT !.parts = links[r]]],
        !.table = Bytes(<<4088, 4095, 4095, 1>>, 42, 12) @@ Bytes(<<4088, 4095, 0, 2>>, 126, 12),
        !.entries = Placed(<<Entry("file", "b", 0, 2)>>, 48)] :
        master \in Masters, links \in [1 .. 4 -> Links]}

\* Block 20 is what passes the test, block 6 or block 0 what is opened, with sectors of
\* no bytes.
NoBytes == [VolumeAt(11) EXCEPT !.bytes = 0]
NoSectors ==
    {[Empty EXCEPT !.bytes = 270,
        !.boot = (0 :> [boot EXCEPT !.parts = parts]) @@ (6 :> boot) @@ (20 :> VolumeAt(25)),
        !.table = Bytes(<<4088, 4095, 0, 2>>, 126, 12)] :
        parts \in {<<Fat(20), Part("fat", 6, TRUE)>>, <<Extended(20)>>},
        boot \in {NoBytes, [NoBytes EXCEPT !.rootEntries = 0], [NoBytes EXCEPT !.fats = 0],
                  [NoBytes EXCEPT !.perFat = 0, !.perFat32 = 1],
                  [NoBytes EXCEPT !.fats = 0, !.perFat32 = 1], [NoBytes EXCEPT !.perCluster = 129]}}

-----------------------------------------------------------------------------
(* FAT: types of tables, and boot records that are out of the ordinary *)

Types16 == [BootOf EXCEPT !.perFat = 3, !.total = 12]
Types32 == [BootOf EXCEPT !.perFat = 0, !.perFat32 = 7, !.rootEntries = 0, !.rootCluster = 3,
                          !.total = 16]
Large == [BootOf EXCEPT !.bytes = 12, !.perCluster = 2, !.perFat = 1, !.fats = 2, !.total = 12]
Boots ==
    {Types16, Types32, Large,
     [Types16 EXCEPT !.perFat = 2],                     \* a table that is too short
     [Types16 EXCEPT !.total = 13],                     \* six clusters
     [Types32 EXCEPT !.perCluster = 2, !.total = 14],   \* few clusters, no root area
     [Types32 EXCEPT !.total = 30],                     \* more than any type allows
     [BootOf EXCEPT !.perFat = 3, !.rootEntries = 0, !.rootCluster = 2],  \* uninitialised members
     [BootOf EXCEPT !.perFat = 0, !.perFat32 = 2],
     [BootOf EXCEPT !.signed = FALSE], [BootOf EXCEPT !.total = 6], [BootOf EXCEPT !.fats = 0]}
Numbers == <<4088, 4095, 5, 268435455, 4, 65535, 43981, 19088743, 7, 3>>
Formats ==
    {[Empty EXCEPT !.bytes = 180, !.boot = 0 :> boot,
                   !.table = Bytes(numbers, IF boot.bytes = 12 THEN 12 ELSE 6, width),
                   !.entries = Placed(SubEntries, 48) @@ Placed(SubEntries, 54) @@ Placed(HighEntries, 60)] :
        boot \in Boots, width \in {12, 16, 32},
        numbers \in {Numbers, [Numbers EXCEPT ![3] = 4, ![4] = 2, ![5] = 5]}}

-----------------------------------------------------------------------------
(* ISO *)

Rec(len, kind, name, lba, size) ==
    [len |-> len, idLen |-> 1, kind |-> kind, name |-> name, lba |-> lba, size |-> size]
Records4 == {Rec(3, "file", "a", 8, 9), Rec(5, "section", "A", 9, 3), Rec(4, "dir", "c", 6, 12),
             Rec(3, "dots", "a", 4, 12), Rec(3, "associated", "a", 8, 1), Rec(8, "file", "b", 9, 16),
             Rec(3, "file", "x", 8, 14), Rec(4, "file", "b", 30, 0)}
\* The records written one after the other; one that does not fit starts a sector.
Mastered(records, first) ==
    LET place(at, r) == IF (at % 8) + r.len > 8 THEN (at \div 8 + 1) * 8 ELSE at
        put(s, r) == [at |-> place(s.at, r) + r.len, map |-> s.map @@ (place(s.at, r) :> r)]
    IN  FoldLeft(put, [at |-> first, map |-> <<>>], records)
DescriptorOf(type, joliet, lba) ==
    [magic |-> TRUE, type |-> type, joliet |-> joliet, space |-> 10, lba |-> lba, size |-> 12]
Standard == (1 :> DescriptorOf("primary", FALSE, 4)) @@ (2 :> DescriptorOf("terminator", FALSE, 0))
SubRecords == <<Rec(3, "dots", "c", 6, 12), Rec(5, "file", "b", 9, 2), Rec(4, "file", "a", 8, 0)>>
Cds ==
    {[Empty EXCEPT !.bytes = 80, !.descriptors = Standard,
        !.records = Mastered(root, 32).map @@ Mastered(SubRecords, 48).map,
        !.written = (4 :> root) @@ (6 :> SubRecords)] :
        root \in {r \in UNION {[1 .. n -> Records4] : n \in 0 .. 4} : Mastered(r, 32).at <= 44}}

\* Directories that nobody wrote by the rules.
Broken == {Padding, Rec(1, "file", "a", 8, 2), Rec(3, "file", "", 8, 2), Rec(7, "dir", "c", 4, 12),
           Rec(2, "file", "b", 9, 3), Rec(3, "dir", "A", 0, 0)}
BrokenCds ==
    {[Empty EXCEPT !.bytes = 82, !.descriptors = Standard,
        !.records = [p \in {32, 33, 35, 40, 43} |-> r[p]]] : r \in [{32, 33, 35, 40, 43} -> Broken]}

\* Descriptors, of which three are read; the volumes differ.
NoSpace == [DescriptorOf("primary", FALSE, 4) EXCEPT !.space = 0]
Sets == {DescriptorOf("primary", FALSE, 4), DescriptorOf("supplementary", TRUE, 6),
         DescriptorOf("supplementary", FALSE, 6), DescriptorOf("boot", FALSE, 0),
         DescriptorOf("terminator", FALSE, 0), NoSpace, [NoSpace EXCEPT !.magic = FALSE],
         [NoSpace EXCEPT !.type = "other"]}
Volumes ==
    {[Empty EXCEPT !.bytes = 80, !.descriptors = [s \in 1 .. 4 |-> d[s]],
        !.records = Mastered(SubRecords, 32).map @@ Mastered(Tail(SubRecords), 48).map,
        !.written = (4 :> SubRecords) @@ (6 :> Tail(SubRecords))] : d \in [1 .. 4 -> Sets]}

\* Images that pass every test, one of which has a partition where there is none, and
\* an empty one.
Deep == <<Rec(4, "dir", "c", 6, 12), Rec(3, "file", "a", 8, 9)>>
Hybrid ==
    {[Empty EXCEPT !.bytes = 96, !.dos = dos, !.boot = 0 :> [BootOf EXCEPT !.parts = parts],
        !.descriptors = Standard, !.records = Mastered(Deep, 32).map @@ Mastered(Deep, 48).map,
        !.written = (4 :> Deep) @@ (6 :> Deep)] : dos \in BOOLEAN, parts \in {<<>>, <<Fat(9)>>}}
        \cup {Empty}

-----------------------------------------------------------------------------
(* Commodore images, with a map of any bytes and with none *)

Sizes == [D64 |-> 174848, D71 |-> 349696, D81 |-> 819200]
\* Where the header's type of DOS is, and where the sectors of the map are.
DosAt == [D64 |-> 91557, D71 |-> 91557, D81 |-> 399385]
MapAt == [D64 |-> {91392}, D71 |-> {91392, 266240}, D81 |-> {399616, 399872}]
Commodore ==
    {[Empty EXCEPT !.bytes = Sizes[type], !.descriptors = Standard,
        !.table = (DosAt[type] :> dos[1]) @@ (DosAt[type] + 1 :> dos[2])
                    @@ [p \in {q + n : q \in MapAt[type], n \in 4 .. 255} |-> (p * factor) % 256]] :
        type \in DOMAIN Sizes, dos \in {<<50, 65>>, <<50, 80>>, <<51, 68>>}, factor \in {0, 37}}

MCImages == <<Directories, Partitions, NoSectors, Formats, Cds, BrokenCds, Volumes, Hybrid, Commodore>>

\* The last sector of a zone, of a side and of a disk, the first of a side, and one
\* past a track's last.
MCEdgeSectors == {<<17, 20>>, <<35, 16>>, <<36, 0>>, <<70, 17>>, <<80, 39>>}

MCPaths == {<<>>, <<<<"a">>>>, <<<<"A">>, <<"B">>>>, <<<<"c">>, <<"C">>, <<"a">>>>}
MCUpperCase ==
    [n \in {"a", "A", "b", "B", "c", "C", "x", "v", "l1", "l2", ".", "..", "", "/"} |->
        IF n = "a" THEN "A" ELSE IF n = "b" THEN "B" ELSE IF n = "c" THEN "C" ELSE n]
=============================================================================
