----------------------------- MODULE FatVolume -----------------------------
(***************************************************************************)
(* A FAT volume: cFAT (src/source/images/fat.cpp) from the partition       *)
(* tables to the nodes of a directory.                                     *)
(*                                                                         *)
(* source.boot holds what reads as a boot record, by block, source.table   *)
(* the bytes of allocation tables, and source.entries what reads as a      *)
(* directory entry, both by byte; anywhere else there are zeros.  Nothing  *)
(* of it can be trusted: tables may name each other in a circle.           *)
(***************************************************************************)
EXTENDS ImageSource

CONSTANTS
    BlockBytes,     \* 512: the blocks of partition tables, a boot record
    EntryBytes,     \* sizeof(sFileEntry)
    SectorSizes,    \* the sector sizes imageTest accepts
    ClusterSizes,   \* the powers of two: sectors in a cluster
    Fat12Limit, Fat16Limit, Fat32Limit, \* cluster counts: 4085, 65525, 268435456
    Width,          \* block numbers wrap: 2^32
    Garbage         \* bound: what an uninitialised member may hold

ASSUME FatAssumption ==
    /\ {BlockBytes, EntryBytes, Width} \subseteq Nat \ {0}
    /\ SectorSizes \subseteq Nat \ {0} /\ ClusterSizes \subseteq 1 .. 128
    /\ 0 < Fat12Limit /\ Fat12Limit < Fat16Limit /\ Fat16Limit < Fat32Limit
    /\ Garbage \subseteq Nat /\ Garbage # {}

VARIABLES
    search,     \* filesystemLoad: extendedPartitions, base, current, visited, fallback
    fatVolume   \* mBootBlock and what partitionOpen makes of it

-----------------------------------------------------------------------------
(* Bytes of the source *)

NoBoot == [signed |-> FALSE, bytes |-> 0, perCluster |-> 0, reserved |-> 0, fats |-> 0,
           rootEntries |-> 0, total |-> 0, perFat |-> 0, perFat32 |-> 0, rootCluster |-> 0,
           parts |-> <<>>]
BootRecords ==
    [signed : BOOLEAN, bytes : Nat, perCluster : Nat, reserved : Nat, fats : Nat,
     rootEntries : Nat, total : Nat, perFat : Nat, perFat32 : Nat, rootCluster : Nat,
     parts : Seq([type : {"fat", "extended", "other"}, start : Nat, active : BOOLEAN])]
HasBlock(b) == (b + 1) * BlockBytes <= source.bytes
Boot(b) == IF b \in DOMAIN source.boot THEN source.boot[b] ELSE NoBoot
\* A directory entry; a piece of a long name has its number.
Entries == [kind : {"end", "deleted", "high", "label", "long", "file", "dir"},
            name : STRING, part : Nat, start : Nat, size : Nat]
NoEntry == [kind |-> "end", name |-> "", part |-> 0, start |-> 0, size |-> 0]
EntryAtByte(p) == IF p \in DOMAIN source.entries THEN source.entries[p] ELSE NoEntry

-----------------------------------------------------------------------------
(* imageTest *)

Ceil(a, b) == (a + b - 1) \div b

\* A partition of a table is "fat", "extended", or neither; partitionTypeIsFat and
\* partitionTypeIsExtended.
IsFatPart(p) == p.type = "fat"
IsExtended(p) == p.type = "extended"

Validate(b, offset) ==
    LET perFat == IF b.perFat > 0 THEN b.perFat ELSE b.perFat32
        used == b.reserved + b.fats * perFat + Ceil(b.rootEntries * EntryBytes, b.bytes)
    IN  /\ b.signed
        /\ b.bytes \in SectorSizes /\ b.perCluster \in ClusterSizes
        /\ perFat > 0 /\ b.fats > 0 /\ b.reserved > 0 /\ b.total > 0
        /\ b.total * b.bytes + offset <= source.bytes
        /\ b.total > used
        /\ b.rootEntries = 0 => b.rootCluster >= 2
        /\ (b.total - used) \div b.perCluster >= 2

IsFat ==
    /\ HasBlock(0)
    /\ \/ Validate(Boot(0), 0)
       \/ \E i \in DOMAIN Boot(0).parts :
             LET p == Boot(0).parts[i] IN
             /\ IsFatPart(p) \/ IsExtended(p)
             /\ p.start > 0 /\ HasBlock(p.start)
             /\ Validate(Boot(p.start), p.start * BlockBytes)

-----------------------------------------------------------------------------
(* filesystemBitmapLoad *)

\* (The halves of the middle byte are swapped.)
Load12Swapped(p, n) ==
    [j \in 0 .. 2 * (n \div 3) - 1 |->
        LET i == p + 3 * (j \div 2) IN
        IF j % 2 = 0 THEN Byte(i) + (Byte(i + 1) \div 16) * 256
        ELSE (Byte(i + 1) % 16) + Byte(i + 2) * 16]

\* The entries of a table of n bytes from byte p on.
Load12(p, n) ==
    [j \in 0 .. 2 * (n \div 3) - 1 |->
        LET i == p + 3 * (j \div 2) IN
        IF j % 2 = 0 THEN Byte(i) + (Byte(i + 1) % 16) * 256
        ELSE (Byte(i + 1) \div 16) + Byte(i + 2) * 16]

Load16(p, n) == [j \in 0 .. n \div 2 - 1 |-> Byte(p + 2 * j) + Byte(p + 2 * j + 1) * 256]
Load32(p, n) ==
    [j \in 0 .. n \div 4 - 1 |->
        Byte(p + 4 * j) + Byte(p + 4 * j + 1) * 256 + Byte(p + 4 * j + 2) * 65536
            + (Byte(p + 4 * j + 3) % 16) * 16777216]

TypeFor(clusters) ==
    IF clusters < Fat12Limit THEN "FAT12"
    ELSE IF clusters < Fat16Limit THEN "FAT16"
    ELSE IF clusters < Fat32Limit THEN "FAT32" ELSE "unknown"

TableSectors(b, type) ==
    IF type = "FAT32" THEN IF b.perFat32 > 0 THEN b.perFat32 ELSE b.perFat
    ELSE IF b.perFat > 0 THEN b.perFat ELSE b.perFat32

Table(b, type, at) ==
    LET p == at * b.bytes
        n == TableSectors(b, type) * b.bytes
    IN  IF type = "FAT12" THEN Load12(p, n)
        ELSE IF type = "FAT16" THEN Load16(p, n) ELSE Load32(p, n)

\* The table is in the source, and has an entry for each cluster; it is cut to them.
CanLoadTable(b, type, at, clusters) ==
    /\ InSource(at * b.bytes, TableSectors(b, type) * b.bytes)
    /\ Cardinality(DOMAIN Table(b, type, at)) >= clusters + 2

-----------------------------------------------------------------------------
(* partitionOpen *)

ClusterToBlock(v, c) == IF c < 2 THEN v.data ELSE v.data + (c - 2) * v.boot.perCluster

\* Where table, root and data of a volume are.  A boot record that has sectors in
\* its tables and no root entries leaves members uninitialised.
Places(n, b) ==
    LET table == n + b.reserved
        perFat == IF b.fats > 0 THEN b.perFat ELSE b.perFat32
        root == table + perFat * b.fats
        data32 == table + b.perFat32 * b.fats
    IN  IF perFat > 0 /\ b.perCluster <= 128
        THEN IF b.rootEntries > 0
             THEN {[table |-> table, root |-> root, rootCluster |-> 0,
                    data |-> root + Ceil(b.rootEntries * EntryBytes, b.bytes)]}
             ELSE {[table |-> table, root |-> 0, rootCluster |-> c, data |-> d] :
                        c \in Garbage, d \in Garbage}
        ELSE IF b.perFat32 > 0 /\ b.fats > 0
        THEN {[table |-> table, rootCluster |-> b.rootCluster, data |-> data32,
               root |-> ClusterToBlock([data |-> data32, boot |-> b], b.rootCluster)]}
        ELSE {[table |-> table, root |-> 0, rootCluster |-> c, data |-> d] :
                    c \in Garbage, d \in Garbage}

\* mClustersTotal: clusters from the data on.  data counts from the start of the
\* image, total from that of the partition.
ClustersTotal(b, place) == (b.total - place.data) \div b.perCluster

\* The volume is opened.  When the data starts past the total, the difference
\* wraps to more clusters than any type of table allows.
CanOpen(n, place) ==
    LET b == Boot(n) IN
    /\ HasBlock(n) /\ b.perCluster > 0
    /\ place.data <= b.total
    /\ TypeFor(ClustersTotal(b, place)) # "unknown"
    /\ CanLoadTable(b, TypeFor(ClustersTotal(b, place)), place.table, ClustersTotal(b, place))

Opened(n, place) ==
    LET b == Boot(n)
        clusters == ClustersTotal(b, place)
        table == Table(b, TypeFor(clusters), place.table)
    IN  [start |-> n, boot |-> b, root |-> place.root, rootCluster |-> place.rootCluster,
         data |-> place.data, clusters |-> clusters, type |-> TypeFor(clusters),
         map |-> [c \in 0 .. clusters + 1 |-> table[c]]]

\* The root area is counted in sectors, and these have no bytes: imageTest may have
\* looked at another partition than the one that is opened.
DividesByZero(n) ==
    LET b == Boot(n) IN
    /\ HasBlock(n)
    /\ b.bytes = 0 /\ b.rootEntries > 0 /\ b.perCluster <= 128
    /\ IF b.fats > 0 THEN b.perFat > 0 ELSE b.perFat32 > 0

\* A division by zero ends the process, or, on processors where it has a result, the
\* table that is loaded is empty, and refused.
PartitionOpen(n) ==
    \/ /\ DividesByZero(n)
       /\ pc' \in {"died", "isoTest"}
       /\ UNCHANGED fatVolume
    \/ /\ ~DividesByZero(n)
       /\ \E place \in Places(n, Boot(n)) :
             IF CanOpen(n, place)
             THEN pc' = "openFat" /\ fatVolume' = Opened(n, place)
             ELSE pc' = "isoTest" /\ UNCHANGED fatVolume

-----------------------------------------------------------------------------
(* filesystemLoad *)

NoSearch == [extended |-> {}, base |-> 0, current |-> 0, visited |-> {}, fallback |-> 0]
NoFatVolume == [start |-> 0, boot |-> NoBoot, root |-> 0, rootCluster |-> 0, data |-> 0,
                clusters |-> 0, type |-> "unknown", map |-> <<>>]

\* The places of parts in the table of a record, and the start of the first of them,
\* or 0.
FatParts(r) == {i \in DOMAIN Boot(r).parts : IsFatPart(Boot(r).parts[i]) /\ Boot(r).parts[i].start > 0}
ActiveParts == {i \in FatParts(0) : Boot(0).parts[i].active}
ExtendedParts == {i \in DOMAIN Boot(0).parts : IsExtended(Boot(0).parts[i]) /\ Boot(0).parts[i].start > 0}
FirstStart(r, places) == IF places = {} THEN 0 ELSE Boot(r).parts[Min(places)].start

\* The partition table of block 0: an active partition is opened at once.
ReadPartitions ==
    /\ pc = "fat"
    /\ IF ActiveParts # {} THEN PartitionOpen(FirstStart(0, ActiveParts)) /\ UNCHANGED search
       ELSE /\ pc' = "fatExtended"
            /\ search' = [NoSearch EXCEPT !.extended = ExtendedParts,
                                          !.fallback = FirstStart(0, FatParts(0))]
            /\ UNCHANGED fatVolume
    /\ UNCHANGED source

\* (A chain that comes round again is not noticed.)
ChainEndsUnvisited == search.current = 0 \/ ~HasBlock(search.current)

\* The next extended partition, when the chain of the one before has ended.
ChainEnds == search.current = 0 \/ search.current \in search.visited \/ ~HasBlock(search.current)

NextBase ==
    /\ pc = "fatExtended" /\ ChainEnds /\ search.extended # {}
    /\ LET start == FirstStart(0, search.extended)
       IN  search' = [search EXCEPT !.extended = @ \ {Min(@)}, !.base = start, !.current = start,
                                    !.visited = {}]
    /\ UNCHANGED <<source, pc, fatVolume>>

\* (From the record as well.)
NextRecordFromCurrent(start) == (search.current + start) % Width

\* A logical partition counts from the record that names it, the next record from
\* the extended partition.
Logical(start) == (search.current + start) % Width
NextRecord(start) == (search.base + start) % Width

ReadRecord ==
    LET r == search.current
        fats == FatParts(r)
        extended == {i \in DOMAIN Boot(r).parts :
                        LET p == Boot(r).parts[i] IN IsExtended(p) /\ p.start > 0 /\ NextRecord(p.start) > 0}
    IN  /\ pc = "fatExtended" /\ ~ChainEnds
        /\ IF fats # {} THEN PartitionOpen(Logical(FirstStart(r, fats))) /\ UNCHANGED search
           ELSE /\ search' = [search EXCEPT
                                !.visited = @ \cup {r},
                                !.current = IF extended = {} THEN 0 ELSE NextRecord(FirstStart(r, extended))]
                /\ UNCHANGED <<pc, fatVolume>>
        /\ UNCHANGED source

\* No chain has a partition: the fallback, or the image as a whole, which is block 0.
Fallback ==
    /\ pc = "fatExtended" /\ ChainEnds /\ search.extended = {}
    /\ PartitionOpen(search.fallback)
    /\ UNCHANGED <<source, search>>

FatStep == ReadPartitions \/ NextBase \/ ReadRecord \/ Fallback

-----------------------------------------------------------------------------
(* Directories *)

\* fatSectorNext, by type of table.
IsEndOf(type, value) ==
    \/ value = 0
    \/ type = "FAT12" /\ value \in 4080 .. 4095
    \/ type = "FAT16" /\ value \in 65520 .. 65535
    \/ type = "FAT32" /\ value >= 268435440
NextCluster(c) ==
    LET v == fatVolume IN
    IF c >= 2 /\ c \in DOMAIN v.map /\ ~IsEndOf(v.type, v.map[c]) /\ v.map[c] # c
    THEN v.map[c] ELSE 0

\* The clusters clusterChainRead copies; FatClusters has its steps.
ClusterChain(c) ==
    LET walk[n \in 0 .. fatVolume.clusters] ==
            IF n = 0 THEN <<c>>
            ELSE LET w == walk[n - 1] IN
                 IF NextCluster(Last(w)) = 0 THEN w ELSE Append(w, NextCluster(Last(w)))
    IN  walk[fatVolume.clusters]

\* The root of a volume that is not FAT32 has an area of its own.
Areas(dir, isRoot) ==
    LET v == fatVolume
        sector == v.boot.bytes
        cluster(c) == [first |-> ClusterToBlock(v, c) * sector, size |-> v.boot.perCluster * sector]
    IN  IF isRoot /\ v.type # "FAT32"
        THEN <<[first |-> v.root * sector, size |-> v.boot.rootEntries * EntryBytes]>>
        ELSE [j \in 1 .. Len(ClusterChain(dir)) |-> cluster(ClusterChain(dir)[j])]

CanLoadEntries(dir, isRoot) == \A a \in Range(Areas(dir, isRoot)) : InSource(a.first, a.size)

EntriesIn(dir, isRoot) ==
    FlattenSeq([j \in DOMAIN Areas(dir, isRoot) |->
        LET a == Areas(dir, isRoot)[j] IN
        [k \in 1 .. a.size \div EntryBytes |-> EntryAtByte(a.first + (k - 1) * EntryBytes)]])

\* entriesLoad stops at an entry without a name, and passes over names that start
\* with a blank or a byte above 0x80.
Skipped == {"deleted", "high"}
BeforeEnd(entries) ==
    LET ends == {i \in DOMAIN entries : entries[i].kind = "end"} IN
    SubSeq(entries, 1, IF ends = {} THEN Len(entries) ELSE Min(ends) - 1)

\* (In the order of the disk.)
LongNameUnsorted(long) == [j \in 1 .. Len(long) |-> long[j].name]

\* The pieces of a long name in the order of their numbers.  (Of two pieces with one
\* number, which a sound directory does not have, the code may take either first.)
LongName(long) ==
    LET before(j) == {i \in DOMAIN long :
                    long[i].part < long[j].part \/ (long[i].part = long[j].part /\ i < j)}
    IN  [n \in DOMAIN long |-> long[CHOOSE j \in DOMAIN long : Cardinality(before(j)) = n - 1].name]

NodeName(e, long) == IF long = <<>> THEN <<e.name>> ELSE LongName(long)

\* entryLoad, with the pieces of a long name that wait for their entry: a label
\* leaves them waiting.
EntryLoad(state, e) ==
    LET node == [name |-> NodeName(e, state.long), dir |-> e.kind = "dir", at |-> <<e.start, e.size>>]
    IN  IF e.kind \in Skipped \cup {"label"} THEN state
        ELSE IF e.kind = "long" THEN [state EXCEPT !.long = Append(@, e)]
        ELSE IF node.dir /\ node.name \in {<<".">>, <<"..">>} THEN [state EXCEPT !.long = <<>>]
        ELSE [nodes |-> Append(state.nodes, node), long |-> <<>>]

ParseEntries(entries) ==
    LET read == BeforeEnd(entries)
        loaded[k \in 0 .. Len(read)] ==
            IF k = 0 THEN [nodes |-> <<>>, long |-> <<>>] ELSE EntryLoad(loaded[k - 1], read[k])
    IN  loaded[Len(read)].nodes

-----------------------------------------------------------------------------
(* What a directory holds, apart from how it is walked *)

IsNode(e) == e.kind = "file" \/ (e.kind = "dir" /\ e.name \notin {".", ".."})

\* Pieces of a long name stand right before their entry, the last one first; it is not
\* the name of the directory or its parent; and no short name starts with a byte above
\* 0x80.
IsSound(entries) ==
    \A i \in DOMAIN entries :
        /\ entries[i].kind # "high"
        /\ entries[i].kind = "long" =>
                /\ i < Len(entries) /\ entries[i].name \notin {".", ".."}
                /\ \/ entries[i].part = 1 /\ IsNode(entries[i + 1])
                   \/ entries[i + 1].kind = "long" /\ entries[i + 1].part = entries[i].part - 1

\* The name of the i-th entry: the piece n of a long name is n entries before it.
NameOnDisk(entries, i) ==
    LET pieces == {n \in 1 .. i - 1 : \A m \in 1 .. n : entries[i - m].kind = "long" /\ entries[i - m].part = m}
    IN  IF pieces = {} THEN <<entries[i].name>>
        ELSE [n \in 1 .. Max(pieces) |-> entries[i - n].name]

EntriesOnDisk(entries) ==
    LET order == InOrder({i \in DOMAIN entries : IsNode(entries[i])})
    IN  [k \in DOMAIN order |->
            [name |-> NameOnDisk(entries, order[k]), dir |-> entries[order[k]].kind = "dir",
             at |-> <<entries[order[k]].start, entries[order[k]].size>>]]

=============================================================================
