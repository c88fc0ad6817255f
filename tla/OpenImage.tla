----------------------------- MODULE OpenImage -----------------------------
(***************************************************************************)
(* Opening an image and looking into it: cFiry::openImage                  *)
(* (src/source/firy.cpp) tries one format after the other, and the tree of *)
(* files (src/source/filesystem/filesystem.cpp) loads a directory when it  *)
(* is first looked into.  Composes D64Layout, FatVolume and IsoVolume;     *)
(* whether an Amiga image can be loaded is left open.                      *)
(*                                                                         *)
(* A node is known by its path of positions, the root by the empty one.    *)
(***************************************************************************)
EXTENDS D64Layout, FatVolume, IsoVolume

CONSTANTS
    Images,         \* bound: the images that are opened, a sequence of sets
    Paths,          \* bound: the paths that are looked up, sequences of names
    UpperCase,      \* str_to_upper, on names
    EdgeSectors,    \* bound: the sectors that are used and given back
    AmigaBlock      \* gBytesPerBlockFFS

ASSUME OpenAssumption ==
    /\ AmigaBlock \in Nat \ {0} /\ EdgeSectors \subseteq Nat \X Nat
    /\ Paths \subseteq Seq(Seq(DOMAIN UpperCase))

\* What can be read from an image: block numbers are below Width, and a byte is one.
ASSUME ImagesAssumption ==
    \A kind \in DOMAIN Images : \A image \in Images[kind] :
        /\ DOMAIN image = {"bytes", "dos", "boot", "table", "entries", "descriptors", "records", "written"}
        /\ image.bytes \in Nat
        /\ DOMAIN image.boot \subseteq 0 .. Width - 1
        /\ \A b \in DOMAIN image.boot : image.boot[b] \in BootRecords
        /\ \A p \in DOMAIN image.table : image.table[p] \in 0 .. 255
        /\ \A p \in DOMAIN image.entries : image.entries[p] \in Entries
        /\ \A s \in DOMAIN image.descriptors : image.descriptors[s] \in Descriptors
        /\ \A p \in DOMAIN image.records : image.records[p] \in DirectoryRecords
        /\ \A lba \in DOMAIN image.written : image.written[lba] \in Seq(DirectoryRecords)

VARIABLE
    tree        \* mNodes of the directories that are loaded, by path of positions

vars == <<source, pc, disk, search, fatVolume, descriptors, isoVolume, tree>>
formats == <<disk, search, fatVolume, descriptors, isoVolume>>

Init ==
    /\ \E kind \in DOMAIN Images : source \in Images[kind]
    /\ pc = "closed"
    /\ disk = NoDisk /\ search = NoSearch /\ fatVolume = NoFatVolume
    /\ descriptors = Unread /\ isoVolume = NoIsoVolume
    /\ tree = <<>>

-----------------------------------------------------------------------------
(* openImage *)

Open ==
    /\ pc = "closed"
    /\ pc' = "d64"
    /\ UNCHANGED <<source, formats, tree>>

LoadCommodore == LoadD64 /\ UNCHANGED <<search, fatVolume, descriptors, isoVolume, tree>>

\* A load may open the image, refuse it or throw; it is one step here.
TryADF ==
    /\ pc = "adf"
    /\ pc' \in IF source.bytes % AmigaBlock = 0 /\ source.dos
               THEN {"openOther", "fatTest"} ELSE {"fatTest"}
    /\ UNCHANGED <<source, formats, tree>>

TestFat ==
    /\ pc = "fatTest"
    /\ pc' = IF IsFat THEN "fat" ELSE "isoTest"
    /\ UNCHANGED <<source, formats, tree>>

LoadFat == FatStep /\ UNCHANGED <<disk, descriptors, isoVolume, tree>>

TestIso ==
    /\ pc = "isoTest"
    /\ pc' = IF IsIso THEN "iso" ELSE "null"
    /\ UNCHANGED <<source, formats, tree>>

LoadIso == IsoStep /\ UNCHANGED <<disk, search, fatVolume, tree>>

\* The client lets go of the image.
Close ==
    /\ pc \in Returned
    /\ pc' = "closed"
    /\ disk' = NoDisk /\ search' = NoSearch /\ fatVolume' = NoFatVolume
    /\ descriptors' = Unread /\ isoVolume' = NoIsoVolume
    /\ tree' = <<>>
    /\ UNCHANGED source

-----------------------------------------------------------------------------
(* Looking into the tree *)

Root == [name |-> <<"/">>, dir |-> TRUE,
         at |-> IF pc = "openFat" THEN <<fatVolume.rootCluster, 0>>
                ELSE <<isoVolume.lba, isoVolume.size>>]
Node(t, id) == IF id = <<>> THEN Root ELSE t[Front(id)][Last(id)]

\* filesystemDirectoryLoad
CanLoadDir(t, id) ==
    LET n == Node(t, id) IN
    IF pc = "openFat" THEN CanLoadEntries(n.at[1], id = <<>>)
    ELSE CanLoadDirectory(n.at[1], n.at[2])
NodesIn(t, id) ==
    LET n == Node(t, id) IN
    IF pc = "openFat" THEN ParseEntries(EntriesIn(n.at[1], id = <<>>))
    ELSE ParseRecords(n.at[1], n.at[2])

\* New nodes take the place of the old ones, and of all that was below them.
DirLoaded(t, id) ==
    [d \in {e \in DOMAIN t : ~IsPrefix(id, e)} \cup {id} |-> IF d = id THEN NodesIn(t, id) ELSE t[d]]

\* (Whenever it is looked into.)
NeedsLoadAlways(t, id) == Node(t, id).dir

\* A directory is loaded when it is first looked into.
NeedsLoad(t, id) == Node(t, id).dir /\ id \notin DOMAIN t

\* getByName: the first node of that name, whatever the case.
SameName(a, b) == [j \in DOMAIN a |-> UpperCase[a[j]]] = [j \in DOMAIN b |-> UpperCase[b[j]]]
GetByName(state, name) ==
    LET id == state.id
        t == IF NeedsLoad(state.tree, id) /\ CanLoadDir(state.tree, id)
             THEN DirLoaded(state.tree, id) ELSE state.tree
        hits == IF Node(state.tree, id).dir /\ id \in DOMAIN t
                THEN {i \in DOMAIN t[id] : SameName(t[id][i].name, name)} ELSE {}
    IN  IF ~state.found \/ hits = {} THEN [tree |-> t, found |-> FALSE, id |-> id]
        ELSE [tree |-> t, found |-> TRUE, id |-> Append(id, Min(hits))]

\* filesystemNode: what is found, if it is a directory, is loaded as well.
Lookup(path) ==
    /\ pc \in {"openFat", "openIso"}
    /\ LET walk[n \in 0 .. Len(path)] ==
                IF n = 0 THEN [tree |-> tree, found |-> TRUE, id |-> <<>>]
                ELSE GetByName(walk[n - 1], path[n])
           s == walk[Len(path)]
       IN  tree' = IF s.found /\ NeedsLoad(s.tree, s.id) /\ CanLoadDir(s.tree, s.id)
                   THEN DirLoaded(s.tree, s.id) ELSE s.tree
    /\ UNCHANGED <<source, pc, formats>>

\* The map of an open Commodore image changes and is saved, as parts of a save of
\* the filesystem; D64 has its other steps.
UseMap ==
    /\ \/ \E ts \in EdgeSectors, used \in BOOLEAN : SectorSet(ts, used)
       \/ SaveMap
    /\ UNCHANGED <<search, fatVolume, descriptors, isoVolume, tree>>

OpenStep == LoadCommodore \/ TryADF \/ TestFat \/ LoadFat \/ TestIso \/ LoadIso
Next == Open \/ OpenStep \/ UseMap \/ Close \/ \E path \in Paths : Lookup(path)

Spec == Init /\ [][Next]_vars

\* The thread that opens an image goes on; nobody has to open or close one.
FairSpec == Spec /\ WF_vars(OpenStep)

-----------------------------------------------------------------------------
(* Properties *)

\* What is open is one volume of one format; only a loaded directory has nodes, and
\* it is one itself.
TypeOK ==
    /\ pc \in Stages \cup Returned \cup {"died"}
    /\ pc # "openD64" => disk = NoDisk
    /\ pc # "openFat" => fatVolume = NoFatVolume
    /\ pc # "openIso" => isoVolume = NoIsoVolume
    /\ pc \notin {"openFat", "openIso"} => tree = <<>>
    /\ descriptors.at \in 0 .. MaxDescriptors
    /\ \A d \in DOMAIN tree : d # <<>> => Front(d) \in DOMAIN tree /\ Node(tree, d).dir

\* The map of an open Commodore image is safe in the source once it is saved: it
\* would be loaded as it is, and the image still opens; and the sectors of the image
\* are where no other one is, and fill it (filesystemBitmapLoad and -Save,
\* sectorOffset).
MapSurvives ==
    pc = "openD64" =>
        /\ SectorsTile(disk.type)
        /\ CanLoadDisk(disk.type)
        /\ disk.saved => MapOnDisk(disk.type) = disk.bam

\* Opening an image returns, though chains of partition tables come round again and
\* descriptors never end.  Or else the process dies: only on an image with a boot record
\* that has root entries, in sectors of no bytes (cFAT::partitionOpen).
OpenReturns ==
    pc = "d64" ~> \/ pc \in Returned
                  \/ /\ pc = "died"
                     /\ \E r \in DOMAIN source.boot : Boot(r).bytes = 0 /\ Boot(r).rootEntries > 0

\* The records on the way from an extended partition: each one's first link counts
\* from the extended partition itself.
LinkOf(base, r) ==
    LET links == {i \in DOMAIN Boot(r).parts :
                    LET p == Boot(r).parts[i] IN
                    p.type = "extended" /\ p.start > 0 /\ (base + p.start) % Width # 0}
    IN  {(base + Boot(r).parts[i].start) % Width : i \in {i \in links : \A j \in links : i <= j}}
Records(base) ==
    LET reached[n \in 0 .. Width] ==
            IF n = 0 THEN {base}
            ELSE LET before == reached[n - 1] IN
                 before \cup UNION {LinkOf(base, r) : r \in {q \in before : HasBlock(q)}}
    IN  {r \in reached[Cardinality(DOMAIN source.boot)] : HasBlock(r)}
Starts(r, wanted(_)) == {p.start : p \in {q \in Range(Boot(r).parts) : q.start > 0 /\ wanted(q)}}

\* The volume that is opened is one that the image names, and one that takes
\* precedence: on a FAT image an active partition, a logical one, another one, the
\* image as a whole (cFAT::filesystemLoad); on a CD the first Joliet volume, or else
\* the last primary one, of the descriptors before the end (readVolumeDescriptors).
OpensNamedVolume ==
    /\ pc = "openFat" =>
        LET active == Starts(0, LAMBDA p : p.type = "fat" /\ p.active)
            primary == Starts(0, LAMBDA p : p.type = "fat")
            logical == UNION {UNION {{(r + s) % Width : s \in Starts(r, LAMBDA p : p.type = "fat")} :
                                r \in Records(base)} : base \in Starts(0, LAMBDA p : p.type = "extended")}
        IN  fatVolume.start \in IF active # {} THEN active
                                ELSE IF logical # {} THEN logical
                                ELSE IF primary # {} THEN primary ELSE {0}
    /\ pc = "openIso" =>
        LET before == {i \in 0 .. MaxDescriptors - 1 : \A j \in 0 .. i :
                            /\ HasSector(FirstDescriptor + j)
                            /\ Descriptor(j).magic /\ Descriptor(j).type # "terminator"}
            joliet == {i \in before : Descriptor(i).type = "supplementary" /\ Descriptor(i).joliet}
            primary == {i \in before : Descriptor(i).type = "primary"}
        IN  /\ primary # {}
            /\ isoVolume.lba = Descriptor(IF joliet # {} THEN Min(joliet) ELSE Max(primary)).lba

\* Bit n of the source's tables, and a number that is made of the bits from bit n on.
Bit(n) == (Byte(n \div 8) \div 2 ^ (n % 8)) % 2
IsNumber(x, n, bits) ==
    x \in Nat /\ x < 2 ^ bits /\ \A k \in 0 .. bits - 1 : (x \div 2 ^ k) % 2 = Bit(n + k)

\* The table of an open volume is the one on the disk, bit for bit, with an entry
\* for each of its clusters, and no cluster reaches past the end of the partition
\* (filesystemBitmapLoad, partitionOpen).
TableIsRead ==
    pc = "openFat" =>
        LET v == fatVolume
            first == 8 * (v.start + v.boot.reserved) * v.boot.bytes
            width == IF v.type = "FAT12" THEN 12 ELSE IF v.type = "FAT16" THEN 16 ELSE 32
        IN  /\ DOMAIN v.map = 0 .. v.clusters + 1
            /\ \A c \in DOMAIN v.map :
                  IsNumber(v.map[c], first + c * width, IF width = 32 THEN 28 ELSE width)
            /\ ClusterToBlock(v, v.clusters + 2) <= v.start + v.boot.total

\* Every directory that was looked into shows what is on the disk, all of it and in
\* its order, whichever was loaded first: on a FAT volume when long names stand
\* where they should, on an ISO volume when the directory was written by the rules.
\* Whatever else an ISO directory holds, its nodes are on the volume.
TreeMatchesDisk ==
    \A id \in DOMAIN tree :
        LET n == Node(tree, id) IN
        /\ pc = "openFat" =>
              LET entries == BeforeEnd(EntriesIn(n.at[1], id = <<>>))
              IN  IsSound(entries) => tree[id] = EntriesOnDisk(entries)
        /\ pc = "openIso" =>
              /\ n.at[1] \in DOMAIN source.written =>
                    LET records == source.written[n.at[1]]
                    IN  IsWritten(n.at[1], n.at[2], records) => tree[id] = NodesOfWritten(records)
              /\ \A i \in DOMAIN tree[id] : IsPresent(tree[id][i].at[1], tree[id][i].at[2])

\* A lookup never takes away nodes that were handed out before.
KeepsNodes ==
    [][\A path \in Paths : Lookup(path) =>
            \A id \in DOMAIN tree : id \in DOMAIN tree' /\ tree'[id] = tree[id]]_vars
=============================================================================
