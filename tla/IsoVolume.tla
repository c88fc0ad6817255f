----------------------------- MODULE IsoVolume -----------------------------
(***************************************************************************)
(* An ISO 9660 volume, read only: cISO9660 (src/source/images/iso9660.cpp) *)
(* from the volume descriptors to the nodes of a directory.                *)
(*                                                                         *)
(* source.descriptors holds what reads as a descriptor, by sector, and     *)
(* source.records what reads as a directory record, by byte; anywhere else *)
(* there are zeros.  Nothing of it can be trusted; source.written holds    *)
(* the records of the directories that a mastering program wrote.  Names   *)
(* are decoded: what is left of them without version and dots.             *)
(***************************************************************************)
EXTENDS ImageSource

CONSTANTS
    SectorBytes,        \* kSectorSize
    RecordBytes,        \* sizeof(sDirectoryRecord): a record without its name
    FirstDescriptor,    \* kVolumeDescriptorStartSector
    MaxDescriptors,     \* kMaxDescriptors
    MaxDirectory,       \* kMaxISO9660DirectoryExtentBytes
    MaxFile             \* kMaxISO9660FileExtentBytes

ASSUME IsoAssumption ==
    /\ {SectorBytes, RecordBytes, FirstDescriptor, MaxDescriptors, MaxDirectory, MaxFile}
            \subseteq Nat \ {0}
    /\ RecordBytes <= SectorBytes

VARIABLES
    descriptors,    \* readVolumeDescriptors: i, pvd and svd
    isoVolume   \* mRootExtentLBA, mRootExtentSize, mVolumeSpaceBytes

-----------------------------------------------------------------------------
(* Volume descriptors *)

Types == {"boot", "primary", "supplementary", "partition", "terminator"}
Descriptors == [magic : BOOLEAN, type : Types \cup {"other"}, joliet : BOOLEAN,
                space : Nat, lba : Nat, size : Nat]
NoDescriptor == [magic |-> FALSE, type |-> "boot", joliet |-> FALSE,
                 space |-> 0, lba |-> 0, size |-> 0]
HasSector(s) == (s + 1) * SectorBytes <= source.bytes
Descriptor(i) ==
    LET s == FirstDescriptor + i
    IN  IF s \in DOMAIN source.descriptors THEN source.descriptors[s] ELSE NoDescriptor

\* imageTest
IsIso ==
    /\ HasSector(FirstDescriptor)
    /\ Descriptor(0).type \in Types
    /\ Descriptor(0).magic

Unread == [at |-> 0, pvd |-> NoDescriptor, svd |-> NoDescriptor]
NoIsoVolume == [lba |-> 0, size |-> 0, space |-> 0]

\* (Without the limit.)
ScansOnForever ==
    /\ Descriptor(descriptors.at).magic
    /\ Descriptor(descriptors.at).type # "terminator"

\* The loop over descriptors goes on.
ScansOn ==
    /\ descriptors.at < MaxDescriptors
    /\ HasSector(FirstDescriptor + descriptors.at)
    /\ Descriptor(descriptors.at).magic
    /\ Descriptor(descriptors.at).type # "terminator"

\* The first Joliet descriptor is kept.
KeepsSvd(d) == d.type = "supplementary" /\ d.joliet /\ descriptors.svd = NoDescriptor

ReadDescriptor ==
    /\ pc = "iso" /\ ScansOn
    /\ LET d == Descriptor(descriptors.at)
       IN  descriptors' = [at |-> descriptors.at + 1,
                           pvd |-> IF d.type = "primary" THEN d ELSE descriptors.pvd,
                           svd |-> IF KeepsSvd(d) THEN d ELSE descriptors.svd]
    /\ UNCHANGED <<source, pc, isoVolume>>

\* extentIsReadable, in a volume of so many bytes.
ExtentIsReadable(lba, size, most, space) ==
    \/ size = 0
    \/ /\ lba > 0 /\ size <= most
       /\ lba * SectorBytes + size <= source.bytes
       /\ lba * SectorBytes + size <= space

\* Its bytes, if it has any, exist on the volume and in the source.
IsPresent(lba, size) ==
    size = 0 \/ (lba * SectorBytes + size <= source.bytes /\ lba * SectorBytes + size <= isoVolume.space)

\* The rest of readVolumeDescriptors and of filesystemLoad.
LoadVolume ==
    /\ pc = "iso" /\ ~ScansOn
    /\ LET chosen == IF descriptors.svd # NoDescriptor THEN descriptors.svd ELSE descriptors.pvd
           space == chosen.space * SectorBytes
       IN  IF /\ descriptors.pvd # NoDescriptor
              /\ ExtentIsReadable(chosen.lba, chosen.size, MaxDirectory, space)
              /\ chosen.size > 0
           THEN /\ pc' = "openIso"
                /\ isoVolume' = [lba |-> chosen.lba, size |-> chosen.size, space |-> space]
           ELSE pc' = "null" /\ UNCHANGED isoVolume
    /\ descriptors' = Unread
    /\ UNCHANGED source

IsoStep == ReadDescriptor \/ LoadVolume

-----------------------------------------------------------------------------
(* Directories *)

DirectoryRecords ==
    [len : Nat, idLen : Nat, kind : {"file", "section", "dir", "dots", "associated"},
     name : STRING, lba : Nat, size : Nat]
Padding == [len |-> 0, idLen |-> 0, kind |-> "file", name |-> "", lba |-> 0, size |-> 0]
RecordAt(p) == IF p \in DOMAIN source.records THEN source.records[p] ELSE Padding
SectorEnd(p, size) ==
    LET next == (p \div SectorBytes + 1) * SectorBytes IN IF next < size THEN next ELSE size

\* A record at byte p of the extent that lies within its sector.
Fits(lba, size, p) ==
    LET r == RecordAt(lba * SectorBytes + p) IN
    /\ p + RecordBytes <= SectorEnd(p, size)
    /\ r.len > 0
    /\ p + r.len <= SectorEnd(p, size)

\* A record gets a node: not "." or "..", no associated file, a name, readable.
IsListed(r) ==
    /\ r.len >= RecordBytes + r.idLen
    /\ r.kind \in {"file", "section", "dir"}
    /\ r.name # ""
    /\ ExtentIsReadable(r.lba, r.size, IF r.kind = "dir" THEN MaxDirectory ELSE MaxFile,
                        isoVolume.space)

NodeOf(r) == [name |-> <<r.name>>, dir |-> r.kind = "dir", at |-> <<r.lba, r.size>>]

\* A round of the loops over sectors and records: past a record, or to the next sector.
RecordLoad(lba, size, s) ==
    LET r == RecordAt(lba * SectorBytes + s.at) IN
    IF s.at >= size THEN s
    ELSE IF ~Fits(lba, size, s.at) THEN [s EXCEPT !.at = (@ \div SectorBytes + 1) * SectorBytes]
    ELSE [at |-> s.at + r.len, nodes |-> IF IsListed(r) THEN Append(s.nodes, NodeOf(r)) ELSE s.nodes]

\* parseDirectoryExtent: each round gets further, so that there are no more than bytes.
ParseRecords(lba, size) ==
    LET loaded[n \in 0 .. size] ==
            IF n = 0 THEN [at |-> 0, nodes |-> <<>>] ELSE RecordLoad(lba, size, loaded[n - 1])
    IN  loaded[size].nodes

\* filesystemDirectoryLoad loads the directory.
CanLoadDirectory(lba, size) ==
    lba > 0 /\ size > 0 /\ ExtentIsReadable(lba, size, MaxDirectory, isoVolume.space)

-----------------------------------------------------------------------------
(* What a directory holds, apart from how it is walked *)

\* Records stand one after the other; one that would cross a sector starts the next.
StartAfter(p, r) ==
    LET next == (p \div SectorBytes + 1) * SectorBytes IN IF p + r.len > next THEN next ELSE p
EndOf(records) ==
    LET end[k \in 0 .. Len(records)] ==
            IF k = 0 THEN 0 ELSE StartAfter(end[k - 1], records[k]) + records[k].len
    IN  end

\* A record as a mastering program makes it; one of a file in several sections, of
\* which code and comment say different things (iso9660.cpp:333-337), is left out.
IsMade(r) ==
    /\ r.kind # "section"
    /\ r.len \in RecordBytes + r.idLen .. SectorBytes
    /\ r.kind \in {"file", "dir"} => r.name # ""
    /\ r.size > 0 => r.lba > 0

\* The extent holds these records by the rules, and nothing else.
IsWritten(lba, size, records) ==
    LET start == [k \in DOMAIN records |-> StartAfter(EndOf(records)[k - 1], records[k])]
    IN  /\ EndOf(records)[Len(records)] <= size
        /\ \A k \in DOMAIN records :
              IsMade(records[k]) /\ RecordAt(lba * SectorBytes + start[k]) = records[k]
        /\ \A p \in 0 .. size - 1 : p \in Range(start) \/ RecordAt(lba * SectorBytes + p).len = 0

\* The nodes for records that were written one after the other: those of files and
\* directories that are there and not too large, in their order.
NodesOfWritten(records) ==
    LET there(r) == /\ r.kind \in {"file", "dir"} /\ IsPresent(r.lba, r.size)
                    /\ r.size <= IF r.kind = "dir" THEN MaxDirectory ELSE MaxFile
        order == InOrder({k \in DOMAIN records : there(records[k])})
    IN  [j \in DOMAIN order |-> NodeOf(records[order[j]])]

=============================================================================
