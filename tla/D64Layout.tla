----------------------------- MODULE D64Layout -----------------------------
(***************************************************************************)
(* Where the sectors and the availability map of a D64, D71 or D81 image   *)
(* are, byte by byte: cD64 (src/source/images/d64.cpp) over the tracks of  *)
(* access/tracks.cpp.  D64 has the files, over a map whose bytes do not    *)
(* matter there.                                                           *)
(***************************************************************************)
EXTENDS ImageSource

VARIABLE
    disk    \* type, bam, and whether the bytes of the map in the source are its bytes

NoDisk == [type |-> "unknown", bam |-> <<>>, saved |-> TRUE]
D64Sector == 256

-----------------------------------------------------------------------------
(* Geometry *)

Capacity == [D64 |-> 683 * 256, D71 |-> 1366 * 256, D81 |-> 80 * 40 * 256]
TracksOf == [D64 |-> 35, D71 |-> 70, D81 |-> 80]

\* imageTypeDetect
TypesOf(bytes) == {type \in DOMAIN Capacity : Capacity[type] = bytes}

\* sectorsPerTrack, of a track the disk has.
SectorsOf(type, t) ==
    IF type = "D81" THEN 40
    ELSE LET track == IF type = "D71" /\ t > 35 THEN t - 35 ELSE t
             above(n) == IF track > n THEN 1 ELSE 0
         IN  21 - 2 * above(17) - above(24) - above(30)

IsSector(type, ts) == ts[1] \in 1 .. TracksOf[type] /\ ts[2] \in 0 .. SectorsOf(type, ts[1]) - 1

TrackOffset(type, t) ==
    LET before[u \in 1 .. t] ==
            IF u = 1 THEN 0 ELSE before[u - 1] + SectorsOf(type, u - 1) * D64Sector
    IN  before[t]
SectorOffset(type, ts) == TrackOffset(type, ts[1]) + ts[2] * D64Sector

-----------------------------------------------------------------------------
(* The map: tracks from .. to in a sector, each in so many bytes from at on *)

\* loadBamBlock's arguments in filesystemBitmapLoad ...
LoadedParts ==
    [D64 |-> {[ts |-> <<18, 0>>, from |-> 1, to |-> 35, width |-> 4, at |-> 4]},
     D71 |-> {[ts |-> <<18, 0>>, from |-> 1, to |-> 35, width |-> 4, at |-> 4],
              [ts |-> <<53, 0>>, from |-> 36, to |-> 70, width |-> 4, at |-> 4]},
     D81 |-> {[ts |-> <<40, 1>>, from |-> 1, to |-> 40, width |-> 6, at |-> 16],
              [ts |-> <<40, 2>>, from |-> 41, to |-> 80, width |-> 6, at |-> 16]}]

\* (The second sector counts on where the first has ended.)
SavedPartsShifted ==
    [D64 |-> {[ts |-> <<18, 0>>, from |-> 1, to |-> 35, width |-> 4, at |-> 4]},
     D71 |-> {[ts |-> <<18, 0>>, from |-> 1, to |-> 35, width |-> 4, at |-> 4],
              [ts |-> <<53, 0>>, from |-> 35, to |-> 69, width |-> 4, at |-> 4]},
     D81 |-> {[ts |-> <<40, 1>>, from |-> 1, to |-> 40, width |-> 6, at |-> 16],
              [ts |-> <<40, 2>>, from |-> 41, to |-> 80, width |-> 6, at |-> 16]}]

\* ... and saveBamBlock's in filesystemBitmapSave.
SavedParts ==
    [D64 |-> {[ts |-> <<18, 0>>, from |-> 1, to |-> 35, width |-> 4, at |-> 4]},
     D71 |-> {[ts |-> <<18, 0>>, from |-> 1, to |-> 35, width |-> 4, at |-> 4],
              [ts |-> <<53, 0>>, from |-> 36, to |-> 70, width |-> 4, at |-> 4]},
     D81 |-> {[ts |-> <<40, 1>>, from |-> 1, to |-> 40, width |-> 6, at |-> 16],
              [ts |-> <<40, 2>>, from |-> 41, to |-> 80, width |-> 6, at |-> 16]}]

\* A part does not end past its sector.
PartFits(part) == part.at + (part.to - part.from + 1) * part.width <= D64Sector

PlaceOf(type, part, t) == SectorOffset(type, part.ts) + part.at + (t - part.from) * part.width
PartOf(parts, t) == CHOOSE part \in parts : t \in part.from .. part.to

BitsOf(byte) == {n \in 0 .. 7 : (byte \div 2 ^ n) % 2 = 1}
ByteOf(bits) ==
    LET bit(n) == IF n \in bits THEN 2 ^ n ELSE 0
    IN  bit(0) + bit(1) + bit(2) + bit(3) + bit(4) + bit(5) + bit(6) + bit(7)

\* mBam: for each track mFreeSectors, and the bits of mSectors that are set.
MapOnDisk(type) ==
    [t \in 1 .. TracksOf[type] |->
        LET part == PartOf(LoadedParts[type], t)
            p == PlaceOf(type, part, t)
        IN  [count |-> Byte(p),
             free |-> UNION {{8 * b + n : n \in BitsOf(Byte(p + 1 + b))} : b \in 0 .. part.width - 2}]]

\* The bytes a map is saved as, by place.
PlacesOf(type, part) ==
    LET first == PlaceOf(type, part, part.from)
    IN  first .. first + (part.to - part.from + 1) * part.width - 1
BytesOf(type, bam) ==
    [p \in UNION {PlacesOf(type, part) : part \in SavedParts[type]} |->
        LET part == CHOOSE x \in SavedParts[type] : p \in PlacesOf(type, x)
            n == p - PlaceOf(type, part, part.from)
            track == bam[part.from + n \div part.width]
            b == (n % part.width) - 1
        IN  IF b < 0 THEN track.count ELSE ByteOf({m \in 0 .. 7 : 8 * b + m \in track.free})]

-----------------------------------------------------------------------------
(* Load, change and save *)

\* mDosType: "2A" or "2P", on a D81 "3D".
DosTypeIsKnown(type) ==
    LET p == IF type = "D81" THEN SectorOffset(type, <<40, 0>>) + 25
             ELSE SectorOffset(type, <<18, 0>>) + 165
    IN  <<Byte(p), Byte(p + 1)>> \in IF type = "D81" THEN {<<51, 68>>} ELSE {<<50, 65>>, <<50, 80>>}

CanLoadDisk(type) ==
    (\A part \in LoadedParts[type] : PartFits(part)) /\ DosTypeIsKnown(type)

\* imageTest, the constructor and filesystemLoad; the files are in D64.
LoadD64 ==
    /\ pc = "d64"
    /\ \/ \E type \in TypesOf(source.bytes) :
            /\ CanLoadDisk(type)
            /\ disk' = [type |-> type, bam |-> MapOnDisk(type), saved |-> TRUE]
            /\ pc' = "openD64"
       \/ /\ \A type \in TypesOf(source.bytes) : ~CanLoadDisk(type)
          /\ pc' = "adf" /\ UNCHANGED disk
    /\ UNCHANGED source

\* sectorSet: a sector is used or given back; the count follows its bit.
SectorSet(ts, used) ==
    /\ pc = "openD64"
    /\ IsSector(disk.type, ts)
    /\ LET track == disk.bam[ts[1]]
           was == ts[2] \in track.free
       IN  disk' = [disk EXCEPT !.saved = FALSE, !.bam[ts[1]] =
                IF used THEN [free |-> track.free \ {ts[2]},
                              count |-> IF was THEN (track.count + 255) % 256 ELSE track.count]
                ELSE [free |-> track.free \cup {ts[2]},
                      count |-> IF was THEN track.count ELSE (track.count + 1) % 256]]
    /\ UNCHANGED <<source, pc>>

\* The bytes of the source with others written over them.
Rewritten(table, bytes) ==
    [p \in DOMAIN table \cup DOMAIN bytes |-> IF p \in DOMAIN bytes THEN bytes[p] ELSE table[p]]

\* filesystemBitmapSave: the header is written as it was read.
SaveMap ==
    /\ pc = "openD64" /\ ~disk.saved
    /\ \A part \in SavedParts[disk.type] : PartFits(part)
    /\ source' = [source EXCEPT !.table = Rewritten(@, BytesOf(disk.type, disk.bam))]
    /\ disk' = [disk EXCEPT !.saved = TRUE]
    /\ UNCHANGED pc

-----------------------------------------------------------------------------
(* Properties *)

\* The sectors of all tracks fill an image of each type, each byte once.
SectorsTile(type) ==
    LET offsets(t) == LET first == TrackOffset(type, t)
                      IN  {first + s * D64Sector : s \in 0 .. SectorsOf(type, t) - 1}
        all == UNION {offsets(t) : t \in 1 .. TracksOf[type]}
    IN  /\ all = {k * D64Sector : k \in 0 .. Capacity[type] \div D64Sector - 1}
        /\ TrackOffset(type, TracksOf[type] + 1) = Capacity[type]
=============================================================================
