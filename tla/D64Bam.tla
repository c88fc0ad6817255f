------------------------------- MODULE D64Bam -------------------------------
(***************************************************************************)
(* Geometry of a D64, D71 or D81 disk and its block availability map       *)
(* (src/source/images/d64.cpp).  A sector is a pair <<track, sector>>.     *)
(* The map keeps for each track a word with one bit per sector, set when   *)
(* the sector is free, and next to it the number of free sectors, counted  *)
(* up and down on its own in a byte: [free |-> sectors, count |-> bytes].  *)
(***************************************************************************)
EXTENDS Naturals, FiniteSets, Sequences

CONSTANTS
    TrackCount,     \* mTrackCount
    SectorCount,    \* sectorCount(track), for each track
    DirStart,       \* <<mDirectoryTrack, mDirectorySector>>
    BamSectors,     \* mBAMSectors
    HeaderSector    \* the sector that holds the disk's name and identity

Tracks == 1 .. TrackCount
Sectors == UNION {{<<t, s>> : s \in 0 .. SectorCount[t] - 1} : t \in Tracks}

\* A track has at most 40 sectors, which fit a 64-bit word and a byte.
ASSUME GeometryAssumption ==
    /\ TrackCount \in Nat \ {0}
    /\ SectorCount \in [Tracks -> 1 .. 40]
    /\ DirStart \in Sectors
    /\ BamSectors \subseteq Sectors
    /\ HeaderSector \in Sectors

OnTrack(S, t) == {s \in S : s[1] = t}
Before(r, s) == r[1] < s[1] \/ (r[1] = s[1] /\ r[2] < s[2])

\* (The count goes up for a sector that is free already, too.)
FreeSectorsAgain(bam, S) ==
    [free |-> bam.free \cup (S \cap Sectors),
     count |-> [t \in Tracks |->
        (bam.count[t] + Cardinality(OnTrack(S \cap Sectors, t))) % 256]]

\* sectorSet(ts, false) for each ts of S; a sector that is free already, or that
\* the disk does not have, does not count.
FreeSectors(bam, S) ==
    [free |-> bam.free \cup (S \cap Sectors),
     count |-> [t \in Tracks |->
        (bam.count[t] + Cardinality(OnTrack((S \cap Sectors) \ bam.free, t))) % 256]]

\* sectorSet(ts, true) for each ts of S.
UseSectors(bam, S) ==
    [free |-> bam.free \ S,
     count |-> [t \in Tracks |->
        (bam.count[t] + 256 - Cardinality(OnTrack(S \cap bam.free, t))) % 256]]

\* The map of a new filesystem: all free, then the directory and the map in use.
NewBam ==
    UseSectors(FreeSectors([free |-> {}, count |-> [t \in Tracks |-> 0]], Sectors),
               {DirStart} \cup BamSectors)

\* The sector of the map that has j free sectors before it, track by track.
FreeAt(bam, j) == CHOOSE s \in bam.free : Cardinality({r \in bam.free : Before(r, s)}) = j

\* (A sector is not marked before the next one is looked for.)
FirstFreeUnmarked(bam, n) ==
    IF n > Cardinality(bam.free) THEN <<>> ELSE [j \in 1 .. n |-> FreeAt(bam, 0)]

\* The n sectors that sectorsUse(n) marks, in its order; none when the disk has
\* fewer, those it had marked then being freed again.
FirstFree(bam, n) ==
    IF n > Cardinality(bam.free) THEN <<>> ELSE [j \in 1 .. n |-> FreeAt(bam, j - 1)]

-----------------------------------------------------------------------------
BamType == [free : SUBSET Sectors, count : [Tracks -> 0 .. 255]]

\* The byte says how many bits are set.
Agrees(bam) == \A t \in Tracks : bam.count[t] = Cardinality(OnTrack(bam.free, t))
=============================================================================
