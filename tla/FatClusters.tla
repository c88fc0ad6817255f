---------------------------- MODULE FatClusters ----------------------------
(***************************************************************************)
(* The clusters of a FAT image: cFAT (src/source/images/fat.cpp) after its *)
(* table was loaded.  The table may hold anything: chains that end, run    *)
(* in circles or leave the disk.                                           *)
(*                                                                         *)
(* A read first counts the clusters of a chain (directorySectors) and then *)
(* copies as many.  Blocks are taken and given back by the client.         *)
(* A content is the sequence of the clusters it was read from.             *)
(***************************************************************************)
EXTENDS Integers, Sequences, FiniteSets, SequencesExt

CONSTANTS
    ClustersTotal,  \* mClustersTotal
    EndFrom, EndTo, \* the values that end a chain, by type of table
    DataStart,      \* mBlockData
    PerCluster,     \* mSectorsPerCluster
    Values,         \* bound: the values a loaded table holds
    Starts,         \* bound: the first clusters of files
    MaxBlocks       \* bound: blocks given back in one call

\* filesystemBitmapLoad cuts the table to the clusters of the disk; the first two
\* entries are never looked at.
DataClusters == 2 .. ClustersTotal + 1

ASSUME SizesAssumption ==
    /\ ClustersTotal \in Nat \ {0} /\ DataStart \in Nat /\ PerCluster \in Nat \ {0}
    /\ EndFrom \in Nat \ {0} /\ EndTo \in Nat /\ EndFrom <= EndTo
ASSUME ValuesAssumption == Values \subseteq Nat /\ {0, EndTo} \subseteq Values
ASSUME StartsAssumption == Starts \subseteq Nat

VARIABLES
    map,    \* mClusterMap
    pc,
    start,  \* pCluster of clusterChainRead
    at,     \* pStart, then pCluster
    steps,  \* traversed
    left,   \* totalClusters, then remainbytes, in clusters
    got     \* the buffer: the clusters read

walk == <<start, at, steps, left, got>>
vars == <<map, pc, start, at, steps, left, got>>

-----------------------------------------------------------------------------
(* Clusters and blocks *)

IsEnd(value) == value = 0 \/ value \in EndFrom .. EndTo

\* fatSectorNext
SectorNext(c) == IF c \in DataClusters /\ ~IsEnd(map[c]) /\ map[c] # c THEN map[c] ELSE 0

ClusterToBlock(c) == IF c < 2 THEN DataStart ELSE DataStart + (c - 2) * PerCluster
BlockToCluster(b) == ((b - DataStart) \div PerCluster) + 2

\* A block that blockSet accepts.
IsData(b) == b >= DataStart /\ BlockToCluster(b) \in DataClusters
BlockIsFree(b) == IsData(b) /\ map[BlockToCluster(b)] = 0

Init ==
    /\ map \in [DataClusters -> Values]
    /\ pc = "idle"
    /\ start = 0 /\ at = 0 /\ steps = 0 /\ left = 0 /\ got = <<>>

-----------------------------------------------------------------------------
(* clusterChainRead *)

Read ==
    /\ pc = "idle"
    /\ start' \in Starts
    /\ at' = start' /\ steps' = 0 /\ left' = 1 /\ got' = <<>>
    /\ pc' = "count"
    /\ UNCHANGED map

\* (The steps are not limited.)
CountsOnUnlimited == at \in DataClusters

\* directorySectors goes on.
CountsOn == at \in DataClusters /\ steps < ClustersTotal

\* (The end counts as a cluster.)
CountedWithEnd == left + 1

Counted == IF SectorNext(at) = 0 THEN left ELSE left + 1

Count ==
    /\ pc = "count" /\ CountsOn
    /\ at' = SectorNext(at)
    /\ steps' = steps + 1
    /\ left' = Counted
    /\ UNCHANGED <<map, pc, start, got>>

Counting ==
    /\ pc = "count" /\ ~CountsOn
    /\ pc' = "read"
    /\ at' = start
    /\ UNCHANGED <<map, start, steps, left, got>>

\* (The last cluster is left out.)
AfterClusterShort == IF SectorNext(at) = 0 \/ left = 2 THEN 0 ELSE left - 1

\* A chain that ends too early cuts the rest.
AfterCluster == IF SectorNext(at) = 0 THEN 0 ELSE left - 1

ReadCluster ==
    /\ pc = "read" /\ left > 0
    /\ got' = Append(got, at)
    /\ at' = SectorNext(at)
    /\ left' = AfterCluster
    /\ UNCHANGED <<map, pc, start, steps>>

\* A block that the source does not have: the read fails.
ReadFails ==
    /\ pc = "read" /\ left > 0
    /\ at > ClustersTotal + 1
    /\ pc' = "failed"
    /\ UNCHANGED <<map, walk>>

ReadDone ==
    /\ pc = "read" /\ left = 0
    /\ pc' = "done"
    /\ UNCHANGED <<map, walk>>

Return ==
    /\ pc \in {"done", "failed"}
    /\ pc' = "idle"
    /\ start' = 0 /\ at' = 0 /\ steps' = 0 /\ left' = 0 /\ got' = <<>>
    /\ UNCHANGED map

-----------------------------------------------------------------------------
(* blockUse and blocksFree *)

FreeClusters == {c \in DataClusters : BlockIsFree(ClusterToBlock(c))}

\* (As many as there are.)
TakenPartly(n) == {ClusterToBlock(c) : c \in {d \in FreeClusters : Cardinality({e \in FreeClusters : e < d}) < n}}

\* The first blocks of the first n free clusters, or none when there are fewer.
Taken(n) ==
    IF n > Cardinality(FreeClusters) THEN {}
    ELSE {ClusterToBlock(c) : c \in {d \in FreeClusters : Cardinality({e \in FreeClusters : e < d}) < n}}

\* blockSet of each block that was taken.
UseBlocks(n) ==
    /\ pc = "idle"
    /\ map' = [c \in DataClusters |->
                IF \E b \in Taken(n) : BlockToCluster(b) = c THEN EndTo ELSE map[c]]
    /\ UNCHANGED <<pc, walk>>

Use == \E n \in 1 .. ClustersTotal + 1 : UseBlocks(n)

\* The blocks up to the first that is refused are given back.
Free ==
    /\ pc = "idle"
    /\ \E blocks \in BoundedSeq(0 .. DataStart + PerCluster * (ClustersTotal + 1), MaxBlocks) :
          LET accepted == {j \in 1 .. Len(blocks) : \A i \in 1 .. j : IsData(blocks[i])} IN
          map' = [c \in DataClusters |->
                    IF \E j \in accepted : BlockToCluster(blocks[j]) = c THEN 0 ELSE map[c]]
    /\ UNCHANGED <<pc, walk>>

WalkStep == Count \/ Counting \/ ReadCluster \/ ReadFails \/ ReadDone \/ Return
Next == Read \/ WalkStep \/ Use \/ Free

Spec == Init /\ [][Next]_vars

-----------------------------------------------------------------------------
(* Properties *)

\* A read, even of a chain that leaves the disk or runs in circles, copies one
\* cluster more than the disk has at most.
TypeOK ==
    /\ map \in [DataClusters -> Values]
    /\ pc \in {"idle", "count", "read", "done", "failed"}
    /\ steps \in 0 .. ClustersTotal
    /\ left \in 0 .. ClustersTotal + 1
    /\ Len(got) + left <= ClustersTotal + 1
    /\ Range(got) \subseteq Starts \cup Values

\* A chain of clusters of the disk, from a start to a value that ends it, and not
\* before.  (The largest disks of each type of table have clusters whose numbers are
\* among the values that end a chain, from 0xFF0 on where there are 4079 to 4084: what
\* links to one of them is no chain here, and ends there in the code.)
IsChain(s, c) ==
    /\ s # <<>> /\ s[1] = c
    /\ \A i \in 1 .. Len(s) - 1 : map[s[i]] = s[i + 1] /\ ~IsEnd(s[i + 1])
    /\ IsEnd(map[Last(s)])
Chains == UNION {{s \in [1 .. n -> DataClusters] : IsInjective(s)} : n \in 1 .. ClustersTotal}

\* What is read from the start of a chain is the chain, each cluster once:
\* the number counted beforehand neither cuts it nor runs over its end.
ReadWhole == pc = "done" => \A s \in Chains : IsChain(s, start) => got = s

\* The two walks of a read agree: the second one never meets an end before it has
\* as many clusters as the first one counted ("Cluster end reached, but
\* remainbytes > 0", fat.cpp:424).
CountsAgree == [][ReadCluster /\ SectorNext(at) = 0 => left = 1]_vars

\* Whatever the table holds, a read ends: it is at most this many steps from it.
StepsLeft ==
    IF pc = "count" THEN 2 * ClustersTotal + 5 - steps
    ELSE IF pc = "read" THEN left + 2
    ELSE IF pc = "idle" THEN 0 ELSE 1
ReadEnds == [][WalkStep => StepsLeft' \in Nat /\ StepsLeft' < StepsLeft]_vars

\* A use takes as many clusters as asked for, all of them free before, and no
\* other; when there are not as many it changes nothing.
Zeros == {c \in DataClusters : map[c] = 0}
UseTakesFree ==
    [][\A n \in 1 .. ClustersTotal + 1 : UseBlocks(n) =>
            IF n > Cardinality(Zeros) THEN map' = map
            ELSE /\ Zeros' \subseteq Zeros /\ Cardinality(Zeros \ Zeros') = n
                 /\ \A c \in DataClusters : map'[c] # map[c] => c \in Zeros /\ IsEnd(map'[c])]_vars
=============================================================================
