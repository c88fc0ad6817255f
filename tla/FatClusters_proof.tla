------------------------- MODULE FatClusters_proof -------------------------
(***************************************************************************)
(* A read of a FAT image ends, whatever its table holds and however many   *)
(* clusters it has (clusterChainRead and directorySectors, fat.cpp).       *)
(***************************************************************************)
EXTENDS FatClusters, SequenceTheorems, FiniteSetTheorems, TLAPS

\* What is counted never exceeds the steps by more than the first cluster, and
\* what is still to be copied is never more than was counted.
WalkInv ==
    /\ pc = "count" => left <= steps + 1 /\ got = <<>>
    /\ pc # "idle" => start \in Starts /\ at \in Starts \cup Values
    /\ got \in Seq(Starts \cup Values)

LEMMA NextInValues == TypeOK => \A c : SectorNext(c) \in Starts \cup Values
<1> SUFFICES ASSUME TypeOK, NEW c PROVE SectorNext(c) \in Starts \cup Values
    OBVIOUS
<1>1. 0 \in Values
    BY ValuesAssumption
<1>2. c \in DataClusters => map[c] \in Values
    BY DEF TypeOK
<1> QED
    BY <1>1, <1>2 DEF SectorNext

LEMMA AppendRange ==
    ASSUME NEW S, NEW s \in Seq(S), NEW x \in S
    PROVE  /\ Append(s, x) \in Seq(S)
           /\ Len(Append(s, x)) = Len(s) + 1
           /\ Range(Append(s, x)) \subseteq S
<1>1. Append(s, x) \in Seq(S) /\ Len(Append(s, x)) = Len(s) + 1
    OBVIOUS
<1>2. \A t \in Seq(S) : Range(t) \subseteq S
    BY DEF Range
<1> QED
    BY <1>1, <1>2

LEMMA WalkInit == Init => TypeOK /\ WalkInv
<1> SUFFICES ASSUME Init PROVE TypeOK /\ WalkInv
    OBVIOUS
<1>1. Range(<<>>) \subseteq Starts \cup Values
    BY DEF Range
<1> QED
    BY <1>1, SizesAssumption DEF Init, TypeOK, WalkInv

LEMMA WalkInvStep == TypeOK /\ WalkInv /\ [Next]_vars => TypeOK' /\ WalkInv'
<1> SUFFICES ASSUME TypeOK, WalkInv, [Next]_vars PROVE TypeOK' /\ WalkInv'
    OBVIOUS
<1> USE DEF TypeOK, WalkInv
<1>0. ClustersTotal \in Nat /\ \A c : SectorNext(c) \in Starts \cup Values
    BY SizesAssumption, NextInValues
<1>1. CASE Read
    <2>1. Range(<<>>) \subseteq Starts \cup Values
        BY DEF Range
    <2> QED
        BY <1>0, <1>1, <2>1 DEF Read
<1>2. CASE Count
    BY <1>0, <1>2 DEF Count, CountsOn, Counted
<1>3. CASE Counting
    BY <1>0, <1>3 DEF Counting
<1>4. CASE ReadCluster
    <2>1. got' \in Seq(Starts \cup Values) /\ Len(got') = Len(got) + 1
            /\ Range(got') \subseteq Starts \cup Values
        BY <1>4, AppendRange DEF ReadCluster
    <2>2. left' \in Nat /\ left' < left
        BY <1>4 DEF ReadCluster, AfterCluster
    <2>3. Len(got) \in Nat
        OBVIOUS
    <2> QED
        BY <1>0, <1>4, <2>1, <2>2, <2>3 DEF ReadCluster
<1>5. CASE ReadFails \/ ReadDone
    BY <1>5 DEF ReadFails, ReadDone, walk
<1>6. CASE Return
    <2>1. Range(<<>>) \subseteq Starts \cup Values
        BY DEF Range
    <2> QED
        BY <1>0, <1>6, <2>1 DEF Return
<1>7. CASE Use
    BY <1>7, ValuesAssumption DEF Use, UseBlocks, walk
<1>8. CASE Free
    BY <1>8, ValuesAssumption DEF Free, walk
<1>9. CASE UNCHANGED vars
    BY <1>9 DEF vars
<1> QED
    BY <1>1, <1>2, <1>3, <1>4, <1>5, <1>6, <1>7, <1>8, <1>9 DEF Next, WalkStep

\* Every table, even one whose chains run in circles or leave the disk, is read
\* within the disk's size: a read copies at most one cluster more than there are
\* (directorySectors and clusterChainRead, fat.cpp:205-220, 411-437).
THEOREM ReadsAreBounded == Spec => []TypeOK
<1>1. Init => TypeOK /\ WalkInv
    BY WalkInit
<1>2. TypeOK /\ WalkInv /\ [Next]_vars => (TypeOK /\ WalkInv)'
    BY WalkInvStep
<1> QED
    BY <1>1, <1>2, PTL DEF Spec

LEMMA StepGoesDown ==
    TypeOK /\ WalkInv /\ WalkStep => StepsLeft' \in Nat /\ StepsLeft' < StepsLeft
<1> SUFFICES ASSUME TypeOK, WalkInv, WalkStep
             PROVE  StepsLeft' \in Nat /\ StepsLeft' < StepsLeft
    OBVIOUS
<1> USE SizesAssumption DEF TypeOK, WalkInv, StepsLeft
<1>1. CASE Count
    BY <1>1 DEF Count, CountsOn
<1>2. CASE Counting
    BY <1>2 DEF Counting
<1>3. CASE ReadCluster
    BY <1>3 DEF ReadCluster, AfterCluster
<1>4. CASE ReadFails \/ ReadDone
    BY <1>4 DEF ReadFails, ReadDone
<1>5. CASE Return
    BY <1>5 DEF Return
<1> QED
    BY <1>1, <1>2, <1>3, <1>4, <1>5 DEF WalkStep

\* A read of any table ends: every step brings it nearer to its end
\* (the bound "traversed < maxClusters", fat.cpp:210).
THEOREM ReadsEnd == Spec => ReadEnds
<1>1. Init => TypeOK /\ WalkInv
    BY WalkInit
<1>2. TypeOK /\ WalkInv /\ [Next]_vars => (TypeOK /\ WalkInv)'
    BY WalkInvStep
<1>3. TypeOK /\ WalkInv /\ [Next]_vars =>
            [WalkStep => StepsLeft' \in Nat /\ StepsLeft' < StepsLeft]_vars
    BY StepGoesDown
<1> QED
    BY <1>1, <1>2, <1>3, PTL DEF Spec, ReadEnds

-----------------------------------------------------------------------------
(* The two walks of a read *)

\* A walk along the table, which no end interrupts.
IsWalk(s) ==
    /\ s # <<>> /\ s[1] = start
    /\ \A i \in 1 .. Len(s) - 1 : SectorNext(s[i]) = s[i + 1] /\ s[i + 1] # 0

\* The walk that is counted is the walk that is copied: the count is its length, and
\* the copy is as far along it as there are clusters copied.
Walks == Seq(Starts \cup Values)
TraceInv ==
    /\ pc = "count" =>
          \E s \in Walks :
              /\ IsWalk(s) /\ left = Len(s)
              /\ at = s[Len(s)] \/ at = 0
    /\ pc = "read" /\ left > 0 =>
          \E s \in Walks :
              /\ IsWalk(s) /\ left + Len(got) = Len(s)
              /\ at = s[Len(got) + 1]

LEMMA SingleWalk ==
    ASSUME NEW c \in Starts
    PROVE  <<c>> \in Walks /\ Len(<<c>>) = 1 /\ <<c>>[1] = c /\ <<c>> # <<>>
BY DEF Walks

\* The walk goes on by a cluster.
LEMMA LongerWalk ==
    ASSUME NEW s \in Walks, IsWalk(s), NEW c \in Starts \cup Values, c # 0,
           SectorNext(s[Len(s)]) = c
    PROVE  LET longer == Append(s, c) IN
           /\ longer \in Walks /\ IsWalk(longer) /\ Len(longer) = Len(s) + 1
           /\ longer[Len(longer)] = c
<1> DEFINE longer == Append(s, c)
<1>1. Len(s) \in Nat \ {0}
    BY EmptySeq DEF IsWalk, Walks
<1>2. /\ longer \in Walks /\ longer # <<>> /\ Len(longer) = Len(s) + 1
      /\ \A i \in 1 .. Len(s) : longer[i] = s[i]
      /\ longer[Len(s) + 1] = c
    BY AppendProperties DEF Walks
<1>3. ASSUME NEW i \in 1 .. Len(longer) - 1
      PROVE  SectorNext(longer[i]) = longer[i + 1] /\ longer[i + 1] # 0
    <2>1. CASE i = Len(s)
        BY <1>1, <1>2, <2>1
    <2>2. CASE i # Len(s)
        <3>1. i \in 1 .. Len(s) - 1 /\ i + 1 \in 1 .. Len(s)
            BY <1>1, <1>2, <2>2
        <3> QED
            BY <1>2, <3>1 DEF IsWalk
    <2> QED
        BY <2>1, <2>2
<1>4. longer[1] = start
    BY <1>1, <1>2 DEF IsWalk
<1> HIDE DEF longer
<1>5. IsWalk(longer)
    BY <1>2, <1>3, <1>4 DEF IsWalk
<1> QED
    BY <1>1, <1>2, <1>5 DEF longer

LEMMA TraceStep == TypeOK /\ WalkInv /\ TraceInv /\ [Next]_vars => TraceInv'
<1> SUFFICES ASSUME TypeOK, WalkInv, TraceInv, [Next]_vars PROVE TraceInv'
    OBVIOUS
<1>0. \A c : SectorNext(c) \in Starts \cup Values
    BY NextInValues
<1>1. CASE Read
    <2>1. PICK c \in Starts : pc' = "count" /\ left' = 1 /\ at' = c /\ start' = c
        BY <1>1 DEF Read
    <2>2. PICK s \in Walks : Len(s) = 1 /\ s[1] = c /\ s # <<>>
        BY SingleWalk
    <2>3. IsWalk(s)'
        BY <2>1, <2>2 DEF IsWalk
    <2> QED
        BY <2>1, <2>2, <2>3 DEF TraceInv
<1>2. CASE Count
    <2>1. /\ pc = "count" /\ pc' = "count" /\ at \in DataClusters /\ at # 0
          /\ at' = SectorNext(at) /\ left' = Counted /\ UNCHANGED <<map, start>>
        BY <1>2, SizesAssumption DEF Count, CountsOn, DataClusters
    <2>2. PICK s \in Walks : IsWalk(s) /\ left = Len(s) /\ at = s[Len(s)]
        BY <2>1 DEF TraceInv
    <2>3. \A w : IsWalk(w)' = IsWalk(w)
        BY <2>1 DEF IsWalk, SectorNext
    <2>4. CASE SectorNext(at) = 0
        BY <2>1, <2>2, <2>3, <2>4 DEF TraceInv, Counted
    <2>5. CASE SectorNext(at) # 0
        <3> DEFINE longer == Append(s, SectorNext(at))
        <3>1. /\ longer \in Walks /\ IsWalk(longer) /\ Len(longer) = Len(s) + 1
              /\ longer[Len(longer)] = SectorNext(at)
            BY <1>0, <2>2, <2>5, LongerWalk
        <3> HIDE DEF longer
        <3> QED
            BY <2>1, <2>2, <2>3, <2>5, <3>1 DEF TraceInv, Counted
    <2> QED
        BY <2>4, <2>5
<1>3. CASE Counting
    <2>1. /\ pc = "count" /\ pc' = "read" /\ at' = start /\ got' = <<>>
          /\ UNCHANGED <<map, start, left>>
        BY <1>3 DEF Counting, WalkInv
    <2>2. PICK s \in Walks : IsWalk(s) /\ left = Len(s)
        BY <2>1 DEF TraceInv
    <2>3. IsWalk(s)' /\ left' + Len(got') = Len(s) /\ at' = s[Len(got') + 1]
        <3>1. IsWalk(s)'
            BY <2>1, <2>2 DEF IsWalk, SectorNext
        <3>2. Len(got') = 0 /\ at' = s[1]
            BY <2>1, <2>2 DEF IsWalk
        <3> QED
            BY <2>1, <2>2, <3>1, <3>2 DEF TypeOK
    <2> QED
        BY <2>1, <2>3 DEF TraceInv
<1>4. CASE ReadCluster
    <2>1. /\ pc = "read" /\ pc' = "read" /\ left > 0 /\ got' = Append(got, at)
          /\ at' = SectorNext(at) /\ left' = AfterCluster /\ UNCHANGED <<map, start>>
        BY <1>4 DEF ReadCluster
    <2> SUFFICES ASSUME left' > 0
                 PROVE  \E s \in Walks : /\ IsWalk(s)' /\ left' + Len(got') = Len(s)
                                         /\ at' = s[Len(got') + 1]
        BY <2>1 DEF TraceInv
    <2>2. PICK s \in Walks : IsWalk(s) /\ left + Len(got) = Len(s) /\ at = s[Len(got) + 1]
        BY <2>1 DEF TraceInv
    <2>3. left' = left - 1 /\ left \in Nat /\ Len(got') = Len(got) + 1 /\ Len(got) \in Nat
        BY <2>1, AppendRange DEF AfterCluster, WalkInv, TypeOK
    <2>4. Len(got) + 1 \in 1 .. Len(s) - 1
        BY <2>2, <2>3
    <2>5. SectorNext(at) = s[Len(got') + 1]
        BY <2>2, <2>3, <2>4 DEF IsWalk
    <2>6. IsWalk(s)'
        BY <2>1, <2>2 DEF IsWalk, SectorNext
    <2> QED
        BY <2>1, <2>2, <2>3, <2>5, <2>6
<1>5. CASE ReadFails \/ ReadDone \/ Return
    BY <1>5 DEF ReadFails, ReadDone, Return, TraceInv
<1>6. CASE Use \/ Free
    BY <1>6 DEF Use, UseBlocks, Free, walk, TraceInv
<1>7. CASE UNCHANGED vars
    <2>1. \A w : IsWalk(w)' = IsWalk(w)
        BY <1>7 DEF IsWalk, SectorNext, vars
    <2> QED
        BY <1>7, <2>1 DEF TraceInv, vars
<1> QED
    BY <1>1, <1>2, <1>3, <1>4, <1>5, <1>6, <1>7 DEF Next, WalkStep

\* What directorySectors counts is what clusterChainRead finds, for every table: the
\* error "Cluster end reached, but remainbytes > 0" (fat.cpp:424) is never reported.
THEOREM WalksAgree == Spec => CountsAgree
<1>1. Init => TypeOK /\ WalkInv /\ TraceInv
    BY WalkInit DEF Init, TraceInv
<1>2. TypeOK /\ WalkInv /\ TraceInv /\ [Next]_vars => (TypeOK /\ WalkInv /\ TraceInv)'
    BY WalkInvStep, TraceStep
<1>3. TypeOK /\ WalkInv /\ TraceInv /\ [Next]_vars =>
            [ReadCluster /\ SectorNext(at) = 0 => left = 1]_vars
    <2> SUFFICES ASSUME TypeOK, WalkInv, TraceInv, ReadCluster, SectorNext(at) = 0
                 PROVE  left = 1
        OBVIOUS
    <2>1. PICK s \in Walks : IsWalk(s) /\ left + Len(got) = Len(s) /\ at = s[Len(got) + 1]
        BY DEF ReadCluster, TraceInv
    <2>2. left \in Nat /\ left > 0 /\ Len(got) \in Nat
        BY DEF ReadCluster, TypeOK, WalkInv
    <2>3. ~(Len(got) + 1 \in 1 .. Len(s) - 1)
        BY <2>1 DEF IsWalk
    <2> QED
        BY <2>1, <2>2, <2>3
<1> QED
    BY <1>1, <1>2, <1>3, PTL DEF Spec, CountsAgree

-----------------------------------------------------------------------------
(* The read of a sound chain *)

\* Where a read of chain s is: along it, while it is counted, and along it again,
\* with what was passed in the buffer.
Follows(s) ==
    /\ pc = "count" =>
          /\ steps <= Len(s)
          /\ IF steps < Len(s) THEN at = s[steps + 1] /\ left = steps + 1
                               ELSE at = 0 /\ left = Len(s)
    /\ pc = "read" =>
          /\ left + Len(got) = Len(s)
          /\ \A i \in 1 .. Len(got) : got[i] = s[i]
          /\ left > 0 => at = s[Len(got) + 1]
    /\ pc = "done" => got = s
    /\ pc # "failed"
ChainInv == pc # "idle" => \A s \in Chains : IsChain(s, start) => Follows(s)

\* In a sound chain the next cluster is the next one of the table.
LEMMA ChainShape ==
    ASSUME NEW s \in Chains, NEW c, IsChain(s, c)
    PROVE  /\ s \in Seq(DataClusters) /\ Len(s) \in 1 .. ClustersTotal /\ s[1] = c
           /\ \A i \in 1 .. Len(s) : s[i] \in DataClusters /\ s[i] # 0
           /\ \A i \in 1 .. Len(s) : SectorNext(s[i]) = IF i < Len(s) THEN s[i + 1] ELSE 0
<1>1. PICK n \in 1 .. ClustersTotal : s \in [1 .. n -> DataClusters] /\ IsInjective(s)
    BY DEF Chains
<1>2. n \in Nat /\ ClustersTotal \in Nat
    BY SizesAssumption
<1>3. s \in Seq(DataClusters) /\ Len(s) = n
    BY <1>1, <1>2
<1>4. ASSUME NEW i \in 1 .. n
      PROVE  SectorNext(s[i]) = IF i < n THEN s[i + 1] ELSE 0
    <2>1. CASE i < n
        <3>1. i \in 1 .. n - 1 /\ i + 1 \in 1 .. n /\ i # i + 1
            BY <1>2, <2>1
        <3>2. s[i] \in DataClusters /\ s[i + 1] \in DataClusters /\ s[i] # s[i + 1]
            BY <1>1, <3>1 DEF IsInjective
        <3>3. map[s[i]] = s[i + 1]
            BY <1>3, <3>1 DEF IsChain
        <3>4. ~IsEnd(s[i + 1])
            BY <1>3, <3>1 DEF IsChain, IsEnd
        <3> QED
            BY <2>1, <3>2, <3>3, <3>4 DEF SectorNext
    <2>2. CASE ~(i < n)
        <3>1. i = n
            BY <1>2, <2>2
        <3> QED
            BY <1>3, <2>2, <3>1 DEF IsChain, Last, SectorNext
    <2> QED
        BY <2>1, <2>2
<1>5. \A i \in 1 .. n : s[i] \in DataClusters /\ s[i] # 0
    BY <1>1, SizesAssumption DEF DataClusters
<1> QED
    BY <1>1, <1>2, <1>3, <1>4, <1>5 DEF IsChain

LEMMA ChainStep == TypeOK /\ WalkInv /\ ChainInv /\ [Next]_vars => ChainInv'
<1> SUFFICES ASSUME TypeOK, WalkInv, ChainInv, [Next]_vars, pc' # "idle",
                    NEW s \in Chains, IsChain(s, start)'
             PROVE  Follows(s)'
    BY DEF ChainInv, Chains
<1> DEFINE n == Len(s)
<1>0. ClustersTotal \in Nat
    BY SizesAssumption
<1>1. CASE Read
    <2>1. /\ start' \in Starts /\ pc' = "count" /\ steps' = 0 /\ left' = 1 /\ at' = start'
          /\ map' = map
        BY <1>1 DEF Read
    <2>2. PICK c \in Starts : start' = c
        BY <2>1
    <2>3. IsChain(s, c)
        BY <2>1, <2>2 DEF IsChain, IsEnd
    <2>4. n \in 1 .. ClustersTotal /\ s[1] = c
        BY <2>3, ChainShape
    <2> QED
        BY <2>1, <2>2, <2>4 DEF Follows
<1>2. CASE Count
    <2>1. /\ pc = "count" /\ pc' = "count" /\ at \in DataClusters /\ at # 0
          /\ steps' = steps + 1 /\ steps \in Nat
          /\ at' = SectorNext(at) /\ left' = Counted /\ UNCHANGED <<map, start>>
        BY <1>2, SizesAssumption DEF Count, CountsOn, DataClusters, TypeOK
    <2>2. IsChain(s, start)
        BY <2>1 DEF IsChain, IsEnd
    <2>3. /\ n \in 1 .. ClustersTotal
          /\ \A i \in 1 .. n : s[i] # 0 /\ SectorNext(s[i]) = IF i < n THEN s[i + 1] ELSE 0
        BY <2>2, ChainShape
    <2>4. steps < n /\ at = s[steps + 1] /\ left = steps + 1
        BY <2>1, <2>2 DEF ChainInv, Follows
    <2>5. steps + 1 \in 1 .. n
        BY <1>0, <2>1, <2>3, <2>4
    <2>6. CASE steps + 1 < n
        <3>1. SectorNext(at) = s[steps + 2] /\ s[steps + 2] # 0
            BY <1>0, <2>1, <2>3, <2>4, <2>5, <2>6
        <3> QED
            BY <1>0, <2>1, <2>3, <2>4, <2>6, <3>1 DEF Follows, Counted
    <2>7. CASE ~(steps + 1 < n)
        <3>1. SectorNext(at) = 0 /\ steps + 1 = n
            BY <1>0, <2>1, <2>3, <2>4, <2>5, <2>7
        <3> QED
            BY <1>0, <2>1, <2>3, <2>4, <3>1 DEF Follows, Counted
    <2> QED
        BY <2>6, <2>7
<1>3. CASE Counting
    <2>1. /\ pc = "count" /\ pc' = "read" /\ at' = start /\ got' = <<>> /\ got = <<>>
          /\ ~CountsOn /\ steps \in Nat /\ UNCHANGED <<map, start, left>>
        BY <1>3 DEF Counting, WalkInv, TypeOK
    <2>2. IsChain(s, start)
        BY <2>1 DEF IsChain, IsEnd
    <2>3. /\ n \in 1 .. ClustersTotal /\ s[1] = start
          /\ \A i \in 1 .. n : s[i] \in DataClusters
        BY <2>2, ChainShape
    <2>4. steps = n /\ left = n
        <3>1. ~(steps < n)
            <4> SUFFICES ASSUME steps < n PROVE FALSE
                OBVIOUS
            <4>1. at = s[steps + 1] /\ steps + 1 \in 1 .. n
                BY <1>0, <2>1, <2>2, <2>3 DEF ChainInv, Follows
            <4> QED
                BY <1>0, <2>1, <2>3, <4>1 DEF CountsOn
        <3> QED
            BY <1>0, <2>1, <2>2, <2>3, <3>1 DEF ChainInv, Follows
    <2>5. Len(got') = 0
        BY <2>1
    <2> QED
        BY <1>0, <2>1, <2>3, <2>4, <2>5 DEF Follows
<1>4. CASE ReadCluster
    <2>1. /\ pc = "read" /\ pc' = "read" /\ left > 0 /\ got' = Append(got, at)
          /\ at' = SectorNext(at) /\ left' = AfterCluster /\ UNCHANGED <<map, start>>
        BY <1>4 DEF ReadCluster
    <2>2. IsChain(s, start)
        BY <2>1 DEF IsChain, IsEnd
    <2>3. /\ n \in 1 .. ClustersTotal
          /\ \A i \in 1 .. n : s[i] # 0 /\ SectorNext(s[i]) = IF i < n THEN s[i + 1] ELSE 0
        BY <2>2, ChainShape
    <2> DEFINE k == Len(got)
    <2>4. left + k = n /\ at = s[k + 1] /\ k \in Nat /\ left \in Nat
        BY <2>1, <2>2 DEF ChainInv, Follows, WalkInv, TypeOK
    <2>5. k + 1 \in 1 .. n
        BY <1>0, <2>1, <2>3, <2>4
    <2>6. /\ Len(got') = k + 1 /\ got'[k + 1] = at
          /\ \A i \in 1 .. k : got'[i] = got[i]
        BY <2>1, AppendProperties DEF WalkInv
    <2>7. \A i \in 1 .. k : got[i] = s[i]
        BY <2>1, <2>2 DEF ChainInv, Follows
    <2>8. \A i \in 1 .. k + 1 : got'[i] = s[i]
        BY <2>4, <2>6, <2>7
    <2>9. CASE k + 1 < n
        <3>1. SectorNext(at) = s[k + 2] /\ s[k + 2] # 0
            BY <1>0, <2>3, <2>4, <2>5, <2>9
        <3> QED
            BY <1>0, <2>1, <2>3, <2>4, <2>6, <2>8, <2>9, <3>1 DEF Follows, AfterCluster
    <2>10. CASE ~(k + 1 < n)
        <3>1. SectorNext(at) = 0 /\ k + 1 = n
            BY <1>0, <2>3, <2>4, <2>5, <2>10
        <3> QED
            BY <1>0, <2>1, <2>3, <2>4, <2>6, <2>8, <3>1 DEF Follows, AfterCluster
    <2> QED
        BY <2>9, <2>10
<1>5. CASE ReadFails
    <2>1. /\ pc = "read" /\ left > 0 /\ at > ClustersTotal + 1 /\ UNCHANGED <<map, start>>
        BY <1>5 DEF ReadFails, walk
    <2>2. IsChain(s, start)
        BY <2>1 DEF IsChain, IsEnd
    <2>3. n \in 1 .. ClustersTotal /\ \A i \in 1 .. n : s[i] \in DataClusters
        BY <2>2, ChainShape
    <2>4. left + Len(got) = n /\ at = s[Len(got) + 1] /\ Len(got) \in Nat /\ left \in Nat
        BY <2>1, <2>2 DEF ChainInv, Follows, WalkInv, TypeOK
    <2>5. at \in DataClusters
        BY <1>0, <2>1, <2>3, <2>4
    <2> QED
        BY <1>0, <2>1, <2>5 DEF DataClusters
<1>6. CASE ReadDone
    <2>1. /\ pc = "read" /\ pc' = "done" /\ left = 0 /\ UNCHANGED <<map, start, got>>
        BY <1>6 DEF ReadDone, walk
    <2>2. IsChain(s, start)
        BY <2>1 DEF IsChain, IsEnd
    <2>3. n \in 1 .. ClustersTotal /\ s \in Seq(DataClusters)
        BY <2>2, ChainShape
    <2>4. Len(got) = n /\ \A i \in 1 .. Len(got) : got[i] = s[i]
        BY <2>1, <2>2 DEF ChainInv, Follows, WalkInv
    <2>5. got = s
        <3> DEFINE All == Starts \cup Values \cup DataClusters
        <3>1. got \in Seq(All) /\ s \in Seq(All)
            BY <2>3, SeqMonotonic DEF WalkInv
        <3> QED
            BY <2>4, <3>1, SeqEqual
    <2> QED
        BY <2>1, <2>5 DEF Follows
<1>7. CASE Return
    BY <1>7 DEF Return
<1>8. CASE Use \/ Free
    BY <1>8 DEF Use, UseBlocks, Free, walk
<1>9. CASE UNCHANGED vars
    <2>1. IsChain(s, start)
        BY <1>9 DEF vars, IsChain, IsEnd
    <2> QED
        BY <1>9, <2>1 DEF vars, ChainInv, Follows
<1> QED
    BY <1>1, <1>2, <1>3, <1>4, <1>5, <1>6, <1>7, <1>8, <1>9 DEF Next, WalkStep

\* A chain of any length, none of whose links is to a number that ends chains, is read
\* whole on a disk of any size, each cluster once and in its order, and never fails
\* (clusterChainRead, fat.cpp:411-437).
THEOREM ChainsAreRead == Spec => []ReadWhole
<1>1. Init => TypeOK /\ WalkInv /\ ChainInv
    BY WalkInit DEF Init, ChainInv
<1>2. TypeOK /\ WalkInv /\ ChainInv /\ [Next]_vars => (TypeOK /\ WalkInv /\ ChainInv)'
    BY WalkInvStep, ChainStep
<1>3. ChainInv => ReadWhole
    BY DEF ChainInv, Follows, ReadWhole
<1> QED
    BY <1>1, <1>2, <1>3, PTL DEF Spec

-----------------------------------------------------------------------------
(* The blocks that are taken *)

LEMMA FirstNaturals ==
    ASSUME NEW m \in Nat
    PROVE  IsFiniteSet(0 .. m - 1) /\ Cardinality(0 .. m - 1) = m
<1>1. 0 \in Int /\ m - 1 \in Int
    OBVIOUS
<1>2. /\ IsFiniteSet(0 .. m - 1)
      /\ Cardinality(0 .. m - 1) = IF 0 > m - 1 THEN 0 ELSE m - 1 - 0 + 1
    BY <1>1, FS_Interval
<1> QED
    BY <1>2

\* The n least elements of a finite set are n.
LEMMA LeastElements ==
    ASSUME NEW F \in SUBSET Int, IsFiniteSet(F), NEW n \in 0 .. Cardinality(F)
    PROVE  Cardinality({d \in F : Cardinality({e \in F : e < d}) < n}) = n
<1> DEFINE below(d) == {e \in F : e < d}
           rank == [d \in F |-> Cardinality(below(d))]
           N == Cardinality(F)
           least == {d \in F : Cardinality(below(d)) < n}
<1>1. N \in Nat
    BY FS_CardinalityType
<1>2. \A d \in F : IsFiniteSet(below(d)) /\ Cardinality(below(d)) \in 0 .. N - 1
    <2> SUFFICES ASSUME NEW d \in F
                 PROVE  IsFiniteSet(below(d)) /\ Cardinality(below(d)) \in 0 .. N - 1
        OBVIOUS
    <2>1. below(d) \in SUBSET F /\ d \notin below(d)
        OBVIOUS
    <2>2. IsFiniteSet(below(d)) /\ Cardinality(below(d)) <= N /\ Cardinality(below(d)) # N
        BY <2>1, FS_Subset
    <2>3. Cardinality(below(d)) \in Nat
        BY <2>2, FS_CardinalityType
    <2> QED
        BY <1>1, <2>2, <2>3
<1>3. \A d, e \in F : d < e => Cardinality(below(d)) < Cardinality(below(e))
    <2> SUFFICES ASSUME NEW d \in F, NEW e \in F, d < e
                 PROVE  Cardinality(below(d)) < Cardinality(below(e))
        OBVIOUS
    <2>1. below(d) \in SUBSET below(e)
        <3>1. \A x \in F : x < d => x < e
            OBVIOUS
        <3> QED
            BY <3>1
    <2>2. d \in below(e) /\ d \notin below(d)
        OBVIOUS
    <2>3. Cardinality(below(d)) <= Cardinality(below(e)) /\ Cardinality(below(d)) # Cardinality(below(e))
        BY <1>2, <2>1, <2>2, FS_Subset
    <2> QED
        BY <1>1, <1>2, <2>3
<1>4. rank \in [F -> 0 .. N - 1]
    BY <1>2
<1>5. rank \in Injection(F, 0 .. N - 1)
    <2>1. \A d, e \in F : rank[d] = rank[e] => d = e
        <3> SUFFICES ASSUME NEW d \in F, NEW e \in F, d # e PROVE rank[d] # rank[e]
            OBVIOUS
        <3>1. d < e \/ e < d
            OBVIOUS
        <3> QED
            BY <1>1, <1>2, <1>3, <3>1
    <2> HIDE DEF rank
    <2> QED
        BY <1>4, <2>1 DEF Injection, IsInjective
<1>6. IsFiniteSet(0 .. N - 1) /\ Cardinality(0 .. N - 1) = N
    BY <1>1, FirstNaturals
<1> HIDE DEF rank
<1>7. rank \in Surjection(F, 0 .. N - 1)
    BY <1>5, <1>6, FS_Injection
<1> DEFINE cut == [d \in least |-> rank[d]]
<1>8. \A d \in F : d \in least <=> rank[d] < n
    BY DEF rank
<1>9. cut \in [least -> 0 .. n - 1]
    <2>1. \A d \in least : rank[d] \in 0 .. n - 1
        BY <1>1, <1>4, <1>8
    <2> HIDE DEF least
    <2> QED
        BY <2>1
<1>10. cut \in Injection(least, 0 .. n - 1)
    BY <1>5, <1>9 DEF Injection, IsInjective
<1>11. \A k \in 0 .. n - 1 : \E d \in least : cut[d] = k
    <2> SUFFICES ASSUME NEW k \in 0 .. n - 1 PROVE \E d \in least : cut[d] = k
        OBVIOUS
    <2>1. k \in 0 .. N - 1 /\ k < n
        BY <1>1
    <2>2. PICK d \in F : rank[d] = k
        BY <1>7, <2>1 DEF Surjection
    <2>3. d \in least
        BY <1>8, <2>1, <2>2
    <2> QED
        BY <2>2, <2>3
<1> HIDE DEF least
<1>12. cut \in Surjection(least, 0 .. n - 1)
    BY <1>9, <1>11 DEF Surjection
<1>13. IsFiniteSet(0 .. n - 1) /\ Cardinality(0 .. n - 1) = n
    BY <1>1, FirstNaturals
<1>14. Cardinality(least) = n
    BY <1>10, <1>12, <1>13, FS_Injection
<1> QED
    BY <1>14 DEF least

\* The block of a cluster is a block of that cluster.
LEMMA ClusterOfBlock ==
    ASSUME NEW c \in DataClusters
    PROVE  /\ BlockToCluster(ClusterToBlock(c)) = c
           /\ IsData(ClusterToBlock(c))
<1>1. /\ c \in Nat /\ c >= 2 /\ DataStart \in Nat /\ PerCluster \in Nat /\ PerCluster > 0
    BY SizesAssumption DEF DataClusters
<1> DEFINE k == c - 2
           m == k * PerCluster
<1>2. k \in Nat /\ m \in Nat
    BY <1>1
<1>3. m \div PerCluster = k
    BY <1>1, <1>2
<1>4. ClusterToBlock(c) = DataStart + m
    BY <1>1 DEF ClusterToBlock
<1> HIDE DEF m
<1>5. BlockToCluster(ClusterToBlock(c)) = c
    BY <1>1, <1>2, <1>3, <1>4 DEF BlockToCluster
<1>6. ClusterToBlock(c) >= DataStart
    BY <1>1, <1>2, <1>4
<1> QED
    BY <1>5, <1>6 DEF IsData

LEMMA FreeAreZeros == FreeClusters = Zeros
BY ClusterOfBlock DEF FreeClusters, Zeros, BlockIsFree

LEMMA UseStep ==
    ASSUME TypeOK, NEW n \in 1 .. ClustersTotal + 1, UseBlocks(n)
    PROVE  IF n > Cardinality(Zeros) THEN map' = map
           ELSE /\ Zeros' \subseteq Zeros /\ Cardinality(Zeros \ Zeros') = n
                /\ \A c \in DataClusters : map'[c] # map[c] => c \in Zeros /\ IsEnd(map'[c])
<1> DEFINE first == {d \in Zeros : Cardinality({e \in Zeros : e < d}) < n}
<1>1. /\ ClustersTotal \in Nat /\ EndTo \in Nat /\ EndTo # 0 /\ EndTo \in EndFrom .. EndTo
      /\ n \in Nat
    BY SizesAssumption
<1>2. Zeros \in SUBSET Int /\ IsFiniteSet(Zeros) /\ Cardinality(Zeros) \in Nat
    <2>1. IsFiniteSet(DataClusters)
        BY <1>1, FS_Interval DEF DataClusters
    <2>2. Zeros \in SUBSET DataClusters /\ Zeros \in SUBSET Int
        BY DEF Zeros, DataClusters
    <2> QED
        BY <2>1, <2>2, FS_Subset, FS_CardinalityType
<1>3. map \in [DataClusters -> Values]
    BY DEF TypeOK
<1>4. map' = [c \in DataClusters |->
                IF \E b \in Taken(n) : BlockToCluster(b) = c THEN EndTo ELSE map[c]]
    BY DEF UseBlocks
<1>5. CASE n > Cardinality(Zeros)
    <2>1. Taken(n) = {}
        BY <1>5, FreeAreZeros DEF Taken
    <2>2. \A c \in DataClusters : map'[c] = map[c]
        BY <1>4, <2>1
    <2>3. map' = map
        BY <1>3, <1>4, <2>1
    <2> QED
        BY <1>5, <2>3
<1>6. CASE ~(n > Cardinality(Zeros))
    <2>1. Taken(n) = {ClusterToBlock(c) : c \in first}
        BY <1>6, FreeAreZeros DEF Taken
    <2>2. first \subseteq Zeros /\ Zeros \subseteq DataClusters
        BY DEF Zeros
    <2> HIDE DEF first
    <2>3. \A c \in DataClusters : (\E b \in Taken(n) : BlockToCluster(b) = c) <=> c \in first
        BY <2>1, <2>2, ClusterOfBlock
    <2>4. \A c \in DataClusters : map'[c] = IF c \in first THEN EndTo ELSE map[c]
        BY <1>4, <2>3
    <2>5. Zeros' = Zeros \ first
        <3>1. Zeros' = {c \in DataClusters : map'[c] = 0}
            BY DEF Zeros
        <3> QED
            BY <1>1, <2>4, <3>1 DEF Zeros
    <2>6. Zeros \ Zeros' = first
        BY <2>2, <2>5
    <2>7. Cardinality(first) = n
        BY <1>1, <1>2, <1>6, LeastElements DEF first
    <2>8. \A c \in DataClusters : map'[c] # map[c] => c \in Zeros /\ IsEnd(map'[c])
        BY <1>1, <2>2, <2>4 DEF IsEnd
    <2> QED
        BY <1>6, <2>5, <2>6, <2>7, <2>8
<1> QED
    BY <1>5, <1>6

\* A use of any number of clusters, on a disk of any size, takes as many as were asked
\* for, all of them free before, or changes nothing (blockUse, fat.cpp).
THEOREM UsesTakeFree == Spec => UseTakesFree
<1>1. Init => TypeOK /\ WalkInv
    BY WalkInit
<1>2. TypeOK /\ WalkInv /\ [Next]_vars => (TypeOK /\ WalkInv)'
    BY WalkInvStep
<1> DEFINE Takes == \A n \in 1 .. ClustersTotal + 1 : UseBlocks(n) =>
            IF n > Cardinality(Zeros) THEN map' = map
            ELSE /\ Zeros' \subseteq Zeros /\ Cardinality(Zeros \ Zeros') = n
                 /\ \A c \in DataClusters : map'[c] # map[c] => c \in Zeros /\ IsEnd(map'[c])
<1>3. TypeOK => Takes
    BY UseStep
<1>4. TypeOK /\ WalkInv /\ [Next]_vars => [Takes]_vars
    BY <1>3
<1> QED
    BY <1>1, <1>2, <1>4, PTL DEF Spec, UseTakesFree
=============================================================================
