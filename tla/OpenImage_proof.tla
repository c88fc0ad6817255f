-------------------------- MODULE OpenImage_proof --------------------------
(***************************************************************************)
(* What openImage and the lookups promise for every image: of any size,    *)
(* with any partition tables, descriptors and directories.                 *)
(*                                                                         *)
(* The search for a FAT volume goes from record to record of the image,    *)
(* and which volume it comes to depends on all it has passed over.  The    *)
(* invariant therefore says of every extended partition that is done with  *)
(* that none of the records it leads to names a volume, and of the one     *)
(* that is searched that what is left of its chain is still ahead.         *)
(*                                                                         *)
(* A map, a table or a directory is what it is by the loop that loads it.  *)
(* For each of them a lemma says what is loaded after so many rounds, and  *)
(* that the rounds the code takes are enough; the invariants only say that *)
(* what is open was loaded in this way, and that nothing changes it.       *)
(***************************************************************************)
EXTENDS OpenImage, Walks_proof, SequenceTheorems, FiniteSetTheorems, TLAPS
-----------------------------------------------------------------------------
(* The tree: a lookup adds directories to it, and takes none away *)

IsSeq(d) == \E S : d \in Seq(S)

\* Only a loaded directory has nodes, and it is one itself.
TreeShape(t) ==
    \A d \in DOMAIN t : IsSeq(d) /\ (d # <<>> => Front(d) \in DOMAIN t /\ t[Front(d)][Last(d)].dir)

\* All of one tree is in another.
Extends(t, u) == \A d \in DOMAIN t : d \in DOMAIN u /\ u[d] = t[d]

\* The path of a node is one longer than that of its directory.
LEMMA PathOfNode ==
    ASSUME NEW d, IsSeq(d), NEW x
    PROVE  IsSeq(Append(d, x)) /\ Append(d, x) # <<>> /\ Front(Append(d, x)) = d
<1>1. PICK S : d \in Seq(S)
    BY DEF IsSeq
<1>2. PICK T : T = S \cup {x}
    OBVIOUS
<1>3. d \in Seq(T) /\ x \in T
    BY <1>1, <1>2
<1>4. PICK e : e = Append(d, x)
    OBVIOUS
<1>5. e \in Seq(T) /\ Len(e) = Len(d) + 1 /\ Len(d) \in Nat /\ \A i \in 1 .. Len(d) : e[i] = d[i]
    BY <1>3, <1>4, AppendProperties
<1>6. e # <<>>
    <2>1. Len(<<>>) = 0
        OBVIOUS
    <2> QED
        BY <1>5, <2>1
<1>7. Front(e) = d
    <2>1. Len(e) - 1 = Len(d)
        BY <1>5
    <2>2. /\ SubSeq(e, 1, Len(d)) \in Seq(T) /\ Len(SubSeq(e, 1, Len(d))) = Len(d)
          /\ \A i \in 1 .. Len(d) : SubSeq(e, 1, Len(d))[i] = e[i]
        <3>1. \A i \in 1 .. Len(d) : i \in 1 .. Len(e)
            BY <1>5
        <3> QED
            BY <1>5, <3>1
    <2> QED
        BY <1>3, <1>5, <2>1, <2>2, SeqEqual DEF Front
<1> QED
    BY <1>4, <1>5, <1>6, <1>7 DEF IsSeq

\* What is before the end of a path that goes on from another one goes on from it too.
LEMMA PrefixOfFront ==
    ASSUME NEW d, IsSeq(d), NEW e, IsSeq(e), IsPrefix(d, e), d # e
    PROVE  /\ Len(e) \in Nat /\ e # <<>> /\ IsPrefix(d, Front(e)) /\ Len(Front(e)) = Len(e) - 1
           /\ Len(Front(e)) \in Nat
<1>1. PICK S : d \in Seq(S)
    BY DEF IsSeq
<1>2. PICK T : e \in Seq(T)
    BY DEF IsSeq
<1>3. PICK U : U = S \cup T
    OBVIOUS
<1>4. d \in Seq(U) /\ e \in Seq(U) /\ Len(d) \in Nat /\ Len(e) \in Nat /\ Len(d) <= Len(e)
    BY <1>1, <1>2, <1>3 DEF IsPrefix
<1>5. SubSeq(d, 1, Len(d)) = d /\ SubSeq(e, 1, Len(e)) = e
    BY <1>4
<1>6. Len(d) # Len(e)
    BY <1>5 DEF IsPrefix
<1>7. Len(d) <= Len(e) - 1 /\ Len(e) - 1 \in Nat /\ Len(e) # 0
    BY <1>4, <1>6
<1>8. e # <<>>
    <2>1. Len(<<>>) = 0
        OBVIOUS
    <2> QED
        BY <1>7, <2>1
<1>9. PICK f : f = Front(e)
    OBVIOUS
<1>10. f \in Seq(U) /\ Len(f) = Len(e) - 1 /\ \A i \in 1 .. Len(f) : f[i] = e[i]
    <2>1. f = SubSeq(e, 1, Len(e) - 1)
        BY <1>9 DEF Front
    <2>2. \A i \in 1 .. Len(e) - 1 : i \in 1 .. Len(e)
        BY <1>7
    <2>3. PICK n \in Nat : n = Len(e) - 1
        BY <1>7
    <2>4. /\ SubSeq(e, 1, n) \in Seq(U) /\ Len(SubSeq(e, 1, n)) = n
          /\ \A i \in 1 .. n : SubSeq(e, 1, n)[i] = e[i]
        BY <1>4, <2>2, <2>3
    <2> QED
        BY <2>1, <2>3, <2>4
<1>11. SubSeq(f, 1, Len(d)) = SubSeq(e, 1, Len(d))
    <2>1. \A i \in 1 .. Len(d) : i \in 1 .. Len(f) /\ i \in 1 .. Len(e)
        BY <1>4, <1>7, <1>10
    <2>2. /\ SubSeq(f, 1, Len(d)) \in Seq(U) /\ Len(SubSeq(f, 1, Len(d))) = Len(d)
          /\ \A i \in 1 .. Len(d) : SubSeq(f, 1, Len(d))[i] = f[i]
        BY <1>4, <1>7, <1>10, <2>1
    <2>3. /\ SubSeq(e, 1, Len(d)) \in Seq(U) /\ Len(SubSeq(e, 1, Len(d))) = Len(d)
          /\ \A i \in 1 .. Len(d) : SubSeq(e, 1, Len(d))[i] = e[i]
        BY <1>4, <1>7, <2>1
    <2>4. \A i \in 1 .. Len(d) : SubSeq(f, 1, Len(d))[i] = SubSeq(e, 1, Len(d))[i]
        BY <1>10, <2>1, <2>2, <2>3
    <2> QED
        BY <2>2, <2>3, <2>4, SeqEqual
<1>12. IsPrefix(d, f)
    BY <1>7, <1>10, <1>11 DEF IsPrefix
<1> QED
    BY <1>4, <1>7, <1>8, <1>9, <1>10, <1>12

\* Below a directory that is not loaded there is nothing loaded.
LEMMA NothingBelow ==
    ASSUME NEW t, TreeShape(t), NEW id, IsSeq(id), id \notin DOMAIN t
    PROVE  \A e \in DOMAIN t : ~IsPrefix(id, e)
<1> DEFINE below == {e \in DOMAIN t : IsPrefix(id, e)}
           lengths == {Len(e) : e \in below}
<1> SUFFICES ASSUME below # {} PROVE FALSE
    OBVIOUS
<1>1. \A e \in below : Len(e) \in Nat /\ e # <<>> /\ IsPrefix(id, Front(e)) /\ Len(Front(e)) = Len(e) - 1
    <2>1. \A e \in below : e \in DOMAIN t /\ IsSeq(e) /\ IsPrefix(id, e) /\ id # e
        BY DEF TreeShape
    <2> QED
        BY <2>1, PrefixOfFront
<1>2. lengths \in SUBSET Nat /\ lengths # {}
    BY <1>1
<1>3. PICK n \in lengths : \A m \in lengths : n <= m
    BY <1>2, LeastNatural
<1>4. PICK e \in below : Len(e) = n
    BY <1>3
<1>5. Front(e) \in below
    BY <1>1, <1>4 DEF TreeShape
<1>6. Len(Front(e)) \in lengths
    BY <1>5
<1>7. n <= n - 1 /\ n \in Nat
    BY <1>1, <1>3, <1>4, <1>6
<1> QED
    BY <1>7

\* Loading a directory adds its nodes to the tree.
LEMMA LoadAdds ==
    ASSUME NEW t, TreeShape(t), NEW id, IsSeq(id), id = <<>> \/ Front(id) \in DOMAIN t,
           NeedsLoad(t, id)
    PROVE  TreeShape(DirLoaded(t, id)) /\ Extends(t, DirLoaded(t, id))
<1>1. PICK u : u = DirLoaded(t, id)
    OBVIOUS
<1>2. id \notin DOMAIN t /\ (id # <<>> => t[Front(id)][Last(id)].dir)
    BY DEF NeedsLoad, Node
<1>3. {e \in DOMAIN t : ~IsPrefix(id, e)} = DOMAIN t
    BY <1>2, NothingBelow
<1>4. DOMAIN u = DOMAIN t \cup {id} /\ \A d \in DOMAIN t : u[d] = t[d]
    BY <1>1, <1>2, <1>3 DEF DirLoaded
<1>5. ASSUME NEW d \in DOMAIN u PROVE IsSeq(d) /\ (d # <<>> => Front(d) \in DOMAIN t /\ t[Front(d)][Last(d)].dir)
    BY <1>2, <1>4 DEF TreeShape
<1>6. TreeShape(u)
    BY <1>4, <1>5 DEF TreeShape
<1> QED
    BY <1>1, <1>4, <1>6 DEF Extends

\* A lookup has come this far: it has only added to the tree.
Good(t, s) ==
    /\ TreeShape(s.tree) /\ Extends(t, s.tree)
    /\ IsSeq(s.id) /\ (s.id = <<>> \/ Front(s.id) \in DOMAIN s.tree)

\* getByName goes on from there.
LEMMA GoesOn ==
    ASSUME NEW t, NEW s, Good(t, s), NEW name
    PROVE  Good(t, GetByName(s, name))
<1>1. PICK id : id = s.id
    OBVIOUS
<1>2. PICK u : u = IF NeedsLoad(s.tree, id) /\ CanLoadDir(s.tree, id)
                   THEN DirLoaded(s.tree, id) ELSE s.tree
    OBVIOUS
<1>3. TreeShape(u) /\ Extends(s.tree, u)
    BY <1>1, <1>2, LoadAdds DEF Good, Extends
<1>4. Extends(t, u) /\ (id = <<>> \/ Front(id) \in DOMAIN u) /\ IsSeq(id)
    BY <1>1, <1>3 DEF Good, Extends
<1>5. PICK hits : hits = IF Node(s.tree, id).dir /\ id \in DOMAIN u
                         THEN {i \in DOMAIN u[id] : SameName(u[id][i].name, name)} ELSE {}
    OBVIOUS
<1>6. PICK r : r = GetByName(s, name)
    OBVIOUS
<1>7. r = IF ~s.found \/ hits = {} THEN [tree |-> u, found |-> FALSE, id |-> id]
          ELSE [tree |-> u, found |-> TRUE, id |-> Append(id, Min(hits))]
    BY <1>1, <1>2, <1>5, <1>6 DEF GetByName
<1>8. r.tree = u /\ (r.id = id \/ (hits # {} /\ r.id = Append(id, Min(hits))))
    BY <1>7
<1>9. CASE r.id = id
    BY <1>3, <1>4, <1>6, <1>8, <1>9 DEF Good
<1>10. CASE hits # {} /\ r.id = Append(id, Min(hits))
    <2>1. id \in DOMAIN u
        BY <1>5, <1>10
    <2>2. IsSeq(r.id) /\ Front(r.id) = id
        BY <1>4, <1>10, PathOfNode
    <2> QED
        BY <1>3, <1>4, <1>6, <1>8, <2>1, <2>2 DEF Good
<1> QED
    BY <1>8, <1>9, <1>10

\* Where a lookup is after each name of its path.
Walked(t, path, h) ==
    h = [n \in 0 .. Len(path) |-> IF n = 0 THEN [tree |-> t, found |-> TRUE, id |-> <<>>]
                                ELSE GetByName(h[n - 1], path[n])]

\* A lookup can be taken along every path.
LEMMA WalkOfLookup ==
    ASSUME NEW t, NEW path, Len(path) \in Nat
    PROVE  \E h : Walked(t, path, h)
<1> DEFINE start == [tree |-> t, found |-> TRUE, id |-> <<>>]
           N == Len(path)
           Up(h, m) == h = [n \in 0 .. m |-> IF n = 0 THEN start ELSE GetByName(h[n - 1], path[n])]
           S == {m \in 0 .. N : \E h : Up(h, m)}
<1>1. 0 \in S
    <2>1. PICK h : h = [n \in 0 .. 0 |-> start]
        OBVIOUS
    <2>2. Up(h, 0)
        <3>1. [n \in 0 .. 0 |-> IF n = 0 THEN start ELSE GetByName(h[n - 1], path[n])] = [n \in 0 .. 0 |-> start]
            <4>1. \A n \in 0 .. 0 : n = 0
                OBVIOUS
            <4> QED
                BY <4>1
        <3> QED
            BY <2>1, <3>1
    <2> HIDE DEF Up
    <2> QED
        BY <2>2
<1>2. ASSUME NEW m \in 1 .. N, m - 1 \in S PROVE m \in S
    <2>1. PICK g : Up(g, m - 1)
        BY <1>2
    <2>2. PICK h : h = [n \in 0 .. m |-> IF n = m THEN GetByName(g[m - 1], path[m]) ELSE g[n]]
        OBVIOUS
    <2>3. h[m] = GetByName(h[m - 1], path[m])
        <3>1. m \in 0 .. m /\ m - 1 \in 0 .. m /\ m - 1 # m
            OBVIOUS
        <3>2. h[m] = GetByName(g[m - 1], path[m]) /\ h[m - 1] = g[m - 1]
            BY <2>2, <3>1
        <3> QED
            BY <3>2
    <2>4. ASSUME NEW n \in 0 .. m - 1 PROVE h[n] = IF n = 0 THEN start ELSE GetByName(h[n - 1], path[n])
        <3>1. n \in 0 .. m /\ n # m
            OBVIOUS
        <3>2. h[n] = g[n]
            BY <2>2, <3>1
        <3>3. g[n] = IF n = 0 THEN start ELSE GetByName(g[n - 1], path[n])
            BY <2>1, <2>4
        <3>4. CASE n = 0
            BY <3>2, <3>3, <3>4
        <3>5. CASE n # 0
            <4>1. n - 1 \in 0 .. m /\ n - 1 # m
                BY <3>5
            <4>2. h[n - 1] = g[n - 1]
                BY <2>2, <4>1
            <4> QED
                BY <3>2, <3>3, <3>5, <4>2
        <3> QED
            BY <3>4, <3>5
    <2>5. ASSUME NEW n \in 0 .. m PROVE h[n] = IF n = 0 THEN start ELSE GetByName(h[n - 1], path[n])
        <3>1. n = m \/ n \in 0 .. m - 1
            OBVIOUS
        <3>2. m # 0
            OBVIOUS
        <3> HIDE DEF start
        <3> QED
            BY <2>3, <2>4, <3>1, <3>2
    <2>6. PICK k : k = [n \in 0 .. m |-> IF n = 0 THEN start ELSE GetByName(h[n - 1], path[n])]
        OBVIOUS
    <2>7. h = k
        <3>1. DOMAIN h = 0 .. m /\ DOMAIN k = 0 .. m
            BY <2>2, <2>6
        <3>2. h = [n \in 0 .. m |-> h[n]] /\ k = [n \in 0 .. m |-> k[n]]
            BY <2>2, <2>6
        <3>3. \A n \in 0 .. m : h[n] = k[n]
            <4> HIDE DEF start
            <4> QED
                BY <2>5, <2>6
        <3> QED
            BY <3>2, <3>3
    <2>8. Up(h, m)
        BY <2>6, <2>7
    <2>9. m \in 0 .. N
        OBVIOUS
    <2> HIDE DEF Up
    <2> QED
        BY <2>8, <2>9
<1> HIDE DEF S
<1>3. N \in Nat
    OBVIOUS
<1>4. N \in 0 .. N
    BY <1>3
<1>5. N \in S
    <2> HIDE DEF N
    <2> QED
        BY <1>1, <1>2, <1>3, <1>4, Induct
<1> QED
    BY <1>5 DEF S, Walked

\* filesystemNode leaves a tree that has all of the one before it.
LEMMA LookupAdds ==
    ASSUME TreeShape(tree), NEW path \in Paths, Lookup(path)
    PROVE  TreeShape(tree') /\ Extends(tree, tree')
<1> DEFINE start == [tree |-> tree, found |-> TRUE, id |-> <<>>]
           walk == CHOOSE h : Walked(tree, path, h)
<1>1. Len(path) \in Nat
    BY OpenAssumption
<1>2. \E h : Walked(tree, path, h)
    BY <1>1, WalkOfLookup
<1>3. Walked(tree, path, walk)
    BY <1>2
<1>4. PICK s : s = walk[Len(path)]
    OBVIOUS
<1>5. tree' = IF s.found /\ NeedsLoad(s.tree, s.id) /\ CanLoadDir(s.tree, s.id)
              THEN DirLoaded(s.tree, s.id) ELSE s.tree
    BY <1>4 DEF Lookup, Walked
<1> HIDE DEF walk
<1>6. \A n \in 0 .. Len(path) : walk[n] = IF n = 0 THEN start ELSE GetByName(walk[n - 1], path[n])
    BY <1>3 DEF Walked
<1>7. Good(tree, start)
    <2>1. <<>> \in Seq({})
        OBVIOUS
    <2> QED
        BY <2>1 DEF Good, IsSeq, Extends
<1> HIDE DEF start
<1>8. \A n \in 0 .. Len(path) : n \in {k \in 0 .. Len(path) : Good(tree, walk[k])}
    <2> DEFINE S == {k \in 0 .. Len(path) : Good(tree, walk[k])}
    <2>1. 0 \in S
        BY <1>1, <1>6, <1>7
    <2>2. ASSUME NEW n \in 1 .. Len(path), n - 1 \in S PROVE n \in S
        <3>1. n \in 0 .. Len(path) /\ n # 0 /\ Good(tree, walk[n - 1])
            BY <2>2
        <3>2. walk[n] = GetByName(walk[n - 1], path[n])
            BY <1>6, <3>1
        <3> QED
            BY <3>1, <3>2, GoesOn
    <2> HIDE DEF S
    <2>3. \A n \in 0 .. Len(path) : n \in S
        BY <1>1, <2>1, <2>2, Induct
    <2> QED
        BY <2>3 DEF S
<1>9. Good(tree, s)
    <2>1. Len(path) \in 0 .. Len(path)
        BY <1>1
    <2> QED
        BY <1>4, <1>8, <2>1
<1>10. CASE NeedsLoad(s.tree, s.id) /\ tree' = DirLoaded(s.tree, s.id)
    <2>1. TreeShape(tree') /\ Extends(s.tree, tree')
        BY <1>9, <1>10, LoadAdds DEF Good
    <2> QED
        BY <1>9, <2>1 DEF Good, Extends
<1>11. CASE tree' = s.tree
    BY <1>9, <1>11 DEF Good
<1> QED
    BY <1>5, <1>10, <1>11

-----------------------------------------------------------------------------
(* What is open is one volume, of an image that stays what it is *)

Fields == {"bytes", "dos", "boot", "table", "entries", "descriptors", "records", "written"}
RealImage ==
    /\ DOMAIN source = Fields
    /\ source.bytes \in Nat
    /\ DOMAIN source.boot \subseteq 0 .. Width - 1
    /\ \A b \in DOMAIN source.boot : source.boot[b] \in BootRecords
    /\ \A p \in DOMAIN source.entries : source.entries[p] \in Entries
    /\ \A s \in DOMAIN source.descriptors : source.descriptors[s] \in Descriptors
    /\ \A p \in DOMAIN source.records : source.records[p] \in DirectoryRecords
    /\ \A lba \in DOMAIN source.written : source.written[lba] \in Seq(DirectoryRecords)
TypeInv == TypeOK /\ TreeShape(tree) /\ RealImage

\* All of the image but its table.
SameImage ==
    /\ DOMAIN source' = DOMAIN source /\ source'.bytes = source.bytes /\ source'.boot = source.boot
    /\ source'.descriptors = source.descriptors /\ source'.entries = source.entries
    /\ source'.records = source.records /\ source'.written = source.written

\* A save of the map changes the table only.
LEMMA ImageStays ==
    ASSUME RealImage, [Next]_vars
    PROVE  SameImage /\ RealImage' /\ (pc # "openD64" => source' = source)
<1>1. source' = source \/ (pc = "openD64" /\ \E b : source' = [source EXCEPT !.table = b])
    <2>1. CASE Open
        BY <2>1 DEF Open
    <2>2. CASE LoadCommodore
        BY <2>2 DEF LoadCommodore, LoadD64
    <2>3. CASE TryADF
        BY <2>3 DEF TryADF
    <2>4. CASE TestFat
        BY <2>4 DEF TestFat
    <2>5. CASE LoadFat
        BY <2>5 DEF LoadFat, FatStep, ReadPartitions, NextBase, ReadRecord, Fallback
    <2>6. CASE TestIso
        BY <2>6 DEF TestIso
    <2>7. CASE LoadIso
        BY <2>7 DEF LoadIso, IsoStep, ReadDescriptor, LoadVolume
    <2>8. CASE UseMap
        <3>1. (\E ts \in EdgeSectors, used \in BOOLEAN : SectorSet(ts, used)) => source' = source
            BY DEF SectorSet
        <3>2. SaveMap => pc = "openD64" /\ \E b : source' = [source EXCEPT !.table = b]
            BY DEF SaveMap
        <3> QED
            BY <2>8, <3>1, <3>2 DEF UseMap
    <2>9. CASE Close
        BY <2>9 DEF Close
    <2>10. CASE \E path \in Paths : Lookup(path)
        BY <2>10 DEF Lookup
    <2>11. CASE UNCHANGED vars
        BY <2>11 DEF vars
    <2> QED
        BY <2>1, <2>2, <2>3, <2>4, <2>5, <2>6, <2>7, <2>8, <2>9, <2>10, <2>11 DEF Next, OpenStep
<1>2. ASSUME NEW b, source' = [source EXCEPT !.table = b] PROVE SameImage
    BY <1>2 DEF SameImage, RealImage, Fields
<1>3. SameImage
    BY <1>1, <1>2 DEF SameImage
<1> QED
    BY <1>1, <1>3 DEF SameImage, RealImage

\* partitionOpen opens the volume, goes on to ISO, or ends the process.
LEMMA PartitionEnds ==
    ASSUME NEW n, PartitionOpen(n)
    PROVE  pc' = "openFat" \/ (pc' \in {"died", "isoTest"} /\ UNCHANGED fatVolume)
BY DEF PartitionOpen

\* A partition search keeps to its stages.
LEMMA FatStages ==
    ASSUME FatStep
    PROVE  /\ pc \in {"fat", "fatExtended"} /\ pc' \in {"fatExtended", "died", "isoTest", "openFat"}
           /\ pc' # "openFat" => UNCHANGED fatVolume
           /\ UNCHANGED source
<1>1. CASE ReadPartitions
    BY <1>1, PartitionEnds DEF ReadPartitions
<1>2. CASE NextBase
    BY <1>2 DEF NextBase
<1>3. CASE ReadRecord
    BY <1>3, PartitionEnds DEF ReadRecord
<1>4. CASE Fallback
    BY <1>4, PartitionEnds DEF Fallback
<1> QED
    BY <1>1, <1>2, <1>3, <1>4 DEF FatStep

\* A step over descriptors keeps to its stages, and reads MaxDescriptors at most.
LEMMA IsoStages ==
    ASSUME IsoStep, descriptors.at \in 0 .. MaxDescriptors
    PROVE  /\ pc = "iso" /\ pc' \in {"iso", "openIso", "null"}
           /\ pc' # "openIso" => UNCHANGED isoVolume
           /\ descriptors'.at \in 0 .. MaxDescriptors
           /\ UNCHANGED source
<1>0. MaxDescriptors \in Nat
    BY IsoAssumption
<1>1. CASE ReadDescriptor
    <2>1. descriptors.at < MaxDescriptors /\ descriptors'.at = descriptors.at + 1
        BY <1>1 DEF ReadDescriptor, ScansOn
    <2> QED
        BY <1>0, <1>1, <2>1 DEF ReadDescriptor
<1>2. CASE LoadVolume
    <2>1. descriptors'.at = 0
        BY <1>2 DEF LoadVolume, Unread
    <2>2. pc = "iso" /\ UNCHANGED source
        BY <1>2 DEF LoadVolume
    <2>3. pc' = "openIso" \/ (pc' = "null" /\ UNCHANGED isoVolume)
        BY <1>2 DEF LoadVolume
    <2> QED
        BY <1>0, <2>1, <2>2, <2>3
<1> QED
    BY <1>1, <1>2 DEF IsoStep

\* Before anything is opened.
LEMMA InitTypes == Init => TypeInv
<1> SUFFICES ASSUME Init PROVE TypeInv
    OBVIOUS
<1>1. PICK kind \in DOMAIN Images : source \in Images[kind]
    BY DEF Init
<1>2. RealImage
    BY <1>1, ImagesAssumption DEF RealImage, Fields
<1>3. DOMAIN tree = {}
    BY DEF Init
<1>4. descriptors.at \in 0 .. MaxDescriptors
    BY IsoAssumption DEF Init, Unread
<1> QED
    BY <1>2, <1>3, <1>4 DEF Init, TypeInv, TypeOK, TreeShape, Stages, Returned

\* TypeOK with TreeShape, as what a step of the control has to keep.
StaysTyped ==
    /\ pc' \in Stages \cup Returned \cup {"died"}
    /\ pc' # "openD64" => disk' = NoDisk
    /\ pc' # "openFat" => fatVolume' = NoFatVolume
    /\ pc' # "openIso" => isoVolume' = NoIsoVolume
    /\ pc' \notin {"openFat", "openIso"} => tree' = <<>>
    /\ descriptors'.at \in 0 .. MaxDescriptors
    /\ TreeShape(tree')

\* Openings, loads, lookups and changes of the map.
LEMMA StepTypes ==
    ASSUME TypeInv, [Next]_vars PROVE StaysTyped
<1>0. /\ pc \in Stages \cup Returned \cup {"died"}
      /\ pc # "openD64" => disk = NoDisk
      /\ pc # "openFat" => fatVolume = NoFatVolume
      /\ pc # "openIso" => isoVolume = NoIsoVolume
      /\ pc \notin {"openFat", "openIso"} => tree = <<>>
      /\ descriptors.at \in 0 .. MaxDescriptors
      /\ TreeShape(tree)
    BY DEF TypeInv, TypeOK
<1>1. CASE Open
    BY <1>0, <1>1 DEF Open, formats, StaysTyped, Stages, Returned
<1>2. CASE LoadCommodore
    <2>1. pc' \in {"openD64", "adf"} /\ pc = "d64" /\ (pc' = "adf" => disk' = disk)
        BY <1>2 DEF LoadCommodore, LoadD64
    <2> QED
        BY <1>0, <1>2, <2>1 DEF LoadCommodore, StaysTyped, Stages, Returned
<1>3. CASE TryADF
    BY <1>0, <1>3 DEF TryADF, formats, StaysTyped, Stages, Returned
<1>4. CASE TestFat
    BY <1>0, <1>4 DEF TestFat, formats, StaysTyped, Stages, Returned
<1>5. CASE LoadFat
    <2>1. /\ pc \in {"fat", "fatExtended"} /\ pc' \in {"fatExtended", "died", "isoTest", "openFat"}
          /\ pc' # "openFat" => UNCHANGED fatVolume
        BY <1>5, FatStages DEF LoadFat
    <2> QED
        BY <1>0, <1>5, <2>1 DEF LoadFat, StaysTyped, Stages, Returned
<1>6. CASE TestIso
    BY <1>0, <1>6 DEF TestIso, formats, StaysTyped, Stages, Returned
<1>7. CASE LoadIso
    <2>1. /\ pc = "iso" /\ pc' \in {"iso", "openIso", "null"}
          /\ pc' # "openIso" => UNCHANGED isoVolume
          /\ descriptors'.at \in 0 .. MaxDescriptors
        BY <1>0, <1>7, IsoStages DEF LoadIso
    <2> QED
        BY <1>0, <1>7, <2>1 DEF LoadIso, StaysTyped, Stages, Returned
<1>8. CASE UseMap
    <2>1. pc = "openD64" /\ pc' = pc
        BY <1>8 DEF UseMap, SectorSet, SaveMap
    <2> QED
        BY <1>0, <1>8, <2>1 DEF UseMap, StaysTyped
<1>9. CASE Close
    <2>1. TreeShape(<<>>)
        <3>1. DOMAIN <<>> = {}
            OBVIOUS
        <3> QED
            BY <3>1 DEF TreeShape
    <2>2. descriptors'.at \in 0 .. MaxDescriptors
        BY <1>9, IsoAssumption DEF Close, Unread
    <2> QED
        BY <1>9, <2>1, <2>2 DEF Close, StaysTyped, Stages
<1>10. CASE \E path \in Paths : Lookup(path)
    <2>1. PICK path \in Paths : Lookup(path)
        BY <1>10
    <2>2. TreeShape(tree')
        BY <1>0, <2>1, LookupAdds
    <2>3. pc \in {"openFat", "openIso"} /\ UNCHANGED <<pc, formats>>
        BY <2>1 DEF Lookup
    <2> QED
        BY <1>0, <2>2, <2>3 DEF formats, StaysTyped
<1>11. CASE UNCHANGED vars
    BY <1>0, <1>11 DEF vars, StaysTyped
<1> QED
    BY <1>1, <1>2, <1>3, <1>4, <1>5, <1>6, <1>7, <1>8, <1>9, <1>10, <1>11 DEF Next, OpenStep

\* Every step of openImage, of a lookup and of the map's use.
LEMMA NextTypes == TypeInv /\ [Next]_vars => TypeInv'
<1> SUFFICES ASSUME TypeInv, [Next]_vars PROVE TypeInv'
    OBVIOUS
<1>1. StaysTyped
    BY StepTypes
<1>2. RealImage'
    BY ImageStays DEF TypeInv
<1>3. \A d \in DOMAIN tree' : d # <<>> => Front(d) \in DOMAIN tree' /\ tree'[Front(d)][Last(d)].dir
    BY <1>1 DEF StaysTyped, TreeShape
<1>4. (\A d \in DOMAIN tree : d # <<>> => Front(d) \in DOMAIN tree /\ Node(tree, d).dir)'
    BY <1>3 DEF Node
<1> QED
    BY <1>1, <1>2, <1>4 DEF TypeInv, TypeOK, StaysTyped

\* TypeOK: what is open is one volume of one format, or none; a directory that is
\* loaded is one, of a directory that is loaded.  openImage, filesystemNode.
THEOREM OpenTypes ==
    Spec => []TypeOK
<1>1. TypeInv => TypeOK
    BY DEF TypeInv
<1> QED
    BY <1>1, InitTypes, NextTypes, PTL DEF Spec

\* KeepsNodes: a lookup never takes away nodes that were handed out before
\* (filesystemNode, filesystemDirectoryLoad).
THEOREM LookupsKeep ==
    Spec => KeepsNodes
<1>1. ASSUME TypeInv, [Next]_vars
      PROVE  [\A path \in Paths : Lookup(path) =>
                    \A id \in DOMAIN tree : id \in DOMAIN tree' /\ tree'[id] = tree[id]]_vars
    <2> SUFFICES ASSUME NEW path \in Paths, Lookup(path)
                 PROVE  \A id \in DOMAIN tree : id \in DOMAIN tree' /\ tree'[id] = tree[id]
        OBVIOUS
    <2>1. Extends(tree, tree')
        BY <1>1, LookupAdds DEF TypeInv
    <2> QED
        BY <2>1 DEF Extends
<1> QED
    BY <1>1, InitTypes, NextTypes, PTL DEF Spec, KeepsNodes

-----------------------------------------------------------------------------
(* Which volume is opened *)

\* The least and the greatest number of a set.
LEMMA LeastIs ==
    ASSUME NEW S \in SUBSET Int, NEW x \in S, \A y \in S : x <= y
    PROVE  Min(S) = x
<1>1. Min(S) \in S /\ \A y \in S : Min(S) <= y
    BY DEF Min
<1>2. PICK m : m = Min(S)
    OBVIOUS
<1>3. x \in Int /\ m \in Int /\ m <= x /\ x <= m
    BY <1>1, <1>2
<1> QED
    BY <1>2, <1>3

\* The same of the greatest.
LEMMA GreatestIs ==
    ASSUME NEW S \in SUBSET Int, NEW x \in S, \A y \in S : y <= x
    PROVE  Max(S) = x
<1>1. Max(S) \in S /\ \A y \in S : Max(S) >= y
    BY DEF Max
<1>2. PICK m : m = Max(S)
    OBVIOUS
<1>3. x \in Int /\ m \in Int /\ m <= x /\ x <= m
    BY <1>1, <1>2
<1> QED
    BY <1>2, <1>3

\* A set of naturals that is not empty has a least one.
LEMMA LeastOf ==
    ASSUME NEW S \in SUBSET Nat, S # {}
    PROVE  Min(S) \in S /\ \A y \in S : Min(S) <= y
<1>1. PICK x \in S : \A y \in S : x <= y
    BY LeastNatural
<1>2. S \in SUBSET Int
    OBVIOUS
<1>3. Min(S) = x
    BY <1>1, <1>2, LeastIs
<1> QED
    BY <1>1, <1>3

-----------------------------------------------------------------------------
(* The descriptors of a CD *)

Continues(i) ==
    /\ HasSector(FirstDescriptor + i)
    /\ Descriptor(i).magic /\ Descriptor(i).type # "terminator"
IsPrimary(i) == Descriptor(i).type = "primary"
IsJoliet(i) == Descriptor(i).type = "supplementary" /\ Descriptor(i).joliet

\* The descriptors that were read, the last primary and the first Joliet one of them.
DescriptorsRead ==
    LET at == descriptors.at IN
    /\ \A i \in 0 .. at - 1 : Continues(i)
    /\ \/ descriptors.pvd = NoDescriptor /\ \A i \in 0 .. at - 1 : ~IsPrimary(i)
       \/ \E i \in 0 .. at - 1 : /\ IsPrimary(i) /\ descriptors.pvd = Descriptor(i)
                                 /\ \A j \in 0 .. at - 1 : IsPrimary(j) => j <= i
    /\ \/ descriptors.svd = NoDescriptor /\ \A i \in 0 .. at - 1 : ~IsJoliet(i)
       \/ \E i \in 0 .. at - 1 : /\ IsJoliet(i) /\ descriptors.svd = Descriptor(i)
                                 /\ \A j \in 0 .. at - 1 : IsJoliet(j) => i <= j

\* What OpensNamedVolume says of a CD.
BeforeTheEnd == {i \in 0 .. MaxDescriptors - 1 : \A j \in 0 .. i : Continues(j)}
JolietBefore == {i \in BeforeTheEnd : IsJoliet(i)}
PrimaryBefore == {i \in BeforeTheEnd : IsPrimary(i)}
CdIsNamed ==
    /\ PrimaryBefore # {}
    /\ isoVolume.lba = Descriptor(IF JolietBefore # {} THEN Min(JolietBefore) ELSE Max(PrimaryBefore)).lba

\* The loop of readVolumeDescriptors takes in one more descriptor.
LEMMA DescriptorTaken ==
    ASSUME DescriptorsRead, ReadDescriptor, descriptors.at \in 0 .. MaxDescriptors
    PROVE  DescriptorsRead'
<1>1. PICK at \in Nat : at = descriptors.at
    BY IsoAssumption
<1>2. Continues(at) /\ descriptors'.at = at + 1
    BY <1>1 DEF ReadDescriptor, ScansOn, Continues
<1>3. \A i \in 0 .. at + 1 - 1 : i = at \/ i \in 0 .. at - 1
    BY <1>1
<1>4. \A i \in 0 .. at - 1 : i \in 0 .. at + 1 - 1 /\ i <= at
    BY <1>1
<1>5. at \in 0 .. at + 1 - 1 /\ at <= at
    BY <1>1
<1>6. UNCHANGED source
    BY DEF ReadDescriptor
<1>7. PICK d : d = Descriptor(at)
    OBVIOUS
<1>8. /\ descriptors'.pvd = IF d.type = "primary" THEN d ELSE descriptors.pvd
      /\ descriptors'.svd = IF d.type = "supplementary" /\ d.joliet /\ descriptors.svd = NoDescriptor
                            THEN d ELSE descriptors.svd
    BY <1>1, <1>7 DEF ReadDescriptor, KeepsSvd
<1>9. \A i : /\ Continues(i)' = Continues(i) /\ IsPrimary(i)' = IsPrimary(i)
             /\ IsJoliet(i)' = IsJoliet(i) /\ Descriptor(i)' = Descriptor(i)
    BY <1>6 DEF Continues, IsPrimary, IsJoliet, HasSector, Descriptor, NoDescriptor
<1>10. NoDescriptor.type = "boot"
    BY DEF NoDescriptor
<1>11. IsPrimary(at) <=> d.type = "primary"
    BY <1>7 DEF IsPrimary
<1>12. IsJoliet(at) <=> d.type = "supplementary" /\ d.joliet
    BY <1>7 DEF IsJoliet
<1>13. \A i \in 0 .. at + 1 - 1 : Continues(i)
    BY <1>1, <1>2, <1>3 DEF DescriptorsRead
<1>14. \/ descriptors'.pvd = NoDescriptor /\ \A i \in 0 .. at + 1 - 1 : ~IsPrimary(i)
       \/ \E i \in 0 .. at + 1 - 1 : /\ IsPrimary(i) /\ descriptors'.pvd = Descriptor(i)
                                     /\ \A j \in 0 .. at + 1 - 1 : IsPrimary(j) => j <= i
    <2>1. CASE d.type = "primary"
        <3>1. IsPrimary(at) /\ descriptors'.pvd = Descriptor(at)
            BY <1>7, <1>8, <1>11, <2>1
        <3>2. \A j \in 0 .. at + 1 - 1 : j <= at
            BY <1>3, <1>4, <1>5
        <3> QED
            BY <1>5, <3>1, <3>2
    <2>2. CASE d.type # "primary"
        <3>1. ~IsPrimary(at) /\ descriptors'.pvd = descriptors.pvd
            BY <1>8, <1>11, <2>2
        <3> QED
            BY <1>1, <1>3, <1>4, <3>1 DEF DescriptorsRead
    <2> QED
        BY <2>1, <2>2
<1>15. \/ descriptors'.svd = NoDescriptor /\ \A i \in 0 .. at + 1 - 1 : ~IsJoliet(i)
       \/ \E i \in 0 .. at + 1 - 1 : /\ IsJoliet(i) /\ descriptors'.svd = Descriptor(i)
                                     /\ \A j \in 0 .. at + 1 - 1 : IsJoliet(j) => i <= j
    <2>1. CASE ~IsJoliet(at)
        <3>1. descriptors'.svd = descriptors.svd
            BY <1>8, <1>12, <2>1
        <3> QED
            BY <1>1, <1>3, <1>4, <2>1, <3>1 DEF DescriptorsRead
    <2>2. CASE IsJoliet(at) /\ descriptors.svd = NoDescriptor
        <3>1. descriptors'.svd = Descriptor(at)
            BY <1>7, <1>8, <1>12, <2>2
        <3>2. \A i \in 0 .. at - 1 : ~IsJoliet(i)
            <4>1. \A i : IsJoliet(i) => Descriptor(i) # NoDescriptor
                BY <1>10 DEF IsJoliet
            <4> QED
                BY <1>1, <2>2, <4>1 DEF DescriptorsRead
        <3> QED
            BY <1>3, <1>5, <2>2, <3>1, <3>2
    <2>3. CASE IsJoliet(at) /\ descriptors.svd # NoDescriptor
        <3>1. descriptors'.svd = descriptors.svd
            BY <1>8, <2>3
        <3>2. PICK i \in 0 .. at - 1 : /\ IsJoliet(i) /\ descriptors.svd = Descriptor(i)
                                       /\ \A j \in 0 .. at - 1 : IsJoliet(j) => i <= j
            BY <1>1, <2>3 DEF DescriptorsRead
        <3>3. \A j \in 0 .. at + 1 - 1 : IsJoliet(j) => i <= j
            BY <1>3, <1>4, <3>2
        <3> QED
            BY <1>4, <3>1, <3>2, <3>3
    <2> QED
        BY <2>1, <2>2, <2>3
<1> QED
    BY <1>2, <1>9, <1>13, <1>14, <1>15 DEF DescriptorsRead

\* When the loop is over, the volume of the first Joliet descriptor or else of the
\* last primary one is opened, or none.
LEMMA CdOpened ==
    ASSUME DescriptorsRead, LoadVolume, descriptors.at \in 0 .. MaxDescriptors, pc' = "openIso"
    PROVE  CdIsNamed'
<1>1. PICK at \in Nat : at = descriptors.at /\ at <= MaxDescriptors /\ MaxDescriptors \in Nat
    BY IsoAssumption
<1>2. UNCHANGED source
    BY DEF LoadVolume
<1>3. /\ BeforeTheEnd' = BeforeTheEnd /\ JolietBefore' = JolietBefore /\ PrimaryBefore' = PrimaryBefore
      /\ \A i : Descriptor(i)' = Descriptor(i)
    BY <1>2 DEF BeforeTheEnd, JolietBefore, PrimaryBefore, Continues, IsPrimary, IsJoliet, HasSector,
                Descriptor, NoDescriptor
<1>4. at = MaxDescriptors \/ ~Continues(at)
    BY <1>1 DEF LoadVolume, ScansOn, Continues
<1>5. BeforeTheEnd = 0 .. at - 1
    <2>1. ASSUME NEW i \in 0 .. at - 1 PROVE i \in BeforeTheEnd
        <3>1. i \in 0 .. MaxDescriptors - 1 /\ \A j \in 0 .. i : j \in 0 .. at - 1
            BY <1>1
        <3> QED
            BY <1>1, <3>1 DEF BeforeTheEnd, DescriptorsRead
    <2>2. ASSUME NEW i \in BeforeTheEnd, i \notin 0 .. at - 1 PROVE FALSE
        <3>1. i \in 0 .. MaxDescriptors - 1 /\ at \in 0 .. i /\ at # MaxDescriptors
            BY <1>1, <2>2 DEF BeforeTheEnd
        <3> QED
            BY <1>4, <2>2, <3>1 DEF BeforeTheEnd
    <2> QED
        BY <2>1, <2>2
<1>6. JolietBefore \in SUBSET Int /\ PrimaryBefore \in SUBSET Int
    BY <1>5 DEF JolietBefore, PrimaryBefore
<1>7. descriptors.pvd # NoDescriptor
    BY DEF LoadVolume
<1>8. isoVolume'.lba = (IF descriptors.svd # NoDescriptor THEN descriptors.svd ELSE descriptors.pvd).lba
    BY DEF LoadVolume
<1>9. PICK p \in 0 .. at - 1 : /\ IsPrimary(p) /\ descriptors.pvd = Descriptor(p)
                               /\ \A j \in 0 .. at - 1 : IsPrimary(j) => j <= p
    BY <1>1, <1>7 DEF DescriptorsRead
<1>10. p \in PrimaryBefore /\ Max(PrimaryBefore) = p
    <2>1. p \in PrimaryBefore /\ \A j \in PrimaryBefore : j <= p
        BY <1>5, <1>9 DEF PrimaryBefore
    <2> QED
        BY <1>6, <2>1, GreatestIs
<1>11. CASE descriptors.svd = NoDescriptor
    <2>1. JolietBefore = {}
        <3>1. \A i : IsJoliet(i) => Descriptor(i) # NoDescriptor
            BY DEF IsJoliet, NoDescriptor
        <3> QED
            BY <1>1, <1>5, <1>11, <3>1 DEF DescriptorsRead, JolietBefore
    <2> QED
        BY <1>3, <1>8, <1>9, <1>10, <1>11, <2>1 DEF CdIsNamed
<1>12. CASE descriptors.svd # NoDescriptor
    <2>1. PICK s \in 0 .. at - 1 : /\ IsJoliet(s) /\ descriptors.svd = Descriptor(s)
                                   /\ \A j \in 0 .. at - 1 : IsJoliet(j) => s <= j
        BY <1>1, <1>12 DEF DescriptorsRead
    <2>2. s \in JolietBefore /\ \A j \in JolietBefore : s <= j
        BY <1>5, <2>1 DEF JolietBefore
    <2>3. Min(JolietBefore) = s
        BY <1>6, <2>2, LeastIs
    <2>4. JolietBefore # {}
        BY <2>2
    <2> QED
        BY <1>3, <1>8, <1>10, <1>12, <2>1, <2>3, <2>4 DEF CdIsNamed
<1> QED
    BY <1>11, <1>12

-----------------------------------------------------------------------------
(* The partition tables of a FAT image *)

\* What is read at any block has the form of a boot record.
LEMMA BootShape ==
    ASSUME RealImage, NEW r
    PROVE  /\ DOMAIN Boot(r).parts \in SUBSET Nat
           /\ \A i \in DOMAIN Boot(r).parts : Boot(r).parts[i].start \in Nat
           /\ r \notin DOMAIN source.boot => DOMAIN Boot(r).parts = {}
<1>1. CASE r \in DOMAIN source.boot
    <2>1. PICK b : b = Boot(r)
        OBVIOUS
    <2>2. b \in BootRecords
        BY <1>1, <2>1 DEF Boot, RealImage
    <2>3. PICK parts : parts = b.parts
        OBVIOUS
    <2>4. parts \in Seq([type : {"fat", "extended", "other"}, start : Nat, active : BOOLEAN])
        BY <2>2, <2>3 DEF BootRecords
    <2>5. DOMAIN parts = 1 .. Len(parts) /\ Len(parts) \in Nat
        BY <2>4
    <2>6. \A i \in 1 .. Len(parts) : parts[i] \in [type : {"fat", "extended", "other"}, start : Nat, active : BOOLEAN]
        <3>1. \A S : parts \in Seq(S) => \A i \in 1 .. Len(parts) : parts[i] \in S
            OBVIOUS
        <3> QED
            BY <2>4, <3>1
    <2>7. \A i \in 1 .. Len(parts) : parts[i].start \in Nat
        BY <2>6
    <2>8. DOMAIN parts \in SUBSET Nat
        BY <2>5
    <2> QED
        BY <1>1, <2>1, <2>3, <2>5, <2>7, <2>8
<1>2. CASE r \notin DOMAIN source.boot
    <2>1. Boot(r) = NoBoot
        BY <1>2 DEF Boot
    <2>2. NoBoot.parts = <<>> /\ DOMAIN <<>> = {}
        BY DEF NoBoot
    <2> QED
        BY <2>1, <2>2
<1> QED
    BY <1>1, <1>2

\* The first of the parts at some places is one of them.
LEMMA FirstOf ==
    ASSUME RealImage, NEW r, NEW places \in SUBSET DOMAIN Boot(r).parts, places # {}
    PROVE  /\ Min(places) \in places /\ \A i \in places : Min(places) <= i
           /\ FirstStart(r, places) = Boot(r).parts[Min(places)].start
           /\ FirstStart(r, places) \in Nat
<1>1. places \in SUBSET Nat
    BY BootShape
<1>2. Min(places) \in places /\ \A i \in places : Min(places) <= i
    BY <1>1, LeastOf
<1>3. FirstStart(r, places) = Boot(r).parts[Min(places)].start
    BY DEF FirstStart
<1> QED
    BY <1>2, <1>3, BootShape

\* The starts that OpensNamedVolume speaks of.
ActiveStarts == Starts(0, LAMBDA p : p.type = "fat" /\ p.active)
FatStarts(r) == Starts(r, LAMBDA p : p.type = "fat")
ExtendedStarts == Starts(0, LAMBDA p : p.type = "extended")
LogicalsOf(base) == UNION {{(r + s) % Width : s \in FatStarts(r)} : r \in Records(base)}
LogicalStarts == UNION {LogicalsOf(base) : base \in ExtendedStarts}
FatIsNamed(n) ==
    n \in IF ActiveStarts # {} THEN ActiveStarts
          ELSE IF LogicalStarts # {} THEN LogicalStarts
          ELSE IF FatStarts(0) # {} THEN FatStarts(0) ELSE {0}

\* OpensNamedVolume in the terms above.
LEMMA NamedVolume ==
    OpensNamedVolume <=> /\ pc = "openFat" => FatIsNamed(fatVolume.start)
                         /\ pc = "openIso" => CdIsNamed
<1>1. (pc = "openFat" =>
        LET active == Starts(0, LAMBDA p : p.type = "fat" /\ p.active)
            primary == Starts(0, LAMBDA p : p.type = "fat")
            logical == UNION {UNION {{(r + s) % Width : s \in Starts(r, LAMBDA p : p.type = "fat")} :
                                r \in Records(base)} : base \in Starts(0, LAMBDA p : p.type = "extended")}
        IN  fatVolume.start \in IF active # {} THEN active
                                ELSE IF logical # {} THEN logical
                                ELSE IF primary # {} THEN primary ELSE {0})
      <=> (pc = "openFat" => FatIsNamed(fatVolume.start))
    BY DEF FatIsNamed, ActiveStarts, FatStarts, LogicalStarts, LogicalsOf, ExtendedStarts
<1>2. (pc = "openIso" =>
        LET before == {i \in 0 .. MaxDescriptors - 1 : \A j \in 0 .. i :
                            /\ HasSector(FirstDescriptor + j)
                            /\ Descriptor(j).magic /\ Descriptor(j).type # "terminator"}
            joliet == {i \in before : Descriptor(i).type = "supplementary" /\ Descriptor(i).joliet}
            primary == {i \in before : Descriptor(i).type = "primary"}
        IN  /\ primary # {}
            /\ isoVolume.lba = Descriptor(IF joliet # {} THEN Min(joliet) ELSE Max(primary)).lba)
      <=> (pc = "openIso" => CdIsNamed)
    BY DEF CdIsNamed, PrimaryBefore, JolietBefore, BeforeTheEnd, Continues, IsPrimary, IsJoliet
<1> QED
    BY <1>1, <1>2 DEF OpensNamedVolume

\* The starts of parts, by their places.
LEMMA StartsByPlace ==
    ASSUME RealImage
    PROVE  /\ \A r, s : s \in FatStarts(r) <=> \E i \in FatParts(r) : s = Boot(r).parts[i].start
           /\ \A s : s \in ActiveStarts <=> \E i \in ActiveParts : s = Boot(0).parts[i].start
           /\ \A s : s \in ExtendedStarts <=> \E i \in ExtendedParts : s = Boot(0).parts[i].start
           /\ \A s : s \in ExtendedStarts => s \in Nat /\ s > 0
<1>1. \A r, s : s \in FatStarts(r) <=> \E i \in FatParts(r) : s = Boot(r).parts[i].start
    BY DEF FatStarts, Starts, FatParts, IsFatPart, Range
<1>2. \A s : s \in ActiveStarts <=> \E i \in ActiveParts : s = Boot(0).parts[i].start
    BY DEF ActiveStarts, Starts, ActiveParts, FatParts, IsFatPart, Range
<1>3. \A s : s \in ExtendedStarts <=> \E i \in ExtendedParts : s = Boot(0).parts[i].start
    BY DEF ExtendedStarts, Starts, ExtendedParts, IsExtended, Range
<1>4. \A i \in ExtendedParts : Boot(0).parts[i].start \in Nat /\ Boot(0).parts[i].start > 0
    BY BootShape DEF ExtendedParts
<1> QED
    BY <1>1, <1>2, <1>3, <1>4

\* The links of a record that lead on, by their places.
LinkParts(base, r) ==
    {i \in DOMAIN Boot(r).parts :
        LET p == Boot(r).parts[i] IN IsExtended(p) /\ p.start > 0 /\ (base + p.start) % Width > 0}

\* A record leads to one other at most.
LEMMA OneLink ==
    ASSUME RealImage, NEW base \in Nat, NEW r
    PROVE  /\ LinkOf(base, r) = IF LinkParts(base, r) = {} THEN {}
                                ELSE {(base + FirstStart(r, LinkParts(base, r))) % Width}
           /\ LinkOf(base, r) \in SUBSET (Nat \ {0})
<1> DEFINE links == {i \in DOMAIN Boot(r).parts :
                        LET p == Boot(r).parts[i] IN
                        p.type = "extended" /\ p.start > 0 /\ (base + p.start) % Width # 0}
<1>0. Width \in Nat /\ Width > 0
    BY FatAssumption
<1>1. \A i \in DOMAIN Boot(r).parts : (base + Boot(r).parts[i].start) % Width \in Nat
    BY <1>0, BootShape
<1>2. links = LinkParts(base, r)
    <2>1. \A n \in Nat : n > 0 <=> n # 0
        OBVIOUS
    <2> QED
        BY <1>1, <2>1 DEF LinkParts, IsExtended
<1>3. LinkOf(base, r) = {(base + Boot(r).parts[i].start) % Width : i \in {i \in links : \A j \in links : i <= j}}
    BY DEF LinkOf
<1> HIDE DEF links
<1>4. CASE links = {}
    BY <1>2, <1>3, <1>4
<1>5. CASE links # {}
    <2>1. links \in SUBSET DOMAIN Boot(r).parts
        BY <1>2 DEF LinkParts
    <2>2. /\ Min(links) \in links /\ \A i \in links : Min(links) <= i
          /\ FirstStart(r, links) = Boot(r).parts[Min(links)].start
        BY <1>5, <2>1, FirstOf
    <2>3. links \in SUBSET Nat
        BY <2>1, BootShape
    <2>4. {i \in links : \A j \in links : i <= j} = {Min(links)}
        <3>1. ASSUME NEW i \in links, \A j \in links : i <= j PROVE i = Min(links)
            <4>1. PICK m : m = Min(links)
                OBVIOUS
            <4>2. i \in Nat /\ m \in Nat /\ i <= m /\ m <= i
                BY <2>2, <2>3, <3>1, <4>1
            <4> QED
                BY <4>1, <4>2
        <3> QED
            BY <2>2, <3>1
    <2>5. LinkOf(base, r) = {(base + Boot(r).parts[Min(links)].start) % Width}
        BY <1>3, <2>4
    <2>6. (base + Boot(r).parts[Min(links)].start) % Width \in Nat \ {0}
        <3>1. (base + Boot(r).parts[Min(links)].start) % Width > 0
            BY <1>2, <2>2 DEF LinkParts
        <3> QED
            BY <1>1, <2>1, <2>2, <3>1
    <2> QED
        BY <1>2, <1>5, <2>2, <2>5, <2>6
<1> QED
    BY <1>4, <1>5

-----------------------------------------------------------------------------
(* The records that can be reached from an extended partition *)

Further(base, X) == X \cup UNION {LinkOf(base, r) : r \in {q \in X : HasBlock(q)}}
Reaches(base, g) ==
    g \in [0 .. Width -> SUBSET Nat] /\ g[0] = {base} /\ \A i \in 1 .. Width : g[i] = Further(base, g[i - 1])

\* Records takes as many steps as there are boot records, which are enough.
LEMMA RecordsReached ==
    ASSUME RealImage, NEW base \in Nat
    PROVE  \E g : /\ Reaches(base, g)
                  /\ Records(base) = {r \in g[Cardinality(DOMAIN source.boot)] : HasBlock(r)}
<1> DEFINE V == SUBSET Nat
           F == [X \in V |-> Further(base, X)]
           Eq(h) == h = [n \in 0 .. Width |->
                            IF n = 0 THEN {base}
                            ELSE h[n - 1] \cup UNION {LinkOf(base, r) : r \in {q \in h[n - 1] : HasBlock(q)}}]
           reached == CHOOSE h : Eq(h)
<1>0. Width \in Nat /\ Width > 0
    BY FatAssumption
<1>1. F \in [V -> V]
    <2>1. \A X \in V : Further(base, X) \in V
        BY OneLink DEF Further
    <2> QED
        BY <2>1
<1>2. {base} \in V
    OBVIOUS
<1>3. PICK e : Visits(e, F, {base}, Width, V)
    <2> HIDE DEF F, V
    <2> QED
        BY <1>0, <1>1, <1>2, Iterates, Zenon
<1>4. e \in [0 .. Width -> V] /\ e[0] = {base} /\ \A i \in 1 .. Width : e[i] = Further(base, e[i - 1])
    <2>1. e \in [0 .. Width -> V] /\ e[0] = {base} /\ \A i \in 1 .. Width : e[i] = F[e[i - 1]]
        BY <1>3 DEF Visits
    <2>2. \A i \in 1 .. Width : e[i - 1] \in V
        <3>1. \A i \in 1 .. Width : i - 1 \in 0 .. Width
            BY <1>0
        <3> HIDE DEF V
        <3> QED
            BY <2>1, <3>1
    <2> QED
        BY <2>1, <2>2
<1>5. Eq(e)
    <2>1. ASSUME NEW n \in 0 .. Width
          PROVE  e[n] = IF n = 0 THEN {base}
                        ELSE e[n - 1] \cup UNION {LinkOf(base, r) : r \in {q \in e[n - 1] : HasBlock(q)}}
        <3>1. n = 0 \/ n \in 1 .. Width
            BY <1>0
        <3>2. CASE n = 0
            BY <1>4, <3>2
        <3>3. CASE n \in 1 .. Width
            <4>1. n # 0
                BY <3>3
            <4> QED
                BY <1>4, <3>3, <4>1 DEF Further
        <3> QED
            BY <3>1, <3>2, <3>3
    <2>2. e = [n \in 0 .. Width |-> e[n]]
        BY <1>4
    <2> QED
        BY <2>1, <2>2
<1>6. Eq(reached)
    <2> HIDE DEF Eq
    <2> QED
        BY <1>5
<1>7. Records(base) = {r \in reached[Cardinality(DOMAIN source.boot)] : HasBlock(r)}
    BY DEF Records
<1> HIDE DEF reached
<1>8. \A i \in 0 .. Width : i \in {n \in 0 .. Width : reached[n] = e[n]}
    <2> DEFINE S == {n \in 0 .. Width : reached[n] = e[n]}
    <2>1. 0 \in S
        <3>1. reached[0] = {base}
            BY <1>0, <1>6
        <3>2. reached[0] = e[0] /\ 0 \in 0 .. Width
            BY <1>0, <1>4, <3>1
        <3> QED
            BY <3>2
    <2>2. ASSUME NEW i \in 1 .. Width, i - 1 \in S PROVE i \in S
        <3>1. i \in 0 .. Width /\ i # 0 /\ reached[i - 1] = e[i - 1]
            BY <2>2
        <3>2. reached[i] = reached[i - 1] \cup UNION {LinkOf(base, r) : r \in {q \in reached[i - 1] : HasBlock(q)}}
            BY <1>6, <3>1
        <3>3. reached[i] = Further(base, e[i - 1])
            BY <3>1, <3>2 DEF Further
        <3> QED
            BY <1>4, <3>1, <3>3
    <2> HIDE DEF S
    <2>3. \A i \in 0 .. Width : i \in S
        BY <1>0, <2>1, <2>2, Induct
    <2> QED
        BY <2>3 DEF S
<1>9. Cardinality(DOMAIN source.boot) \in 0 .. Width
    <2>1. IsFiniteSet(0 .. Width - 1) /\ Cardinality(0 .. Width - 1) = Width
        <3>1. 0 \in Int /\ Width - 1 \in Int
            BY <1>0
        <3>2. /\ IsFiniteSet(0 .. Width - 1)
              /\ Cardinality(0 .. Width - 1) = IF 0 > Width - 1 THEN 0 ELSE Width - 1 - 0 + 1
            BY <3>1, FS_Interval
        <3> QED
            BY <1>0, <3>2
    <2>2. DOMAIN source.boot \in SUBSET (0 .. Width - 1)
        BY DEF RealImage
    <2>3. IsFiniteSet(DOMAIN source.boot) /\ Cardinality(DOMAIN source.boot) <= Width
        BY <2>1, <2>2, FS_Subset
    <2>4. Cardinality(DOMAIN source.boot) \in Nat
        BY <2>3, FS_CardinalityType
    <2> QED
        BY <1>0, <2>3, <2>4
<1>10. reached[Cardinality(DOMAIN source.boot)] = e[Cardinality(DOMAIN source.boot)]
    BY <1>8, <1>9
<1>11. Reaches(base, e)
    BY <1>4 DEF Reaches
<1> QED
    BY <1>7, <1>10, <1>11

\* A record is never lost again on the way.
LEMMA ReachGrows ==
    ASSUME NEW base \in Nat, NEW g, Reaches(base, g), NEW m \in 0 .. Width, NEW n \in m .. Width
    PROVE  g[m] \subseteq g[n] /\ g[n] \in SUBSET Nat
<1>0. Width \in Nat
    BY FatAssumption
<1>1. g \in [0 .. Width -> SUBSET Nat] /\ \A i \in 1 .. Width : g[i] = Further(base, g[i - 1])
    BY DEF Reaches
<1> DEFINE S == {k \in 0 .. Width : k >= m => g[m] \subseteq g[k]}
<1>2. 0 \in S
    <2>1. 0 \in 0 .. Width /\ (0 >= m => m = 0)
        BY <1>0
    <2> QED
        BY <2>1
<1>3. ASSUME NEW i \in 1 .. Width, i - 1 \in S PROVE i \in S
    <2>1. i \in 0 .. Width /\ (i >= m => i = m \/ i - 1 >= m)
        BY <1>3
    <2>2. g[i - 1] \subseteq g[i]
        BY <1>1 DEF Further
    <2> QED
        BY <1>3, <2>1, <2>2
<1> HIDE DEF S
<1>4. \A i \in 0 .. Width : i \in S
    BY <1>0, <1>2, <1>3, Induct
<1>5. n \in 0 .. Width /\ n >= m
    BY <1>0
<1> QED
    BY <1>1, <1>4, <1>5 DEF S

\* No record that an extended partition leads to has a partition.
Barren(base) == \A r \in Records(base) : FatParts(r) = {}

\* The chain of records from an extended partition, so far: current is the next one
\* of it, and no record before it has a partition.
Walking ==
    LET base == search.base
        current == search.current
        visited == search.visited
    IN  /\ base \in ExtendedStarts /\ current \in Nat
        /\ IsFiniteSet(visited) /\ \A q \in visited : q \in Nat /\ HasBlock(q) /\ FatParts(q) = {}
        /\ base \in visited \cup {current}
        /\ \A q \in visited : LinkOf(base, q) \subseteq visited \cup {current}
        /\ current # 0 =>
              /\ visited \subseteq DOMAIN source.boot
              /\ \A g : Reaches(base, g) => current \in g[Cardinality(visited)]

\* filesystemLoad has no active partition to open, remembers the first one, and the
\* extended partitions it is done with lead to none.
SearchFields == {"extended", "base", "current", "visited", "fallback"}
Searching ==
    /\ DOMAIN search = SearchFields
    /\ ActiveParts = {}
    /\ search.fallback = FirstStart(0, FatParts(0))
    /\ search.extended \subseteq ExtendedParts
    /\ \A i \in ExtendedParts \ search.extended : \A s :
          s = Boot(0).parts[i].start => s = search.base \/ Barren(s)
    /\ search.base # 0 => Walking
    /\ search.base = 0 => search.current = 0

\* There are no more boot records than block numbers.
LEMMA BootCount ==
    ASSUME RealImage
    PROVE  /\ IsFiniteSet(DOMAIN source.boot) /\ Cardinality(DOMAIN source.boot) \in 0 .. Width
           /\ Width \in Nat
<1>0. Width \in Nat /\ Width > 0
    BY FatAssumption
<1>1. IsFiniteSet(0 .. Width - 1) /\ Cardinality(0 .. Width - 1) = Width
    <2>1. 0 \in Int /\ Width - 1 \in Int
        BY <1>0
    <2>2. /\ IsFiniteSet(0 .. Width - 1)
          /\ Cardinality(0 .. Width - 1) = IF 0 > Width - 1 THEN 0 ELSE Width - 1 - 0 + 1
        BY <2>1, FS_Interval
    <2> QED
        BY <1>0, <2>2
<1>2. DOMAIN source.boot \in SUBSET (0 .. Width - 1)
    BY DEF RealImage
<1>3. IsFiniteSet(DOMAIN source.boot) /\ Cardinality(DOMAIN source.boot) <= Width
    BY <1>1, <1>2, FS_Subset
<1>4. Cardinality(DOMAIN source.boot) \in Nat
    BY <1>3, FS_CardinalityType
<1> QED
    BY <1>0, <1>3, <1>4

\* When a chain has ended, all that its partition leads to was visited.
LEMMA ChainIsBarren ==
    ASSUME RealImage, Walking, ChainEnds
    PROVE  Barren(search.base)
<1>1. PICK base : base = search.base
    OBVIOUS
<1>2. PICK visited : visited = search.visited
    OBVIOUS
<1>3. PICK current : current = search.current
    OBVIOUS
<1>4. /\ base \in ExtendedStarts /\ current \in Nat
      /\ \A q \in visited : q \in Nat /\ HasBlock(q) /\ FatParts(q) = {}
      /\ base \in visited \cup {current}
      /\ \A q \in visited : LinkOf(base, q) \subseteq visited \cup {current}
    BY <1>1, <1>2, <1>3 DEF Walking
<1>5. base \in Nat /\ base # 0
    <2>1. base \in Nat /\ base > 0
        BY <1>4, StartsByPlace
    <2> QED
        BY <2>1
<1>6. current = 0 \/ current \in visited \/ ~HasBlock(current)
    BY <1>2, <1>3 DEF ChainEnds
<1>7. PICK g : /\ Reaches(base, g)
               /\ Records(base) = {r \in g[Cardinality(DOMAIN source.boot)] : HasBlock(r)}
    BY <1>5, RecordsReached
<1>8. g[0] = {base} /\ \A i \in 1 .. Width : g[i] = Further(base, g[i - 1])
    BY <1>7 DEF Reaches
<1> DEFINE S == {n \in 0 .. Width : \A q \in g[n] : HasBlock(q) => q \in visited}
<1>9. 0 \in S
    <2>1. 0 \in 0 .. Width
        BY BootCount
    <2>2. HasBlock(base) => base \in visited
        BY <1>4, <1>5, <1>6
    <2> QED
        BY <1>8, <2>1, <2>2
<1>10. ASSUME NEW n \in 1 .. Width, n - 1 \in S PROVE n \in S
    <2>1. n \in 0 .. Width
        OBVIOUS
    <2>2. ASSUME NEW q \in g[n], HasBlock(q) PROVE q \in visited
        <3>1. q \in g[n - 1] \/ \E r \in g[n - 1] : HasBlock(r) /\ q \in LinkOf(base, r)
            BY <1>8, <2>2 DEF Further
        <3>2. CASE q \in g[n - 1]
            BY <1>10, <2>2, <3>2
        <3>3. CASE \E r \in g[n - 1] : HasBlock(r) /\ q \in LinkOf(base, r)
            <4>1. PICK r \in g[n - 1] : HasBlock(r) /\ q \in LinkOf(base, r)
                BY <3>3
            <4>2. r \in visited
                BY <1>10, <4>1
            <4>3. q \in visited \cup {current}
                BY <1>4, <4>1, <4>2
            <4>4. q # 0
                BY <1>5, <4>1, OneLink
            <4> QED
                BY <1>6, <2>2, <4>3, <4>4
        <3> QED
            BY <3>1, <3>2, <3>3
    <2> QED
        BY <2>1, <2>2
<1> HIDE DEF S
<1>11. \A n \in 0 .. Width : n \in S
    BY <1>9, <1>10, BootCount, Induct
<1>12. \A r \in Records(base) : r \in visited
    BY <1>7, <1>11, BootCount DEF S
<1> QED
    BY <1>1, <1>4, <1>12 DEF Barren

\* The partition table of block 0 is read.
LEMMA TableSearched ==
    ASSUME RealImage, ReadPartitions
    PROVE  /\ pc' = "fatExtended" => Searching'
           /\ pc' = "openFat" => FatIsNamed(fatVolume'.start)
<1>1. UNCHANGED source
    BY DEF ReadPartitions
<1>2. CASE ActiveParts # {}
    <2>1. PartitionOpen(FirstStart(0, ActiveParts))
        BY <1>2 DEF ReadPartitions
    <2>2. pc' # "fatExtended" /\ (pc' = "openFat" => fatVolume'.start = FirstStart(0, ActiveParts))
        BY <2>1 DEF PartitionOpen, Opened
    <2>3. ActiveParts \in SUBSET DOMAIN Boot(0).parts
        BY DEF ActiveParts, FatParts
    <2>4. FirstStart(0, ActiveParts) \in ActiveStarts
        BY <1>2, <2>3, FirstOf, StartsByPlace
    <2> QED
        BY <2>2, <2>4 DEF FatIsNamed
<1>3. CASE ActiveParts = {}
    <2>1. /\ pc' = "fatExtended" /\ search'.extended = ExtendedParts /\ search'.base = 0
          /\ search'.current = 0 /\ search'.fallback = FirstStart(0, FatParts(0))
        BY <1>3 DEF ReadPartitions, NoSearch
    <2>2. /\ ActiveParts' = ActiveParts /\ ExtendedParts' = ExtendedParts
          /\ FirstStart(0, FatParts(0))' = FirstStart(0, FatParts(0))
        BY <1>1 DEF ActiveParts, ExtendedParts, FirstStart, FatParts, Boot, NoBoot
    <2>3. DOMAIN search' = SearchFields
        BY <1>3 DEF ReadPartitions, NoSearch, SearchFields
    <2>4. ActiveParts' = {} /\ search'.extended \subseteq ExtendedParts' /\ ExtendedParts' \ search'.extended = {}
        BY <1>3, <2>1, <2>2
    <2> QED
        BY <1>3, <2>1, <2>2, <2>3, <2>4 DEF Searching
<1> QED
    BY <1>2, <1>3

\* What only depends on the image stays what it is.
LEMMA ImageSame ==
    ASSUME UNCHANGED source
    PROVE  /\ ActiveParts' = ActiveParts /\ ExtendedParts' = ExtendedParts
           /\ FirstStart(0, FatParts(0))' = FirstStart(0, FatParts(0))
           /\ ExtendedStarts' = ExtendedStarts
           /\ \A r : /\ FatParts(r)' = FatParts(r) /\ Boot(r)' = Boot(r)
                     /\ HasBlock(r)' = HasBlock(r) /\ Barren(r)' = Barren(r)
           /\ \A b, r : LinkOf(b, r)' = LinkOf(b, r)
           /\ \A b, g : Reaches(b, g)' = Reaches(b, g)
<1>1. ActiveParts' = ActiveParts /\ ExtendedParts' = ExtendedParts
    BY DEF ActiveParts, ExtendedParts, FatParts, Boot, NoBoot
<1>2. FirstStart(0, FatParts(0))' = FirstStart(0, FatParts(0))
    BY DEF FirstStart, FatParts, Boot, NoBoot
<1>3. ExtendedStarts' = ExtendedStarts
    BY DEF ExtendedStarts, Starts, Boot, NoBoot
<1>4. \A r : FatParts(r)' = FatParts(r) /\ Boot(r)' = Boot(r) /\ HasBlock(r)' = HasBlock(r)
    BY DEF FatParts, Boot, NoBoot, HasBlock
<1>5. \A r : Records(r)' = Records(r)
    BY DEF Records, LinkOf, Boot, NoBoot, HasBlock
<1>6. \A r : Barren(r)' = Barren(r)
    BY <1>4, <1>5 DEF Barren
<1>7. \A b, r : LinkOf(b, r)' = LinkOf(b, r)
    BY DEF LinkOf, Boot, NoBoot
<1>8. \A b, g : Reaches(b, g)' = Reaches(b, g)
    <2>1. \A b, X : Further(b, X)' = Further(b, X)
        BY <1>4, <1>7 DEF Further
    <2> QED
        BY <2>1 DEF Reaches
<1> QED
    BY <1>1, <1>2, <1>3, <1>4, <1>6, <1>7, <1>8

\* The next extended partition is taken up.
LEMMA BaseSearched ==
    ASSUME RealImage, Searching, NextBase
    PROVE  Searching'
<1>1. UNCHANGED source /\ ChainEnds /\ search.extended # {}
    BY DEF NextBase
<1>2. search.extended \in SUBSET DOMAIN Boot(0).parts
    BY DEF Searching, ExtendedParts
<1>3. PICK i : i = Min(search.extended)
    OBVIOUS
<1>4. PICK start : start = FirstStart(0, search.extended)
    OBVIOUS
<1>5. i \in search.extended /\ start = Boot(0).parts[i].start
    BY <1>1, <1>2, <1>3, <1>4, FirstOf
<1>6. /\ search'.extended = search.extended \ {i} /\ search'.base = start /\ search'.current = start
      /\ search'.visited = {} /\ search'.fallback = search.fallback
    <2>1. search' = [search EXCEPT !.extended = search.extended \ {i}, !.base = start, !.current = start,
                                   !.visited = {}]
        BY <1>3, <1>4 DEF NextBase
    <2>2. DOMAIN search = SearchFields
        BY DEF Searching
    <2> QED
        BY <2>1, <2>2 DEF SearchFields
<1>7. DOMAIN search' = SearchFields
    BY DEF NextBase, Searching
<1>8. i \in ExtendedParts /\ start \in ExtendedStarts /\ start \in Nat /\ start # 0
    <2>1. i \in ExtendedParts
        BY <1>5 DEF Searching
    <2>2. start \in ExtendedStarts
        BY <1>5, <2>1, StartsByPlace
    <2>3. start \in Nat /\ start > 0
        BY <2>2, StartsByPlace
    <2> QED
        BY <2>1, <2>2, <2>3
<1>9. ASSUME NEW j \in ExtendedParts, j \notin search.extended PROVE Barren(Boot(0).parts[j].start)
    <2>1. CASE search.base # 0
        <3>1. Barren(search.base)
            BY <1>1, <2>1, ChainIsBarren DEF Searching
        <3> QED
            BY <1>9, <3>1 DEF Searching
    <2>2. CASE search.base = 0
        <3>1. Boot(0).parts[j].start > 0 /\ Boot(0).parts[j].start \in Nat
            BY BootShape DEF ExtendedParts
        <3>2. Boot(0).parts[j].start # search.base
            BY <2>2, <3>1
        <3> QED
            BY <1>9, <3>2 DEF Searching
    <2> QED
        BY <2>1, <2>2
<1>10. \A j \in ExtendedParts \ search'.extended : \A s :
            s = Boot(0).parts[j].start => s = search'.base \/ Barren(s)
    BY <1>5, <1>6, <1>9
<1>11. Walking'
    <2>1. IsFiniteSet({}) /\ Cardinality({}) = 0
        BY FS_EmptySet
    <2>2. \A g : Reaches(start, g) => start \in g[0]
        BY DEF Reaches
    <2>3. ExtendedStarts' = ExtendedStarts /\ \A b, g : Reaches(b, g)' = Reaches(b, g)
        BY <1>1, ImageSame
    <2>4. start \in ExtendedStarts' /\ \A g : Reaches(start, g)' => start \in g[0]
        BY <1>8, <2>2, <2>3
    <2> QED
        BY <1>6, <1>8, <2>1, <2>4 DEF Walking
<1>12. /\ ActiveParts' = ActiveParts /\ ExtendedParts' = ExtendedParts
       /\ FirstStart(0, FatParts(0))' = FirstStart(0, FatParts(0))
       /\ \A r : Boot(r)' = Boot(r) /\ Barren(r)' = Barren(r)
    BY <1>1, ImageSame
<1>13. (\A j \in ExtendedParts \ search.extended : \A s :
            s = Boot(0).parts[j].start => s = search.base \/ Barren(s))'
    BY <1>10, <1>12
<1>14. search'.extended \subseteq ExtendedParts
    BY <1>6 DEF Searching
<1> QED
    BY <1>6, <1>7, <1>8, <1>11, <1>12, <1>13, <1>14 DEF Searching

\* A record of a chain is read, and no partition found.
LEMMA RecordPassed ==
    ASSUME RealImage, Searching, ReadRecord, FatParts(search.current) = {}
    PROVE  Searching'
<1>1. PICK r : r = search.current
    OBVIOUS
<1>2. PICK base : base = search.base
    OBVIOUS
<1>3. PICK visited : visited = search.visited
    OBVIOUS
<1>4. UNCHANGED source /\ r # 0 /\ r \notin visited /\ HasBlock(r)
    BY <1>1, <1>3 DEF ReadRecord, ChainEnds
<1>5. base # 0 /\ Walking
    BY <1>1, <1>2, <1>4 DEF Searching
<1>6. base \in ExtendedStarts /\ base \in Nat
    BY <1>2, <1>5, StartsByPlace DEF Walking
<1>7. PICK next : next = IF LinkParts(base, r) = {} THEN 0 ELSE NextRecord(FirstStart(r, LinkParts(base, r)))
    OBVIOUS
<1>8. /\ search'.extended = search.extended /\ search'.base = base /\ search'.current = next
      /\ search'.visited = visited \cup {r} /\ search'.fallback = search.fallback
      /\ DOMAIN search' = SearchFields
    <2>1. search' = [search EXCEPT !.visited = @ \cup {r}, !.current = next]
        <3>1. LinkParts(base, r) = {i \in DOMAIN Boot(r).parts :
                    LET p == Boot(r).parts[i] IN IsExtended(p) /\ p.start > 0 /\ NextRecord(p.start) > 0}
            BY <1>2 DEF LinkParts, NextRecord
        <3> QED
            BY <1>1, <1>7, <3>1 DEF ReadRecord
    <2>2. DOMAIN search = SearchFields
        BY DEF Searching
    <2> QED
        BY <1>2, <1>3, <2>1, <2>2 DEF SearchFields
<1>9. /\ LinkOf(base, r) = IF LinkParts(base, r) = {} THEN {} ELSE {next}
      /\ next \in Nat /\ (next # 0 => LinkParts(base, r) # {})
    <2>1. NextRecord(FirstStart(r, LinkParts(base, r))) = (base + FirstStart(r, LinkParts(base, r))) % Width
        BY <1>2 DEF NextRecord
    <2>2. LinkOf(base, r) = IF LinkParts(base, r) = {} THEN {} ELSE {next}
        BY <1>6, <1>7, <2>1, OneLink
    <2>3. next \in Nat
        BY <1>6, <1>7, <2>2, OneLink
    <2> QED
        BY <1>7, <2>2, <2>3
<1>10. /\ IsFiniteSet(visited) /\ \A q \in visited : q \in Nat /\ HasBlock(q) /\ FatParts(q) = {}
       /\ base \in visited \cup {r} /\ r \in Nat
       /\ \A q \in visited : LinkOf(base, q) \subseteq visited \cup {r}
       /\ visited \subseteq DOMAIN source.boot
       /\ \A g : Reaches(base, g) => r \in g[Cardinality(visited)]
    BY <1>1, <1>2, <1>3, <1>4, <1>5 DEF Walking
<1>11. PICK seen : seen = visited \cup {r}
    OBVIOUS
<1>12. /\ IsFiniteSet(seen) /\ Cardinality(seen) = Cardinality(visited) + 1
       /\ Cardinality(visited) \in Nat
    BY <1>4, <1>10, <1>11, FS_AddElement, FS_CardinalityType
<1>13. /\ \A q \in seen : q \in Nat /\ HasBlock(q) /\ FatParts(q) = {}
       /\ base \in seen \cup {next}
       /\ \A q \in seen : LinkOf(base, q) \subseteq seen \cup {next}
    BY <1>1, <1>4, <1>9, <1>10, <1>11
<1>14. ASSUME next # 0
       PROVE  /\ seen \subseteq DOMAIN source.boot
              /\ \A g : Reaches(base, g) => next \in g[Cardinality(seen)]
    <2>1. r \in DOMAIN source.boot
        <3>1. DOMAIN Boot(r).parts # {}
            BY <1>9, <1>14 DEF LinkParts
        <3> QED
            BY <3>1, BootShape
    <2>2. seen \subseteq DOMAIN source.boot
        BY <1>10, <1>11, <2>1
    <2>3. Cardinality(seen) \in 1 .. Width
        <3>1. Cardinality(seen) <= Cardinality(DOMAIN source.boot)
            BY <2>2, BootCount, FS_Subset
        <3> QED
            BY <1>12, <3>1, BootCount
    <2>4. ASSUME NEW g, Reaches(base, g) PROVE next \in g[Cardinality(seen)]
        <3>1. PICK n : n = Cardinality(seen)
            OBVIOUS
        <3>2. n \in 1 .. Width /\ n - 1 = Cardinality(visited)
            BY <1>12, <2>3, <3>1
        <3>3. r \in g[n - 1]
            BY <1>10, <2>4, <3>2
        <3>4. g[n] = Further(base, g[n - 1])
            BY <2>4, <3>2 DEF Reaches
        <3>5. next \in LinkOf(base, r)
            BY <1>9, <1>14
        <3>6. next \in Further(base, g[n - 1])
            BY <1>4, <3>3, <3>5 DEF Further
        <3> QED
            BY <3>1, <3>4, <3>6
    <2> QED
        BY <2>2, <2>4
<1>15. /\ ActiveParts' = ActiveParts /\ ExtendedParts' = ExtendedParts
       /\ FirstStart(0, FatParts(0))' = FirstStart(0, FatParts(0))
       /\ ExtendedStarts' = ExtendedStarts
       /\ \A q : /\ FatParts(q)' = FatParts(q) /\ Boot(q)' = Boot(q)
                 /\ HasBlock(q)' = HasBlock(q) /\ Barren(q)' = Barren(q)
       /\ \A b, q : LinkOf(b, q)' = LinkOf(b, q)
       /\ \A b, g : Reaches(b, g)' = Reaches(b, g)
    BY <1>4, ImageSame
<1>16. Walking'
    <2>1. /\ base \in ExtendedStarts' /\ next \in Nat /\ IsFiniteSet(seen)
          /\ \A q \in seen : q \in Nat /\ HasBlock(q)' /\ FatParts(q)' = {}
          /\ base \in seen \cup {next}
          /\ \A q \in seen : LinkOf(base, q)' \subseteq seen \cup {next}
        BY <1>6, <1>9, <1>12, <1>13, <1>15
    <2>2. next # 0 => /\ seen \subseteq DOMAIN source'.boot
                      /\ \A g : Reaches(base, g)' => next \in g[Cardinality(seen)]
        BY <1>4, <1>14, <1>15
    <2>3. search'.base = base /\ search'.current = next /\ search'.visited = seen
        BY <1>8, <1>11
    <2> QED
        BY <2>1, <2>2, <2>3 DEF Walking
<1>17. (\A j \in ExtendedParts \ search.extended : \A s :
            s = Boot(0).parts[j].start => s = search.base \/ Barren(s))'
    BY <1>2, <1>8, <1>15 DEF Searching
<1> QED
    BY <1>2, <1>5, <1>8, <1>15, <1>16, <1>17 DEF Searching

\* A record names a partition, and that one is opened.
LEMMA RecordOpened ==
    ASSUME RealImage, Searching, ReadRecord, FatParts(search.current) # {}
    PROVE  pc' # "fatExtended" /\ (pc' = "openFat" => FatIsNamed(fatVolume'.start))
<1>1. PICK r : r = search.current
    OBVIOUS
<1>2. PICK base : base = search.base
    OBVIOUS
<1>3. PICK s : s = FirstStart(r, FatParts(r))
    OBVIOUS
<1>4. r # 0 /\ HasBlock(r)
    BY <1>1 DEF ReadRecord, ChainEnds
<1>5. base # 0 /\ Walking
    BY <1>1, <1>2, <1>4 DEF Searching
<1>6. base \in ExtendedStarts /\ base \in Nat
    BY <1>2, <1>5, StartsByPlace DEF Walking
<1>7. PartitionOpen((r + s) % Width)
    BY <1>1, <1>3 DEF ReadRecord, Logical
<1>8. pc' # "fatExtended" /\ (pc' = "openFat" => fatVolume'.start = (r + s) % Width)
    BY <1>7 DEF PartitionOpen, Opened
<1>9. s \in FatStarts(r)
    <2>1. FatParts(r) \in SUBSET DOMAIN Boot(r).parts /\ FatParts(r) # {}
        BY <1>1 DEF FatParts
    <2> QED
        BY <1>3, <2>1, FirstOf, StartsByPlace
<1>10. PICK g : /\ Reaches(base, g)
                /\ Records(base) = {q \in g[Cardinality(DOMAIN source.boot)] : HasBlock(q)}
    BY <1>6, RecordsReached
<1>11. PICK visited : visited = search.visited
    OBVIOUS
<1>12. /\ r \in g[Cardinality(visited)] /\ visited \subseteq DOMAIN source.boot
       /\ IsFiniteSet(visited)
    BY <1>1, <1>2, <1>4, <1>5, <1>10, <1>11 DEF Walking
<1>13. r \in Records(base)
    <2>1. PICK N : N = Cardinality(DOMAIN source.boot)
        OBVIOUS
    <2>2. PICK n : n = Cardinality(visited)
        OBVIOUS
    <2>3. N \in 0 .. Width /\ n \in Nat /\ n <= N /\ Width \in Nat
        BY <1>12, <2>1, <2>2, BootCount, FS_Subset, FS_CardinalityType
    <2>4. n \in 0 .. Width /\ N \in n .. Width
        BY <2>3
    <2>5. g[n] \subseteq g[N]
        BY <1>6, <1>10, <2>4, ReachGrows
    <2> QED
        BY <1>4, <1>10, <1>12, <2>1, <2>2, <2>5
<1>14. (r + s) % Width \in LogicalStarts
    <2>1. (r + s) % Width \in LogicalsOf(base)
        BY <1>9, <1>13 DEF LogicalsOf
    <2> QED
        BY <1>6, <2>1 DEF LogicalStarts
<1>15. ActiveStarts = {}
    BY StartsByPlace DEF Searching
<1> QED
    BY <1>8, <1>14, <1>15 DEF FatIsNamed

\* Nothing leads to a logical partition: the first one of the table is opened, or
\* the image as a whole.
LEMMA FallbackOpened ==
    ASSUME RealImage, Searching, Fallback
    PROVE  pc' # "fatExtended" /\ (pc' = "openFat" => FatIsNamed(fatVolume'.start))
<1>1. ChainEnds /\ search.extended = {} /\ PartitionOpen(search.fallback)
    BY DEF Fallback
<1>2. pc' # "fatExtended" /\ (pc' = "openFat" => fatVolume'.start = search.fallback)
    BY <1>1 DEF PartitionOpen, Opened
<1>3. ActiveStarts = {}
    BY StartsByPlace DEF Searching
<1>4. ASSUME NEW base \in ExtendedStarts PROVE Barren(base)
    <2>1. PICK i \in ExtendedParts : base = Boot(0).parts[i].start
        BY <1>4, StartsByPlace
    <2>2. base = search.base \/ Barren(base)
        BY <1>1, <2>1 DEF Searching
    <2>3. base # 0
        <3>1. base \in Nat /\ base > 0
            BY <1>4, StartsByPlace
        <3> QED
            BY <3>1
    <2> QED
        BY <1>1, <2>2, <2>3, ChainIsBarren DEF Searching
<1>5. LogicalStarts = {}
    <2>1. ASSUME NEW base \in ExtendedStarts, NEW r \in Records(base) PROVE FatStarts(r) = {}
        <3>1. FatParts(r) = {}
            BY <1>4, <2>1 DEF Barren
        <3> QED
            BY <3>1, StartsByPlace
    <2>2. \A base \in ExtendedStarts : LogicalsOf(base) = {}
        BY <2>1 DEF LogicalsOf
    <2> QED
        BY <2>2 DEF LogicalStarts
<1>6. search.fallback \in IF FatStarts(0) # {} THEN FatStarts(0) ELSE {0}
    <2>1. search.fallback = FirstStart(0, FatParts(0))
        BY DEF Searching
    <2>2. CASE FatParts(0) = {}
        <3>1. FatStarts(0) = {}
            BY <2>2, StartsByPlace
        <3>2. FirstStart(0, FatParts(0)) = 0
            BY <2>2 DEF FirstStart
        <3> QED
            BY <2>1, <3>1, <3>2
    <2>3. CASE FatParts(0) # {}
        <3>1. FatParts(0) \in SUBSET DOMAIN Boot(0).parts
            BY DEF FatParts
        <3>2. FirstStart(0, FatParts(0)) \in FatStarts(0)
            BY <2>3, <3>1, FirstOf, StartsByPlace
        <3> QED
            BY <2>1, <3>2
    <2> QED
        BY <2>2, <2>3
<1> QED
    BY <1>2, <1>3, <1>5, <1>6 DEF FatIsNamed

-----------------------------------------------------------------------------
(* OpensNamedVolume, with how far each search has got *)

NamedInv ==
    /\ pc = "fatExtended" => Searching
    /\ pc = "iso" => DescriptorsRead
    /\ pc # "iso" => descriptors = Unread
    /\ pc = "openFat" => FatIsNamed(fatVolume.start)
    /\ pc = "openIso" => CdIsNamed

\* Before anything is opened.
LEMMA InitNamed == Init => NamedInv
BY DEF Init, NamedInv

\* A step of the search for a FAT volume.
LEMMA FatNamed ==
    ASSUME TypeInv, NamedInv, FatStep
    PROVE  /\ pc' = "fatExtended" => Searching'
           /\ pc' = "openFat" => FatIsNamed(fatVolume'.start)
<1>1. CASE ReadPartitions
    BY <1>1, TableSearched DEF TypeInv
<1>2. CASE NextBase
    <2>1. pc = "fatExtended" /\ pc' = pc
        BY <1>2 DEF NextBase
    <2> QED
        BY <1>2, <2>1, BaseSearched DEF TypeInv, NamedInv
<1>3. CASE ReadRecord
    <2>1. pc = "fatExtended"
        BY <1>3 DEF ReadRecord
    <2>2. FatParts(search.current) = {} => pc' = pc
        BY <1>3 DEF ReadRecord
    <2>3. CASE FatParts(search.current) = {}
        BY <1>3, <2>1, <2>2, <2>3, RecordPassed DEF TypeInv, NamedInv
    <2>4. CASE FatParts(search.current) # {}
        BY <1>3, <2>1, <2>4, RecordOpened DEF TypeInv, NamedInv
    <2> QED
        BY <2>3, <2>4
<1>4. CASE Fallback
    <2>1. pc = "fatExtended"
        BY <1>4 DEF Fallback
    <2> QED
        BY <1>4, <2>1, FallbackOpened DEF TypeInv, NamedInv
<1> QED
    BY <1>1, <1>2, <1>3, <1>4 DEF FatStep

\* Which volume takes precedence depends on the image alone.
LEMMA ChoiceSame ==
    ASSUME UNCHANGED source PROVE \A n : FatIsNamed(n)' = FatIsNamed(n)
BY DEF FatIsNamed, ActiveStarts, FatStarts, LogicalStarts, LogicalsOf, ExtendedStarts, Starts, Records,
       LinkOf, Boot, NoBoot, HasBlock

\* A step that leaves the image and the volumes alone.
LEMMA SameNamed ==
    ASSUME NamedInv, UNCHANGED <<source, fatVolume, isoVolume>>, UNCHANGED descriptors,
           pc' \in {"fatExtended", "openFat", "openIso"} => pc' = pc, UNCHANGED search,
           (pc = "iso") <=> (pc' = "iso")
    PROVE  NamedInv'
<1>1. Searching' = Searching
    BY DEF Searching, Walking, ActiveParts, ExtendedParts, FirstStart, FatParts, Boot, NoBoot, HasBlock,
           Barren, Records, LinkOf, Reaches, Further, ExtendedStarts, Starts
<1>2. DescriptorsRead' = DescriptorsRead
    BY DEF DescriptorsRead, Continues, IsPrimary, IsJoliet, HasSector, Descriptor, NoDescriptor
<1>3. \A n : FatIsNamed(n)' = FatIsNamed(n)
    BY ChoiceSame
<1>4. CdIsNamed' = CdIsNamed
    BY DEF CdIsNamed, PrimaryBefore, JolietBefore, BeforeTheEnd, Continues, IsPrimary, IsJoliet,
           HasSector, Descriptor, NoDescriptor
<1>5. fatVolume'.start = fatVolume.start
    OBVIOUS
<1> QED
    BY <1>1, <1>2, <1>3, <1>4, <1>5 DEF NamedInv

\* Every step of the client and of openImage.
LEMMA NextNamed ==
    ASSUME TypeInv, NamedInv, [Next]_vars PROVE NamedInv'
<1>0. pc \in Stages \cup Returned \cup {"died"}
    BY DEF TypeInv, TypeOK
<1>1. CASE Open
    BY <1>1, SameNamed DEF Open, formats
<1>2. CASE LoadCommodore
    <2>1. pc = "d64" /\ pc' \in {"openD64", "adf"} /\ source' = source
        BY <1>2 DEF LoadCommodore, LoadD64
    <2> QED
        BY <1>2, <2>1, SameNamed DEF LoadCommodore
<1>3. CASE TryADF
    BY <1>3, SameNamed DEF TryADF, formats
<1>4. CASE TestFat
    BY <1>4, SameNamed DEF TestFat, formats
<1>5. CASE LoadFat
    <2>1. pc' \in {"fatExtended", "died", "isoTest", "openFat"} /\ pc \in {"fat", "fatExtended"}
        BY <1>5, FatStages DEF LoadFat
    <2>2. /\ pc' = "fatExtended" => Searching'
          /\ pc' = "openFat" => FatIsNamed(fatVolume'.start)
          /\ UNCHANGED source /\ UNCHANGED descriptors
        BY <1>5, FatNamed, FatStages DEF LoadFat
    <2>3. \A n : FatIsNamed(n)' = FatIsNamed(n)
        <3>1. UNCHANGED source
            BY <2>2
        <3> QED
            BY <3>1, ChoiceSame
    <2>4. pc' = "openFat" => FatIsNamed(fatVolume.start)'
        <3>1. \A n : n = fatVolume' => (FatIsNamed(n.start)' <=> FatIsNamed(fatVolume.start)')
            BY DEF FatIsNamed
        <3>2. PICK n : n = fatVolume'
            OBVIOUS
        <3> QED
            BY <2>2, <2>3, <3>1, <3>2
    <2> QED
        BY <2>1, <2>2, <2>4 DEF NamedInv
<1>6. CASE TestIso
    <2>1. pc = "isoTest" /\ pc' \in {"iso", "null"} /\ UNCHANGED descriptors
        BY <1>6 DEF TestIso, formats
    <2>2. descriptors' = Unread
        BY <2>1 DEF NamedInv
    <2>3. DescriptorsRead'
        <3>1. Unread.at = 0 /\ Unread.pvd = NoDescriptor /\ Unread.svd = NoDescriptor
            BY DEF Unread
        <3>2. 0 .. 0 - 1 = {}
            OBVIOUS
        <3>3. NoDescriptor' = NoDescriptor
            BY DEF NoDescriptor
        <3> QED
            BY <2>2, <3>1, <3>2, <3>3 DEF DescriptorsRead
    <2> QED
        BY <2>1, <2>2, <2>3 DEF NamedInv
<1>7. CASE LoadIso
    <2>1. CASE ReadDescriptor
        <3>1. pc = "iso" /\ pc' = pc
            BY <2>1 DEF ReadDescriptor
        <3>2. DescriptorsRead'
            BY <2>1, <3>1, DescriptorTaken DEF NamedInv, TypeInv, TypeOK
        <3> QED
            BY <3>1, <3>2 DEF NamedInv
    <2>2. CASE LoadVolume
        <3>1. pc = "iso" /\ pc' \in {"openIso", "null"} /\ descriptors' = Unread
            BY <2>2 DEF LoadVolume
        <3>2. pc' = "openIso" => CdIsNamed'
            BY <2>2, <3>1, CdOpened DEF NamedInv, TypeInv, TypeOK
        <3>3. Unread' = Unread
            BY DEF Unread, NoDescriptor
        <3> QED
            BY <3>1, <3>2, <3>3 DEF NamedInv
    <2> QED
        BY <1>7, <2>1, <2>2 DEF LoadIso, IsoStep
<1>8. CASE UseMap
    <2>1. pc = "openD64" /\ pc' = pc /\ UNCHANGED descriptors
        BY <1>8 DEF UseMap, SectorSet, SaveMap
    <2>2. Unread' = Unread
        BY DEF Unread, NoDescriptor
    <2> QED
        BY <2>1, <2>2 DEF NamedInv
<1>9. CASE Close
    <2>1. pc' = "closed" /\ descriptors' = Unread
        BY <1>9 DEF Close
    <2>2. Unread' = Unread
        BY DEF Unread, NoDescriptor
    <2> QED
        BY <2>1, <2>2 DEF NamedInv
<1>10. CASE \E path \in Paths : Lookup(path)
    BY <1>10, SameNamed DEF Lookup, formats
<1>11. CASE UNCHANGED vars
    BY <1>11, SameNamed DEF vars
<1> QED
    BY <1>1, <1>2, <1>3, <1>4, <1>5, <1>6, <1>7, <1>8, <1>9, <1>10, <1>11 DEF Next, OpenStep

\* OpensNamedVolume: the volume that is opened is one that the image names, and one
\* that takes precedence, however the partition tables refer to each other and
\* whatever the descriptors are (cFAT::filesystemLoad, readVolumeDescriptors).
THEOREM NamedVolumeOpens ==
    Spec => []OpensNamedVolume
<1>1. NamedInv => OpensNamedVolume
    BY NamedVolume DEF NamedInv
<1>2. TypeInv /\ NamedInv /\ [Next]_vars => NamedInv'
    BY NextNamed
<1> QED
    BY <1>1, <1>2, InitNamed, InitTypes, NextTypes, PTL DEF Spec

-----------------------------------------------------------------------------
(* Bits of bytes *)

\* The bits of a byte are found again by division (loadBamBlock reads what saveBamBlock wrote).
LEMMA EightBits ==
    ASSUME NEW b0 \in 0 .. 1, NEW b1 \in 0 .. 1, NEW b2 \in 0 .. 1, NEW b3 \in 0 .. 1,
           NEW b4 \in 0 .. 1, NEW b5 \in 0 .. 1, NEW b6 \in 0 .. 1, NEW b7 \in 0 .. 1,
           NEW v, v = b0 + 2 * b1 + 4 * b2 + 8 * b3 + 16 * b4 + 32 * b5 + 64 * b6 + 128 * b7
    PROVE  /\ v \in 0 .. 255
           /\ v % 2 = b0 /\ (v \div 2) % 2 = b1 /\ (v \div 4) % 2 = b2 /\ (v \div 8) % 2 = b3
           /\ (v \div 16) % 2 = b4 /\ (v \div 32) % 2 = b5 /\ (v \div 64) % 2 = b6 /\ (v \div 128) % 2 = b7
<1>1. v \in 0 .. 255
    OBVIOUS
<1>2. v % 2 = b0 /\ (v \div 2) % 2 = b1
    OBVIOUS
<1>3. (v \div 4) % 2 = b2 /\ (v \div 8) % 2 = b3
    OBVIOUS
<1>4. (v \div 16) % 2 = b4 /\ (v \div 32) % 2 = b5
    OBVIOUS
<1>5. (v \div 64) % 2 = b6 /\ (v \div 128) % 2 = b7
    OBVIOUS
<1> QED
    BY <1>1, <1>2, <1>3, <1>4, <1>5

\* The powers that bits of a byte stand for.
LEMMA PowersOfTwo ==
    /\ 2 ^ 0 = 1 /\ 2 ^ 1 = 2 /\ 2 ^ 2 = 4 /\ 2 ^ 3 = 8
    /\ 2 ^ 4 = 16 /\ 2 ^ 5 = 32 /\ 2 ^ 6 = 64 /\ 2 ^ 7 = 128
OBVIOUS

\* A byte made of bits has these bits (saveBamBlock, loadBamBlock).
LEMMA BitsOfByte ==
    ASSUME NEW bits \in SUBSET (0 .. 7)
    PROVE  ByteOf(bits) \in 0 .. 255 /\ BitsOf(ByteOf(bits)) = bits
<1> DEFINE b(n) == IF n \in bits THEN 1 ELSE 0
<1>1. \A n : b(n) \in 0 .. 1
    OBVIOUS
<1>2. \A n : (n \in bits <=> b(n) = 1)
    OBVIOUS
<1>3. ByteOf(bits) = b(0) + 2 * b(1) + 4 * b(2) + 8 * b(3) + 16 * b(4) + 32 * b(5) + 64 * b(6) + 128 * b(7)
    BY PowersOfTwo DEF ByteOf
<1>4. PICK v : v = ByteOf(bits)
    OBVIOUS
<1> HIDE DEF b
<1>5. /\ v \in 0 .. 255
      /\ v % 2 = b(0) /\ (v \div 2) % 2 = b(1) /\ (v \div 4) % 2 = b(2) /\ (v \div 8) % 2 = b(3)
      /\ (v \div 16) % 2 = b(4) /\ (v \div 32) % 2 = b(5) /\ (v \div 64) % 2 = b(6) /\ (v \div 128) % 2 = b(7)
    BY <1>1, <1>3, <1>4, EightBits
<1>6. v \div 1 = v
    BY <1>5
<1>7. ASSUME NEW n \in 0 .. 7 PROVE (v \div 2 ^ n) % 2 = b(n)
    <2>1. n \in {0, 1, 2, 3, 4, 5, 6, 7}
        OBVIOUS
    <2>2. CASE n = 0
        BY <1>5, <1>6, <2>2, PowersOfTwo
    <2>3. CASE n = 1
        BY <1>5, <1>6, <2>3, PowersOfTwo
    <2>4. CASE n = 2
        BY <1>5, <1>6, <2>4, PowersOfTwo
    <2>5. CASE n = 3
        BY <1>5, <1>6, <2>5, PowersOfTwo
    <2>6. CASE n = 4
        BY <1>5, <1>6, <2>6, PowersOfTwo
    <2>7. CASE n = 5
        BY <1>5, <1>6, <2>7, PowersOfTwo
    <2>8. CASE n = 6
        BY <1>5, <1>6, <2>8, PowersOfTwo
    <2>9. CASE n = 7
        BY <1>5, <1>6, <2>9, PowersOfTwo
    <2> QED
        BY <2>1, <2>2, <2>3, <2>4, <2>5, <2>6, <2>7, <2>8, <2>9
<1>8. BitsOf(v) = {n \in 0 .. 7 : b(n) = 1}
    BY <1>7 DEF BitsOf
<1>9. {n \in 0 .. 7 : b(n) = 1} = bits
    BY <1>2
<1> QED
    BY <1>4, <1>5, <1>8, <1>9

-----------------------------------------------------------------------------
(* Where the tracks of a Commodore disk are *)

\* The sectors before a track of a D64, and of any disk.
D64Before(t) ==
    IF t <= 18 THEN 21 * (t - 1) ELSE IF t <= 25 THEN 357 + 19 * (t - 18)
    ELSE IF t <= 31 THEN 490 + 18 * (t - 25) ELSE 598 + 17 * (t - 31)
SectorsBefore(type, t) ==
    IF type = "D81" THEN 40 * (t - 1)
    ELSE IF t <= 35 \/ type = "D64" THEN D64Before(t) ELSE 683 + D64Before(t - 35)

Formats == {"D64", "D71", "D81"}

\* The formats with their sizes and tracks.
LEMMA FormatsAre ==
    /\ DOMAIN Capacity = Formats /\ DOMAIN TracksOf = Formats
    /\ TracksOf["D64"] = 35 /\ TracksOf["D71"] = 70 /\ TracksOf["D81"] = 80
    /\ Capacity["D64"] = 174848 /\ Capacity["D71"] = 349696 /\ Capacity["D81"] = 819200
    /\ D64Sector = 256
BY DEF Capacity, TracksOf, Formats, D64Sector

\* A track has 17 to 40 sectors, and the next one starts after them.
LEMMA NextTrack ==
    ASSUME NEW type \in Formats, NEW t \in 1 .. TracksOf[type]
    PROVE  /\ SectorsBefore(type, t) \in Nat /\ SectorsOf(type, t) \in 17 .. 40
           /\ type # "D81" => SectorsOf(type, t) <= 21
           /\ SectorsBefore(type, t + 1) = SectorsBefore(type, t) + SectorsOf(type, t)
<1>1. CASE type = "D64"
    <2>1. t \in 1 .. 35
        BY <1>1, FormatsAre
    <2>2. SectorsBefore(type, t) = D64Before(t) /\ SectorsBefore(type, t + 1) = D64Before(t + 1)
        BY <1>1 DEF SectorsBefore
    <2> QED
        BY <1>1, <2>1, <2>2 DEF D64Before, SectorsOf
<1>2. CASE type = "D71"
    <2>1. t \in 1 .. 70
        BY <1>2, FormatsAre
    <2>2. CASE t <= 34
        <3>1. SectorsBefore(type, t) = D64Before(t) /\ SectorsBefore(type, t + 1) = D64Before(t + 1)
            BY <1>2, <2>1, <2>2 DEF SectorsBefore
        <3> QED
            BY <1>2, <2>1, <2>2, <3>1 DEF D64Before, SectorsOf
    <2>3. CASE t = 35
        <3>1. SectorsBefore(type, t) = D64Before(35) /\ SectorsBefore(type, t + 1) = 683 + D64Before(1)
            BY <1>2, <2>3 DEF SectorsBefore
        <3> QED
            BY <1>2, <2>3, <3>1 DEF D64Before, SectorsOf
    <2>4. CASE t >= 36
        <3>1. PICK u : u = t - 35
            OBVIOUS
        <3>2. u \in 1 .. 35 /\ t + 1 - 35 = u + 1 /\ ~(t <= 35) /\ ~(t + 1 <= 35)
            BY <2>1, <2>4, <3>1
        <3>3. /\ SectorsBefore(type, t) = 683 + D64Before(u)
              /\ SectorsBefore(type, t + 1) = 683 + D64Before(u + 1)
            BY <1>2, <3>1, <3>2 DEF SectorsBefore
        <3>4. /\ D64Before(u) \in Nat
              /\ SectorsOf("D64", u) \in 17 .. 21 /\ D64Before(u + 1) = D64Before(u) + SectorsOf("D64", u)
            BY <3>2 DEF D64Before, SectorsOf
        <3>5. SectorsOf(type, t) = SectorsOf("D64", u)
            BY <1>2, <2>1, <2>4, <3>1 DEF SectorsOf
        <3> QED
            BY <1>2, <3>3, <3>4, <3>5
    <2> QED
        BY <2>1, <2>2, <2>3, <2>4
<1>3. CASE type = "D81"
    <2>1. t \in 1 .. 80
        BY <1>3, FormatsAre
    <2> QED
        BY <1>3, <2>1 DEF SectorsBefore, SectorsOf
<1> QED
    BY <1>1, <1>2, <1>3 DEF Formats

\* TrackOffset counts the sectors of the tracks before.
LEMMA TrackStarts ==
    ASSUME NEW type \in Formats, NEW t \in 1 .. TracksOf[type] + 1
    PROVE  TrackOffset(type, t) = 256 * SectorsBefore(type, t)
<1>0. TracksOf[type] \in Nat /\ t \in Nat
    BY FormatsAre DEF Formats
<1>1. PICK g : g = [u \in 1 .. t |-> 256 * SectorsBefore(type, u)]
    OBVIOUS
<1>2. ASSUME NEW u \in 1 .. t
      PROVE  g[u] = IF u = 1 THEN 0 ELSE g[u - 1] + SectorsOf(type, u - 1) * D64Sector
    <2>1. CASE u = 1
        <3>1. SectorsBefore(type, 1) = 0
            BY DEF SectorsBefore, D64Before
        <3> QED
            BY <1>0, <1>1, <2>1, <3>1
    <2>2. CASE u # 1
        <3>1. PICK w : w = u - 1
            OBVIOUS
        <3>2. w \in 1 .. TracksOf[type] /\ w \in 1 .. t /\ w + 1 = u
            BY <1>0, <2>2, <3>1
        <3>3. /\ SectorsBefore(type, w) \in Nat /\ SectorsOf(type, w) \in 17 .. 40
              /\ SectorsBefore(type, u) = SectorsBefore(type, w) + SectorsOf(type, w)
            BY <3>2, NextTrack
        <3>4. g[u] = 256 * SectorsBefore(type, u) /\ g[w] = 256 * SectorsBefore(type, w)
            BY <1>1, <3>2
        <3> QED
            BY <2>2, <3>1, <3>3, <3>4, FormatsAre
    <2> QED
        BY <2>1, <2>2
<1>3. g = [u \in 1 .. t |-> IF u = 1 THEN 0 ELSE g[u - 1] + SectorsOf(type, u - 1) * D64Sector]
    BY <1>1, <1>2
<1>4. PICK h : /\ h = [u \in 1 .. t |-> IF u = 1 THEN 0 ELSE h[u - 1] + SectorsOf(type, u - 1) * D64Sector]
               /\ TrackOffset(type, t) = h[t]
    BY <1>3 DEF TrackOffset
<1>5. \A u \in 1 .. t : h[u] = IF u = 1 THEN 0 ELSE h[u - 1] + SectorsOf(type, u - 1) * D64Sector
    BY <1>4
<1> DEFINE S == {n \in Nat : n + 1 \in 1 .. t => h[n + 1] = g[n + 1]}
<1>6. 0 \in S
    <2>1. 1 \in 1 .. t
        BY <1>0
    <2> QED
        BY <1>2, <1>5, <2>1
<1>7. ASSUME NEW n \in 1 .. t, n - 1 \in S PROVE n \in S
    <2> SUFFICES ASSUME n + 1 \in 1 .. t PROVE h[n + 1] = g[n + 1]
        OBVIOUS
    <2>1. n - 1 + 1 = n /\ n + 1 - 1 = n /\ n + 1 # 1
        OBVIOUS
    <2>2. h[n] = g[n]
        BY <1>7, <2>1
    <2> QED
        BY <1>2, <1>5, <2>1, <2>2
<1> HIDE DEF S
<1>8. \A n \in 0 .. t : n \in S
    BY <1>0, <1>6, <1>7, Induct
<1>9. t - 1 \in S /\ t - 1 + 1 = t /\ t \in 1 .. t
    BY <1>0, <1>8
<1>10. h[t] = g[t]
    BY <1>9 DEF S
<1> QED
    BY <1>1, <1>4, <1>9, <1>10

\* The tracks up to the last one fill the image.
LEMMA TracksFill ==
    ASSUME NEW type \in Formats
    PROVE  /\ TracksOf[type] \in Nat /\ TracksOf[type] >= 35
           /\ SectorsBefore(type, 1) = 0
           /\ Capacity[type] = 256 * SectorsBefore(type, TracksOf[type] + 1)
           /\ Capacity[type] \div 256 = SectorsBefore(type, TracksOf[type] + 1)
           /\ SectorsBefore(type, TracksOf[type] + 1) \in Nat
           /\ \A t \in 1 .. TracksOf[type] :
                 SectorsBefore(type, t + 1) <= SectorsBefore(type, TracksOf[type] + 1)
<1>1. CASE type = "D64"
    BY <1>1, FormatsAre DEF SectorsBefore, D64Before
<1>2. CASE type = "D71"
    BY <1>2, FormatsAre DEF SectorsBefore, D64Before
<1>3. CASE type = "D81"
    BY <1>3, FormatsAre DEF SectorsBefore
<1> QED
    BY <1>1, <1>2, <1>3 DEF Formats

\* Each sector of the image is on a track.
LEMMA SectorHasTrack ==
    ASSUME NEW type \in Formats, NEW k \in 0 .. SectorsBefore(type, TracksOf[type] + 1) - 1
    PROVE  \E t \in 1 .. TracksOf[type], s \in Nat :
              s < SectorsOf(type, t) /\ k = SectorsBefore(type, t) + s
<1> DEFINE N == TracksOf[type]
           T == {t \in 1 .. N : k < SectorsBefore(type, t + 1)}
<1>1. N \in Nat /\ N >= 35 /\ k \in Nat
    BY TracksFill
<1>2. N \in T
    BY <1>1, TracksFill
<1>3. PICK t \in T : \A u \in T : t <= u
    <2>1. T \in SUBSET Nat
        BY <1>1
    <2> HIDE DEF T
    <2> QED
        BY <1>2, <2>1, LeastNatural
<1>4. SectorsBefore(type, t) <= k
    <2>1. CASE t = 1
        BY <1>1, <2>1, TracksFill
    <2>2. CASE t # 1
        <3>1. PICK u : u = t - 1
            OBVIOUS
        <3>2. u \in 1 .. N /\ u + 1 = t /\ ~(t <= u)
            BY <1>1, <2>2, <3>1
        <3>3. ~(k < SectorsBefore(type, t))
            BY <1>3, <3>2
        <3>4. SectorsBefore(type, t) \in Nat
            BY NextTrack
        <3> QED
            BY <1>1, <3>3, <3>4
    <2> QED
        BY <2>1, <2>2
<1>5. /\ SectorsBefore(type, t) \in Nat /\ SectorsOf(type, t) \in 17 .. 40
      /\ k < SectorsBefore(type, t) + SectorsOf(type, t)
    BY NextTrack
<1>6. PICK s : s = k - SectorsBefore(type, t)
    OBVIOUS
<1>7. s \in Nat /\ s < SectorsOf(type, t) /\ k = SectorsBefore(type, t) + s
    BY <1>1, <1>4, <1>5, <1>6
<1> QED
    BY <1>7

\* The sectors of all tracks fill an image, each byte once (sectorOffset).
LEMMA TilesAll ==
    ASSUME NEW type \in Formats PROVE SectorsTile(type)
<1> DEFINE N == TracksOf[type]
           offsets(t) == {TrackOffset(type, t) + s * D64Sector : s \in 0 .. SectorsOf(type, t) - 1}
           all == UNION {offsets(t) : t \in 1 .. N}
           whole == {k * D64Sector : k \in 0 .. Capacity[type] \div D64Sector - 1}
<1>1. N \in Nat /\ N >= 35 /\ D64Sector = 256 /\ \A t \in 1 .. N : t \in 1 .. N + 1
    BY TracksFill, FormatsAre
<1>2. ASSUME NEW x \in all PROVE x \in whole
    <2>1. PICK t \in 1 .. N : x \in offsets(t)
        OBVIOUS
    <2>2. PICK s \in 0 .. SectorsOf(type, t) - 1 : x = TrackOffset(type, t) + s * D64Sector
        BY <2>1
    <2>3. TrackOffset(type, t) = 256 * SectorsBefore(type, t)
        BY <1>1, TrackStarts
    <2>4. /\ SectorsBefore(type, t) \in Nat /\ SectorsOf(type, t) \in 17 .. 40
          /\ SectorsBefore(type, t + 1) = SectorsBefore(type, t) + SectorsOf(type, t)
        BY NextTrack
    <2>5. PICK k : k = SectorsBefore(type, t) + s
        OBVIOUS
    <2>6. /\ SectorsBefore(type, t + 1) <= SectorsBefore(type, N + 1) /\ SectorsBefore(type, N + 1) \in Nat
          /\ Capacity[type] \div 256 = SectorsBefore(type, N + 1)
        BY TracksFill
    <2>7. k \in 0 .. Capacity[type] \div D64Sector - 1
        BY <1>1, <2>4, <2>5, <2>6
    <2>8. x = k * D64Sector
        BY <1>1, <2>2, <2>3, <2>4, <2>5
    <2> QED
        BY <2>7, <2>8
<1>3. ASSUME NEW x \in whole PROVE x \in all
    <2>1. PICK k \in 0 .. Capacity[type] \div D64Sector - 1 : x = k * D64Sector
        OBVIOUS
    <2>2. k \in 0 .. SectorsBefore(type, N + 1) - 1
        BY <1>1, TracksFill
    <2>3. PICK t \in 1 .. N, s \in Nat : s < SectorsOf(type, t) /\ k = SectorsBefore(type, t) + s
        BY <2>2, SectorHasTrack
    <2>4. SectorsBefore(type, t) \in Nat /\ SectorsOf(type, t) \in 17 .. 40
        BY NextTrack
    <2>5. TrackOffset(type, t) = 256 * SectorsBefore(type, t)
        BY <1>1, TrackStarts
    <2>6. x = TrackOffset(type, t) + s * D64Sector
        BY <1>1, <2>1, <2>3, <2>4, <2>5
    <2>7. s \in 0 .. SectorsOf(type, t) - 1
        BY <2>3, <2>4
    <2>8. x \in offsets(t)
        BY <2>6, <2>7
    <2> HIDE DEF offsets
    <2> QED
        BY <2>8
<1> HIDE DEF all, whole
<1>4. all = whole
    BY <1>2, <1>3
<1>5. TrackOffset(type, N + 1) = Capacity[type]
    <2>1. N + 1 \in 1 .. TracksOf[type] + 1
        BY <1>1
    <2> QED
        BY <2>1, TrackStarts, TracksFill
<1> QED
    BY <1>4, <1>5 DEF SectorsTile, all, whole

-----------------------------------------------------------------------------
(* The map of a Commodore disk: what is saved is what is loaded *)

WidthOf(type) == IF type = "D81" THEN 6 ELSE 4

D64Part == [ts |-> <<18, 0>>, from |-> 1, to |-> 35, width |-> 4, at |-> 4]
D71Part == [ts |-> <<53, 0>>, from |-> 36, to |-> 70, width |-> 4, at |-> 4]
D81Part == [ts |-> <<40, 1>>, from |-> 1, to |-> 40, width |-> 6, at |-> 16]
D81PartTwo == [ts |-> <<40, 2>>, from |-> 41, to |-> 80, width |-> 6, at |-> 16]

\* The parts that are loaded are the parts that are saved, with these fields.
LEMMA PartsAre ==
    /\ SavedParts = LoadedParts
    /\ LoadedParts["D64"] = {D64Part} /\ LoadedParts["D71"] = {D64Part, D71Part}
    /\ LoadedParts["D81"] = {D81Part, D81PartTwo}
    /\ D64Part.from = 1 /\ D64Part.to = 35 /\ D64Part.width = 4 /\ D64Part.at = 4
    /\ D71Part.from = 36 /\ D71Part.to = 70 /\ D71Part.width = 4 /\ D71Part.at = 4
    /\ D81Part.from = 1 /\ D81Part.to = 40 /\ D81Part.width = 6 /\ D81Part.at = 16
    /\ D81PartTwo.from = 41 /\ D81PartTwo.to = 80 /\ D81PartTwo.width = 6 /\ D81PartTwo.at = 16
<1>1. SavedParts = LoadedParts
    BY DEF SavedParts, LoadedParts
<1>2. /\ LoadedParts["D64"] = {D64Part} /\ LoadedParts["D71"] = {D64Part, D71Part}
      /\ LoadedParts["D81"] = {D81Part, D81PartTwo}
    BY DEF LoadedParts, D64Part, D71Part, D81Part, D81PartTwo
<1> QED
    BY <1>1, <1>2 DEF D64Part, D71Part, D81Part, D81PartTwo

\* Where the sectors of the map and of the type of DOS are.
LEMMA MapSectors ==
    /\ SectorOffset("D64", <<18, 0>>) = 91392 /\ SectorOffset("D71", <<18, 0>>) = 91392
    /\ SectorOffset("D71", <<53, 0>>) = 266240
    /\ SectorOffset("D81", <<40, 0>>) = 399360
    /\ SectorOffset("D81", <<40, 1>>) = 399616 /\ SectorOffset("D81", <<40, 2>>) = 399872
<1>1. TrackOffset("D64", 18) = 91392 /\ TrackOffset("D71", 18) = 91392
    <2>1. SectorsBefore("D64", 18) = 357 /\ SectorsBefore("D71", 18) = 357
        BY DEF SectorsBefore, D64Before
    <2>2. 18 \in 1 .. TracksOf["D64"] + 1 /\ 18 \in 1 .. TracksOf["D71"] + 1
        BY FormatsAre
    <2> QED
        BY <2>1, <2>2, TrackStarts, SMT DEF Formats
<1>2. TrackOffset("D71", 53) = 266240
    <2>1. SectorsBefore("D71", 53) = 1040
        BY DEF SectorsBefore, D64Before
    <2>2. 53 \in 1 .. TracksOf["D71"] + 1
        BY FormatsAre
    <2> QED
        BY <2>1, <2>2, TrackStarts, SMT DEF Formats
<1>3. TrackOffset("D81", 40) = 399360
    <2>1. SectorsBefore("D81", 40) = 1560
        BY DEF SectorsBefore
    <2>2. 40 \in 1 .. TracksOf["D81"] + 1
        BY FormatsAre
    <2> QED
        BY <2>1, <2>2, TrackStarts, SMT DEF Formats
<1> QED
    BY <1>1, <1>2, <1>3, FormatsAre, SMT DEF SectorOffset

\* A part of the map, with its tracks and its place.
IsPart(type, part) ==
    /\ part.width = WidthOf(type) /\ PartFits(part)
    /\ part.from \in 1 .. TracksOf[type] /\ part.to \in part.from .. TracksOf[type]
    /\ PlaceOf(type, part, part.from) \in Nat
    /\ \A t \in part.from .. part.to :
          PlaceOf(type, part, t) = PlaceOf(type, part, part.from) + (t - part.from) * WidthOf(type)
    /\ PlacesOf(type, part) = PlaceOf(type, part, part.from) ..
          PlaceOf(type, part, part.from) + (part.to - part.from + 1) * WidthOf(type) - 1

\* The bytes of the type of DOS.
DosPlace(type) ==
    IF type = "D81" THEN SectorOffset(type, <<40, 0>>) + 25 ELSE SectorOffset(type, <<18, 0>>) + 165

\* A part that ends within its sector.
LEMMA PartWithin ==
    ASSUME NEW type \in Formats, NEW part,
           SectorOffset(type, part.ts) \in Nat, part.from \in Nat, part.to \in Nat, part.width \in Nat,
           part.at \in Nat, part.from <= part.to,
           part.width = WidthOf(type), part.from >= 1, part.to <= TracksOf[type],
           part.at + (part.to - part.from + 1) * part.width <= 256
    PROVE  /\ IsPart(type, part)
           /\ PlacesOf(type, part) = SectorOffset(type, part.ts) + part.at ..
                 SectorOffset(type, part.ts) + part.at + (part.to - part.from + 1) * part.width - 1
<1>0. PICK sector \in Nat, from \in Nat, to \in Nat, width \in Nat, at \in Nat :
         /\ sector = SectorOffset(type, part.ts) /\ from = part.from /\ to = part.to
         /\ width = part.width /\ at = part.at
    OBVIOUS
<1>1. TracksOf[type] \in Nat
    BY TracksFill
<1>2. part.from \in 1 .. TracksOf[type] /\ part.to \in part.from .. TracksOf[type]
    BY <1>0, <1>1
<1>3. PartFits(part)
    BY <1>0, FormatsAre DEF PartFits
<1>4. ASSUME NEW t \in part.from .. part.to
      PROVE  PlaceOf(type, part, t) = sector + at + (t - from) * width
    BY <1>0 DEF PlaceOf
<1>5. PlaceOf(type, part, from) = sector + at
    <2>1. from \in part.from .. part.to
        BY <1>0
    <2>2. PlaceOf(type, part, from) = sector + at + (from - from) * width
        BY <1>4, <2>1
    <2>3. (from - from) * width = 0
        OBVIOUS
    <2> QED
        BY <2>2, <2>3
<1>6. PlacesOf(type, part) = sector + at .. sector + at + (to - from + 1) * width - 1
    BY <1>0, <1>5 DEF PlacesOf
<1>7. PlaceOf(type, part, part.from) = sector + at /\ sector + at \in Nat
    BY <1>0, <1>5
<1>8. \A t \in part.from .. part.to :
         PlaceOf(type, part, t) = PlaceOf(type, part, part.from) + (t - part.from) * WidthOf(type)
    BY <1>0, <1>4, <1>7
<1>9. PlacesOf(type, part) = PlaceOf(type, part, part.from) ..
         PlaceOf(type, part, part.from) + (part.to - part.from + 1) * WidthOf(type) - 1
    BY <1>0, <1>6, <1>7
<1>10. PlaceOf(type, part, part.from) \in Nat
    BY <1>7
<1> QED
    BY <1>0, <1>2, <1>3, <1>5, <1>6, <1>8, <1>9, <1>10 DEF IsPart

\* Where the bytes of each part are.
LEMMA PartsPlaced ==
    /\ \A type \in {"D64", "D71"} : IsPart(type, D64Part) /\ PlacesOf(type, D64Part) = 91396 .. 91535
    /\ IsPart("D71", D71Part) /\ PlacesOf("D71", D71Part) = 266244 .. 266383
    /\ IsPart("D81", D81Part) /\ PlacesOf("D81", D81Part) = 399632 .. 399871
    /\ IsPart("D81", D81PartTwo) /\ PlacesOf("D81", D81PartTwo) = 399888 .. 400127
<1>1. ASSUME NEW type \in Formats, type \in {"D64", "D71"}
     PROVE  IsPart(type, D64Part) /\ PlacesOf(type, D64Part) = 91396 .. 91535
    <2>1. SectorOffset(type, D64Part.ts) = 91392
        BY <1>1, MapSectors, SMT DEF D64Part
    <2>2. WidthOf(type) = 4 /\ 35 <= TracksOf[type]
        BY <1>1, FormatsAre, SMT DEF WidthOf
    <2>3. /\ D64Part.from = 1 /\ D64Part.to = 35 /\ D64Part.width = 4 /\ D64Part.at = 4
        BY PartsAre, SMT
    <2>4. /\ SectorOffset(type, D64Part.ts) \in Nat /\ D64Part.from \in Nat /\ D64Part.to \in Nat
          /\ D64Part.width \in Nat /\ D64Part.at \in Nat /\ D64Part.from <= D64Part.to
          /\ D64Part.width = WidthOf(type) /\ D64Part.from >= 1 /\ D64Part.to <= TracksOf[type]
        BY <2>1, <2>2, <2>3, SMT
    <2>5. D64Part.at + (D64Part.to - D64Part.from + 1) * D64Part.width <= 256
        BY <2>3, SMT
    <2>6. /\ IsPart(type, D64Part)
          /\ PlacesOf(type, D64Part) = SectorOffset(type, D64Part.ts) + D64Part.at ..
                SectorOffset(type, D64Part.ts) + D64Part.at + (D64Part.to - D64Part.from + 1) * D64Part.width - 1
        BY <2>4, <2>5, PartWithin, Zenon
    <2> QED
        BY <2>1, <2>3, <2>6, SMT
<1>2. ASSUME NEW type \in Formats, type = "D71"
     PROVE  IsPart(type, D71Part) /\ PlacesOf(type, D71Part) = 266244 .. 266383
    <2>1. SectorOffset(type, D71Part.ts) = 266240
        BY <1>2, MapSectors, SMT DEF D71Part
    <2>2. WidthOf(type) = 4 /\ 70 <= TracksOf[type]
        BY <1>2, FormatsAre, SMT DEF WidthOf
    <2>3. /\ D71Part.from = 36 /\ D71Part.to = 70 /\ D71Part.width = 4 /\ D71Part.at = 4
        BY PartsAre, SMT
    <2>4. /\ SectorOffset(type, D71Part.ts) \in Nat /\ D71Part.from \in Nat /\ D71Part.to \in Nat
          /\ D71Part.width \in Nat /\ D71Part.at \in Nat /\ D71Part.from <= D71Part.to
          /\ D71Part.width = WidthOf(type) /\ D71Part.from >= 1 /\ D71Part.to <= TracksOf[type]
        BY <2>1, <2>2, <2>3, SMT
    <2>5. D71Part.at + (D71Part.to - D71Part.from + 1) * D71Part.width <= 256
        BY <2>3, SMT
    <2>6. /\ IsPart(type, D71Part)
          /\ PlacesOf(type, D71Part) = SectorOffset(type, D71Part.ts) + D71Part.at ..
                SectorOffset(type, D71Part.ts) + D71Part.at + (D71Part.to - D71Part.from + 1) * D71Part.width - 1
        BY <2>4, <2>5, PartWithin, Zenon
    <2> QED
        BY <2>1, <2>3, <2>6, SMT
<1>3. ASSUME NEW type \in Formats, type = "D81"
     PROVE  IsPart(type, D81Part) /\ PlacesOf(type, D81Part) = 399632 .. 399871
    <2>1. SectorOffset(type, D81Part.ts) = 399616
        BY <1>3, MapSectors, SMT DEF D81Part
    <2>2. WidthOf(type) = 6 /\ 40 <= TracksOf[type]
        BY <1>3, FormatsAre, SMT DEF WidthOf
    <2>3. /\ D81Part.from = 1 /\ D81Part.to = 40 /\ D81Part.width = 6 /\ D81Part.at = 16
        BY PartsAre, SMT
    <2>4. /\ SectorOffset(type, D81Part.ts) \in Nat /\ D81Part.from \in Nat /\ D81Part.to \in Nat
          /\ D81Part.width \in Nat /\ D81Part.at \in Nat /\ D81Part.from <= D81Part.to
          /\ D81Part.width = WidthOf(type) /\ D81Part.from >= 1 /\ D81Part.to <= TracksOf[type]
        BY <2>1, <2>2, <2>3, SMT
    <2>5. D81Part.at + (D81Part.to - D81Part.from + 1) * D81Part.width <= 256
        BY <2>3, SMT
    <2>6. /\ IsPart(type, D81Part)
          /\ PlacesOf(type, D81Part) = SectorOffset(type, D81Part.ts) + D81Part.at ..
                SectorOffset(type, D81Part.ts) + D81Part.at + (D81Part.to - D81Part.from + 1) * D81Part.width - 1
        BY <2>4, <2>5, PartWithin, Zenon
    <2> QED
        BY <2>1, <2>3, <2>6, SMT
<1>4. ASSUME NEW type \in Formats, type = "D81"
     PROVE  IsPart(type, D81PartTwo) /\ PlacesOf(type, D81PartTwo) = 399888 .. 400127
    <2>1. SectorOffset(type, D81PartTwo.ts) = 399872
        BY <1>4, MapSectors, SMT DEF D81PartTwo
    <2>2. WidthOf(type) = 6 /\ 80 <= TracksOf[type]
        BY <1>4, FormatsAre, SMT DEF WidthOf
    <2>3. /\ D81PartTwo.from = 41 /\ D81PartTwo.to = 80 /\ D81PartTwo.width = 6 /\ D81PartTwo.at = 16
        BY PartsAre, SMT
    <2>4. /\ SectorOffset(type, D81PartTwo.ts) \in Nat /\ D81PartTwo.from \in Nat /\ D81PartTwo.to \in Nat
          /\ D81PartTwo.width \in Nat /\ D81PartTwo.at \in Nat /\ D81PartTwo.from <= D81PartTwo.to
          /\ D81PartTwo.width = WidthOf(type) /\ D81PartTwo.from >= 1 /\ D81PartTwo.to <= TracksOf[type]
        BY <2>1, <2>2, <2>3, SMT
    <2>5. D81PartTwo.at + (D81PartTwo.to - D81PartTwo.from + 1) * D81PartTwo.width <= 256
        BY <2>3, SMT
    <2>6. /\ IsPart(type, D81PartTwo)
          /\ PlacesOf(type, D81PartTwo) = SectorOffset(type, D81PartTwo.ts) + D81PartTwo.at ..
                SectorOffset(type, D81PartTwo.ts) + D81PartTwo.at + (D81PartTwo.to - D81PartTwo.from + 1) * D81PartTwo.width - 1
        BY <2>4, <2>5, PartWithin, Zenon
    <2> QED
        BY <2>1, <2>3, <2>6, SMT
<1> QED
    BY <1>1, <1>2, <1>3, <1>4, SMT DEF Formats

\* The parts of the map of a disk, which leave out its type of DOS.
LEMMA PartsFit ==
    ASSUME NEW type \in Formats, NEW part \in LoadedParts[type]
    PROVE  /\ IsPart(type, part)
           /\ DosPlace(type) \notin PlacesOf(type, part) /\ DosPlace(type) + 1 \notin PlacesOf(type, part)
<1>1. DosPlace("D64") = 91557 /\ DosPlace("D71") = 91557 /\ DosPlace("D81") = 399385
    BY MapSectors, SMT DEF DosPlace
<1>2. CASE type = "D64"
    <2>1. part = D64Part
        BY <1>2, PartsAre
    <2> QED
        BY <1>1, <1>2, <2>1, PartsPlaced, SMT
<1>3. CASE type = "D71"
    <2>1. part = D64Part \/ part = D71Part
        BY <1>3, PartsAre
    <2> QED
        BY <1>1, <1>3, <2>1, PartsPlaced, SMT
<1>4. CASE type = "D81"
    <2>1. part = D81Part \/ part = D81PartTwo
        BY <1>4, PartsAre
    <2> QED
        BY <1>1, <1>4, <2>1, PartsPlaced, SMT
<1> QED
    BY <1>2, <1>3, <1>4 DEF Formats

\* Each track is in one part, and each byte in one at most.
LEMMA PartsApart ==
    ASSUME NEW type \in Formats
    PROVE  /\ \A t \in 1 .. TracksOf[type] : \E part \in LoadedParts[type] : t \in part.from .. part.to
           /\ \A x, y \in LoadedParts[type] : x # y =>
                 /\ \A t \in x.from .. x.to : t \notin y.from .. y.to
                 /\ \A p \in PlacesOf(type, x) : p \notin PlacesOf(type, y)
<1>1. CASE type = "D64"
    BY <1>1, PartsAre, FormatsAre
<1>2. CASE type = "D71"
    <2>1. \A t \in 1 .. TracksOf[type] : \E part \in LoadedParts[type] : t \in part.from .. part.to
        BY <1>2, PartsAre, FormatsAre
    <2>2. /\ \A p \in PlacesOf(type, D64Part) : p \in Nat /\ p <= 91535
          /\ \A p \in PlacesOf(type, D71Part) : p \in Nat /\ p >= 266244
        BY <1>2, PartsPlaced, SMT
    <2>3. ASSUME NEW x \in LoadedParts[type], NEW y \in LoadedParts[type], x # y
          PROVE  /\ \A t \in x.from .. x.to : t \notin y.from .. y.to
                 /\ \A p \in PlacesOf(type, x) : p \notin PlacesOf(type, y)
        <3>1. (x = D64Part /\ y = D71Part) \/ (x = D71Part /\ y = D64Part)
            BY <1>2, <2>3, PartsAre
        <3>2. \A t \in x.from .. x.to : t \notin y.from .. y.to
            BY <3>1, PartsAre, SMT
        <3>3. \A p \in PlacesOf(type, x) : p \notin PlacesOf(type, y)
            <4>1. CASE x = D64Part /\ y = D71Part
                BY <2>2, <4>1, SMT
            <4>2. CASE x = D71Part /\ y = D64Part
                BY <2>2, <4>2, SMT
            <4> QED
                BY <3>1, <4>1, <4>2
        <3> QED
            BY <3>2, <3>3
    <2> QED
        BY <2>1, <2>3
<1>3. CASE type = "D81"
    <2>1. \A t \in 1 .. TracksOf[type] : \E part \in LoadedParts[type] : t \in part.from .. part.to
        BY <1>3, PartsAre, FormatsAre
    <2>2. /\ \A p \in PlacesOf(type, D81Part) : p \in Nat /\ p <= 399871
          /\ \A p \in PlacesOf(type, D81PartTwo) : p \in Nat /\ p >= 399888
        BY <1>3, PartsPlaced, SMT
    <2>3. ASSUME NEW x \in LoadedParts[type], NEW y \in LoadedParts[type], x # y
          PROVE  /\ \A t \in x.from .. x.to : t \notin y.from .. y.to
                 /\ \A p \in PlacesOf(type, x) : p \notin PlacesOf(type, y)
        <3>1. (x = D81Part /\ y = D81PartTwo) \/ (x = D81PartTwo /\ y = D81Part)
            BY <1>3, <2>3, PartsAre
        <3>2. \A t \in x.from .. x.to : t \notin y.from .. y.to
            BY <3>1, PartsAre, SMT
        <3>3. \A p \in PlacesOf(type, x) : p \notin PlacesOf(type, y)
            <4>1. CASE x = D81Part /\ y = D81PartTwo
                BY <2>2, <4>1, SMT
            <4>2. CASE x = D81PartTwo /\ y = D81Part
                BY <2>2, <4>2, SMT
            <4> QED
                BY <3>1, <4>1, <4>2
        <3> QED
            BY <3>2, <3>3
    <2> QED
        BY <2>1, <2>3
<1> QED
    BY <1>1, <1>2, <1>3 DEF Formats

\* What mBam may hold: counts are bytes, and sectors are the bits there is room for.
Maps(type) == [1 .. TracksOf[type] -> [count : 0 .. 255, free : SUBSET (0 .. 8 * (WidthOf(type) - 1) - 1)]]

\* The byte saved j bytes on from the place of a track.
SavedByte(bam, t, j) ==
    IF j = 0 THEN bam[t].count ELSE ByteOf({m \in 0 .. 7 : 8 * (j - 1) + m \in bam[t].free})

\* Quotient and remainder by the number of bytes for a track.
LEMMA Divides ==
    ASSUME NEW type \in Formats, NEW a \in Nat, NEW j \in 0 .. WidthOf(type) - 1, NEW n,
           n = a * WidthOf(type) + j
    PROVE  n \in Nat /\ n \div WidthOf(type) = a /\ n % WidthOf(type) = j
<1>1. CASE WidthOf(type) = 4
    BY <1>1
<1>2. CASE WidthOf(type) = 6
    BY <1>2
<1> QED
    BY <1>1, <1>2 DEF WidthOf

\* The place of a byte within its part.
LEMMA Divided ==
    ASSUME NEW type \in Formats, NEW k \in Nat, NEW n \in 0 .. k * WidthOf(type) - 1
    PROVE  /\ n \div WidthOf(type) \in 0 .. k - 1 /\ n % WidthOf(type) \in 0 .. WidthOf(type) - 1
           /\ n = (n \div WidthOf(type)) * WidthOf(type) + (n % WidthOf(type))
<1>1. CASE WidthOf(type) = 4
    BY <1>1
<1>2. CASE WidthOf(type) = 6
    BY <1>2
<1> QED
    BY <1>1, <1>2 DEF WidthOf

\* The byte at a place of a part.
LEMMA ByteOfPart ==
    ASSUME NEW type \in Formats, NEW bam, NEW part \in LoadedParts[type],
           NEW p \in PlacesOf(type, part)
    PROVE  LET n == p - PlaceOf(type, part, part.from)
           IN  /\ n \in 0 .. (part.to - part.from + 1) * WidthOf(type) - 1
               /\ p \in DOMAIN BytesOf(type, bam)
               /\ BytesOf(type, bam)[p] =
                    SavedByte(bam, part.from + n \div WidthOf(type), n % WidthOf(type))
<1> DEFINE n == p - PlaceOf(type, part, part.from)
           chosen == CHOOSE x \in SavedParts[type] : p \in PlacesOf(type, x)
<1>1. IsPart(type, part)
    BY PartsFit
<1>2. PICK first \in Nat, k \in Nat : /\ first = PlaceOf(type, part, part.from)
                                      /\ k = (part.to - part.from + 1) * WidthOf(type)
                                      /\ PlacesOf(type, part) = first .. first + k - 1
    <2>1. PICK k : k = (part.to - part.from + 1) * WidthOf(type)
        OBVIOUS
    <2>2. part.to - part.from + 1 \in Nat /\ WidthOf(type) \in Nat
        <3>1. TracksOf[type] \in Nat
            BY TracksFill
        <3> QED
            BY <1>1, <3>1 DEF IsPart, WidthOf
    <2>3. k \in Nat
        BY <2>1, <2>2
    <2> QED
        BY <1>1, <2>1, <2>3 DEF IsPart
<1>3. n \in 0 .. k - 1
    BY <1>2
<1>4. SavedParts[type] = LoadedParts[type]
    BY PartsAre
<1>5. chosen \in LoadedParts[type] /\ p \in PlacesOf(type, chosen)
    BY <1>4
<1>6. chosen = part
    BY <1>5, PartsApart
<1>7. p \in UNION {PlacesOf(type, x) : x \in SavedParts[type]}
    BY <1>4
<1>8. part.width = WidthOf(type)
    BY <1>1 DEF IsPart
<1>9. WidthOf(type) \in {4, 6}
    BY DEF WidthOf
<1>10. n % WidthOf(type) \in 0 .. WidthOf(type) - 1
    <2> HIDE DEF n
    <2>1. CASE WidthOf(type) = 4
        BY <1>3, <2>1
    <2>2. CASE WidthOf(type) = 6
        BY <1>3, <2>2
    <2> QED
        BY <1>9, <2>1, <2>2
<1>11. BytesOf(type, bam)[p] =
            LET track == bam[part.from + n \div WidthOf(type)]
                b == (n % WidthOf(type)) - 1
            IN  IF b < 0 THEN track.count ELSE ByteOf({m \in 0 .. 7 : 8 * b + m \in track.free})
    <2> HIDE DEF chosen
    <2>1. BytesOf(type, bam)[p] =
            LET q == p - PlaceOf(type, chosen, chosen.from)
                track == bam[chosen.from + q \div chosen.width]
                b == (q % chosen.width) - 1
            IN  IF b < 0 THEN track.count ELSE ByteOf({m \in 0 .. 7 : 8 * b + m \in track.free})
        BY <1>7 DEF BytesOf, chosen
    <2> QED
        BY <1>6, <1>8, <2>1
<1>12. p \in DOMAIN BytesOf(type, bam)
    BY <1>7 DEF BytesOf
<1>13. BytesOf(type, bam)[p] = SavedByte(bam, part.from + n \div WidthOf(type), n % WidthOf(type))
    <2>1. PICK j \in Nat : j = n % WidthOf(type)
        BY <1>9, <1>10
    <2>2. j - 1 < 0 <=> j = 0
        BY <2>1
    <2> HIDE DEF n
    <2> QED
        BY <1>11, <2>1, <2>2 DEF SavedByte
<1> QED
    BY <1>2, <1>3, <1>12, <1>13

\* The bytes of the tables of an image are bytes.
RealTable == \A p \in DOMAIN source.table : source.table[p] \in 0 .. 255

\* A map is saved as bytes, beside the type of DOS.
LEMMA SavedBytes ==
    ASSUME NEW type \in Formats, NEW bam \in Maps(type)
    PROVE  /\ \A p \in DOMAIN BytesOf(type, bam) : BytesOf(type, bam)[p] \in 0 .. 255
           /\ DosPlace(type) \notin DOMAIN BytesOf(type, bam) /\ DosPlace(type) + 1 \notin DOMAIN BytesOf(type, bam)
<1>1. DOMAIN BytesOf(type, bam) = UNION {PlacesOf(type, x) : x \in LoadedParts[type]}
    BY PartsAre DEF BytesOf
<1>2. ASSUME NEW p \in DOMAIN BytesOf(type, bam) PROVE BytesOf(type, bam)[p] \in 0 .. 255
    <2>1. PICK part \in LoadedParts[type] : p \in PlacesOf(type, part)
        BY <1>1
    <2>2. PICK n : n = p - PlaceOf(type, part, part.from)
        OBVIOUS
    <2>3. /\ n \in 0 .. (part.to - part.from + 1) * WidthOf(type) - 1
          /\ BytesOf(type, bam)[p] = SavedByte(bam, part.from + n \div WidthOf(type), n % WidthOf(type))
        BY <2>1, <2>2, ByteOfPart
    <2>4. /\ part.from \in 1 .. TracksOf[type] /\ part.to \in part.from .. TracksOf[type]
          /\ TracksOf[type] \in Nat
        BY PartsFit, TracksFill DEF IsPart
    <2>5. PICK k \in Nat : k = part.to - part.from + 1
        BY <2>4
    <2>6. n \div WidthOf(type) \in 0 .. k - 1
        BY <2>3, <2>5, Divided
    <2>7. PICK t \in 1 .. TracksOf[type] : t = part.from + n \div WidthOf(type)
        BY <2>4, <2>5, <2>6
    <2>8. bam[t].count \in 0 .. 255
        BY DEF Maps
    <2>9. \A bits \in SUBSET (0 .. 7) : ByteOf(bits) \in 0 .. 255
        BY BitsOfByte
    <2> QED
        BY <2>3, <2>7, <2>8, <2>9 DEF SavedByte
<1>3. \A part \in LoadedParts[type] :
         DosPlace(type) \notin PlacesOf(type, part) /\ DosPlace(type) + 1 \notin PlacesOf(type, part)
    BY PartsFit
<1> QED
    BY <1>1, <1>2, <1>3

\* The byte that is loaded j bytes on from the place of a track was saved for it.
LEMMA TrackSaved ==
    ASSUME NEW type \in Formats, NEW bam, NEW part \in LoadedParts[type], NEW t \in part.from .. part.to,
           NEW j \in 0 .. WidthOf(type) - 1
    PROVE  /\ PlaceOf(type, part, t) + j \in DOMAIN BytesOf(type, bam)
           /\ BytesOf(type, bam)[PlaceOf(type, part, t) + j] = SavedByte(bam, t, j)
<1>1. /\ part.from \in 1 .. TracksOf[type] /\ part.to \in part.from .. TracksOf[type]
      /\ TracksOf[type] \in Nat /\ IsPart(type, part)
    BY PartsFit, TracksFill DEF IsPart
<1>2. PICK a \in Nat : t = part.from + a /\ a <= part.to - part.from
    <2>1. t \in Int /\ part.from \in Int /\ part.to \in Int /\ part.from <= t /\ t <= part.to
        BY <1>1
    <2>2. PICK a : a = t - part.from
        OBVIOUS
    <2>3. a \in Nat /\ t = part.from + a /\ a <= part.to - part.from
        BY <2>1, <2>2
    <2> QED
        BY <2>3
<1>3. PICK n : n = a * WidthOf(type) + j
    OBVIOUS
<1>4. n \in Nat /\ n \div WidthOf(type) = a /\ n % WidthOf(type) = j
    BY <1>3, Divides
<1>5. PICK first \in Nat : first = PlaceOf(type, part, part.from)
    BY <1>1 DEF IsPart
<1>6. WidthOf(type) \in {4, 6}
    BY DEF WidthOf
<1>7. PlaceOf(type, part, t) = first + a * WidthOf(type)
    <2>1. t - part.from = a
        BY <1>1, <1>2
    <2> QED
        BY <1>1, <1>5, <2>1 DEF IsPart
<1>8. PICK p : p = first + n
    OBVIOUS
<1>9. PlaceOf(type, part, t) + j = p
    BY <1>3, <1>6, <1>7, <1>8
<1>10. n <= (part.to - part.from + 1) * WidthOf(type) - 1
    <2>1. CASE WidthOf(type) = 4
        BY <1>1, <1>2, <1>3, <2>1
    <2>2. CASE WidthOf(type) = 6
        BY <1>1, <1>2, <1>3, <2>2
    <2> QED
        BY <1>6, <2>1, <2>2
<1>11. p \in PlacesOf(type, part)
    <2>1. PICK k : k = (part.to - part.from + 1) * WidthOf(type)
        OBVIOUS
    <2>2. k \in Int
        BY <1>1, <1>6, <2>1
    <2>3. PlacesOf(type, part) = first .. first + k - 1
        BY <1>1, <1>5, <2>1 DEF IsPart
    <2> QED
        BY <1>4, <1>8, <1>10, <2>1, <2>2, <2>3
<1>12. p - first = n
    BY <1>4, <1>8
<1>13. p \in DOMAIN BytesOf(type, bam) /\ BytesOf(type, bam)[p] = SavedByte(bam, part.from + a, j)
    BY <1>4, <1>5, <1>11, <1>12, ByteOfPart
<1> QED
    BY <1>2, <1>9, <1>13

\* The bits of a track, from its bytes.
LEMMA BitsOfTrack ==
    ASSUME NEW k \in Nat, NEW free \in SUBSET (0 .. 8 * (k - 1) - 1)
    PROVE  UNION {{8 * b + n : n \in {m \in 0 .. 7 : 8 * b + m \in free}} : b \in 0 .. k - 2} = free
<1> DEFINE all == UNION {{8 * b + n : n \in {m \in 0 .. 7 : 8 * b + m \in free}} : b \in 0 .. k - 2}
<1>1. ASSUME NEW x \in all PROVE x \in free
    OBVIOUS
<1>2. ASSUME NEW x \in free PROVE x \in all
    <2>1. x \in 0 .. 8 * (k - 1) - 1
        OBVIOUS
    <2>2. x \div 8 \in 0 .. k - 2 /\ x % 8 \in 0 .. 7 /\ x = 8 * (x \div 8) + (x % 8)
        BY <2>1
    <2>3. PICK b \in 0 .. k - 2, n \in 0 .. 7 : x = 8 * b + n
        BY <2>2
    <2>4. n \in {m \in 0 .. 7 : 8 * b + m \in free}
        BY <2>3
    <2> QED
        BY <2>3, <2>4
<1> HIDE DEF all
<1>3. all = free
    BY <1>1, <1>2
<1> QED
    BY <1>3 DEF all

\* A save of the map writes bytes, and what is loaded from them is the map.
LEMMA MapSaved ==
    ASSUME NEW type \in Formats, NEW bam \in Maps(type), RealTable,
           source'.table = Rewritten(source.table, BytesOf(type, bam))
    PROVE  /\ RealTable'
           /\ MapOnDisk(type)' = bam
           /\ DosTypeIsKnown(type)' <=> DosTypeIsKnown(type)
<1>1. PICK saved : saved = BytesOf(type, bam)
    OBVIOUS
<1>2. /\ DOMAIN source'.table = DOMAIN source.table \cup DOMAIN saved
      /\ \A p \in DOMAIN source.table \cup DOMAIN saved :
            source'.table[p] = IF p \in DOMAIN saved THEN saved[p] ELSE source.table[p]
    BY <1>1 DEF Rewritten
<1>3. RealTable'
    <2>1. \A p \in DOMAIN saved : saved[p] \in 0 .. 255
        BY <1>1, SavedBytes
    <2> QED
        BY <1>2, <2>1 DEF RealTable
<1>4. DosTypeIsKnown(type)' <=> DosTypeIsKnown(type)
    <2>1. DosPlace(type) \notin DOMAIN saved /\ DosPlace(type) + 1 \notin DOMAIN saved
        BY <1>1, SavedBytes
    <2>2. \A p : p \notin DOMAIN saved => Byte(p)' = Byte(p)
        BY <1>2 DEF Byte
    <2>3. Byte(DosPlace(type))' = Byte(DosPlace(type)) /\ Byte(DosPlace(type) + 1)' = Byte(DosPlace(type) + 1)
        BY <2>1, <2>2
    <2>4. DosTypeIsKnown(type) <=> <<Byte(DosPlace(type)), Byte(DosPlace(type) + 1)>> \in
                IF type = "D81" THEN {<<51, 68>>} ELSE {<<50, 65>>, <<50, 80>>}
        BY DEF DosTypeIsKnown, DosPlace
    <2>5. DosTypeIsKnown(type)' <=> <<Byte(DosPlace(type))', Byte(DosPlace(type) + 1)'>> \in
                IF type = "D81" THEN {<<51, 68>>} ELSE {<<50, 65>>, <<50, 80>>}
        BY DEF DosTypeIsKnown, DosPlace
    <2> QED
        BY <2>3, <2>4, <2>5
<1>5. ASSUME NEW t \in 1 .. TracksOf[type]
      PROVE  LET part == PartOf(LoadedParts[type], t)
                 p == PlaceOf(type, part, t)
             IN  [count |-> Byte(p)',
                  free |-> UNION {{8 * b + n : n \in BitsOf(Byte(p + 1 + b)')} : b \in 0 .. part.width - 2}]
                 = bam[t]
    <2> DEFINE part == PartOf(LoadedParts[type], t)
               p == PlaceOf(type, part, t)
    <2>1. part \in LoadedParts[type] /\ t \in part.from .. part.to
        BY PartsApart DEF PartOf
    <2> HIDE DEF part
    <2>2. part \in LoadedParts[type] /\ t \in part.from .. part.to
        BY <2>1
    <2>3. p = PlaceOf(type, part, t)
        OBVIOUS
    <2> HIDE DEF p
    <2>4. part.width = WidthOf(type) /\ WidthOf(type) \in {4, 6}
        BY <2>2, PartsFit DEF IsPart, WidthOf
    <2>5. \A j \in 0 .. WidthOf(type) - 1 : Byte(p + j)' = SavedByte(bam, t, j)
        <3>1. \A j \in 0 .. WidthOf(type) - 1 : p + j \in DOMAIN saved /\ saved[p + j] = SavedByte(bam, t, j)
            BY <1>1, <2>2, <2>3, TrackSaved
        <3> QED
            BY <1>2, <3>1 DEF Byte
    <2>6. p \in Int
        <3>1. /\ part.from \in 1 .. TracksOf[type] /\ part.to \in part.from .. TracksOf[type]
              /\ TracksOf[type] \in Nat /\ IsPart(type, part)
            BY <2>2, PartsFit, TracksFill DEF IsPart
        <3>2. t - part.from \in Int /\ PlaceOf(type, part, part.from) \in Int
            BY <3>1 DEF IsPart
        <3>3. p = PlaceOf(type, part, part.from) + (t - part.from) * WidthOf(type)
            BY <2>2, <2>3, <3>1 DEF IsPart
        <3> QED
            BY <2>4, <3>2, <3>3
    <2>7. Byte(p)' = bam[t].count
        <3>1. p + 0 = p /\ 0 \in 0 .. WidthOf(type) - 1
            BY <2>4, <2>6
        <3> QED
            BY <2>5, <3>1 DEF SavedByte
    <2>8. ASSUME NEW b \in 0 .. part.width - 2
          PROVE  BitsOf(Byte(p + 1 + b)') = {m \in 0 .. 7 : 8 * b + m \in bam[t].free}
        <3>1. PICK j : j = b + 1
            OBVIOUS
        <3>2. j \in 0 .. WidthOf(type) - 1 /\ j # 0 /\ j - 1 = b /\ p + 1 + b = p + j
            BY <2>4, <2>6, <3>1
        <3>3. Byte(p + 1 + b)' = ByteOf({m \in 0 .. 7 : 8 * b + m \in bam[t].free})
            BY <2>5, <3>2 DEF SavedByte
        <3>4. {m \in 0 .. 7 : 8 * b + m \in bam[t].free} \in SUBSET (0 .. 7)
            OBVIOUS
        <3> QED
            BY <3>3, <3>4, BitsOfByte
    <2>9. /\ bam[t] = [count |-> bam[t].count, free |-> bam[t].free]
          /\ bam[t].free \in SUBSET (0 .. 8 * (WidthOf(type) - 1) - 1)
        BY DEF Maps
    <2>10. UNION {{8 * b + n : n \in BitsOf(Byte(p + 1 + b)')} : b \in 0 .. part.width - 2} = bam[t].free
        <3>1. UNION {{8 * b + n : n \in {m \in 0 .. 7 : 8 * b + m \in bam[t].free}} : b \in 0 .. WidthOf(type) - 2}
                = bam[t].free
            BY <2>4, <2>9, BitsOfTrack
        <3>2. {{8 * b + n : n \in BitsOf(Byte(p + 1 + b)')} : b \in 0 .. part.width - 2}
                = {{8 * b + n : n \in {m \in 0 .. 7 : 8 * b + m \in bam[t].free}} : b \in 0 .. WidthOf(type) - 2}
            BY <2>4, <2>8
        <3> QED
            BY <3>1, <3>2
    <2>11. [count |-> Byte(p)',
            free |-> UNION {{8 * b + n : n \in BitsOf(Byte(p + 1 + b)')} : b \in 0 .. part.width - 2}] = bam[t]
        BY <2>7, <2>9, <2>10
    <2> QED
        BY <2>11 DEF part, p
<1>6. MapOnDisk(type)' = [t \in 1 .. TracksOf[type] |->
            LET part == PartOf(LoadedParts[type], t)
                p == PlaceOf(type, part, t)
            IN  [count |-> Byte(p)',
                 free |-> UNION {{8 * b + n : n \in BitsOf(Byte(p + 1 + b)')} : b \in 0 .. part.width - 2}]]
    BY DEF MapOnDisk
<1>7. bam = [t \in 1 .. TracksOf[type] |-> bam[t]]
    BY DEF Maps
<1>8. MapOnDisk(type)' = bam
    BY <1>5, <1>6, <1>7
<1> QED
    BY <1>3, <1>4, <1>8

\* What the map of an open image and the one on the disk are, between any two steps.
Mapped(type, bam) == type \in Formats /\ bam \in Maps(type)
MapInv ==
    /\ RealTable
    /\ pc = "openD64" =>
          /\ DOMAIN disk = {"type", "bam", "saved"}
          /\ Mapped(disk.type, disk.bam) /\ DosTypeIsKnown(disk.type)
          /\ disk.saved => MapOnDisk(disk.type) = disk.bam

\* A map that is loaded is one.
LEMMA MapLoaded ==
    ASSUME RealTable, NEW type \in Formats
    PROVE  MapOnDisk(type) \in Maps(type)
<1>1. \A p : Byte(p) \in 0 .. 255
    BY DEF Byte, RealTable
<1>2. ASSUME NEW t \in 1 .. TracksOf[type]
      PROVE  LET part == PartOf(LoadedParts[type], t)
                 p == PlaceOf(type, part, t)
             IN  [count |-> Byte(p),
                  free |-> UNION {{8 * b + n : n \in BitsOf(Byte(p + 1 + b))} : b \in 0 .. part.width - 2}]
                 \in [count : 0 .. 255, free : SUBSET (0 .. 8 * (WidthOf(type) - 1) - 1)]
    <2> DEFINE part == PartOf(LoadedParts[type], t)
               p == PlaceOf(type, part, t)
    <2>1. part \in LoadedParts[type] /\ t \in part.from .. part.to
        BY PartsApart DEF PartOf
    <2> HIDE DEF part
    <2> HIDE DEF p
    <2>2. part.width = WidthOf(type) /\ WidthOf(type) \in {4, 6}
        BY <2>1, PartsFit DEF IsPart, WidthOf
    <2>3. ASSUME NEW b \in 0 .. part.width - 2, NEW n \in BitsOf(Byte(p + 1 + b))
          PROVE  8 * b + n \in 0 .. 8 * (WidthOf(type) - 1) - 1
        <3>1. n \in 0 .. 7
            BY DEF BitsOf
        <3> QED
            BY <2>2, <3>1
    <2>4. UNION {{8 * b + n : n \in BitsOf(Byte(p + 1 + b))} : b \in 0 .. part.width - 2}
            \in SUBSET (0 .. 8 * (WidthOf(type) - 1) - 1)
        BY <2>3
    <2>5. [count |-> Byte(p),
           free |-> UNION {{8 * b + n : n \in BitsOf(Byte(p + 1 + b))} : b \in 0 .. part.width - 2}]
            \in [count : 0 .. 255, free : SUBSET (0 .. 8 * (WidthOf(type) - 1) - 1)]
        BY <1>1, <2>4
    <2> QED
        BY <2>5 DEF part, p
<1> QED
    BY <1>2 DEF MapOnDisk, Maps

\* A sector that is used or given back leaves a map.
LEMMA SectorMapped ==
    ASSUME MapInv, NEW ts \in EdgeSectors, NEW used \in BOOLEAN, SectorSet(ts, used)
    PROVE  MapInv'
<1> DEFINE type == disk.type
           track == disk.bam[ts[1]]
           was == ts[2] \in track.free
           next == IF used THEN [free |-> track.free \ {ts[2]},
                                 count |-> IF was THEN (track.count + 255) % 256 ELSE track.count]
                   ELSE [free |-> track.free \cup {ts[2]},
                         count |-> IF was THEN track.count ELSE (track.count + 1) % 256]
<1>1. pc = "openD64" /\ IsSector(type, ts) /\ UNCHANGED <<source, pc>>
    BY DEF SectorSet
<1>2. disk' = [disk EXCEPT !.saved = FALSE, !.bam[ts[1]] = next]
    BY DEF SectorSet
<1>3. type \in Formats /\ disk.bam \in Maps(type) /\ DosTypeIsKnown(type) /\ DOMAIN disk = {"type", "bam", "saved"}
    BY <1>1 DEF MapInv, Mapped
<1>4. ts[1] \in 1 .. TracksOf[type] /\ ts[2] \in 0 .. SectorsOf(type, ts[1]) - 1
    BY <1>1 DEF IsSector
<1>5. ts[2] \in 0 .. 8 * (WidthOf(type) - 1) - 1
    <2>1. SectorsOf(type, ts[1]) \in 17 .. 40 /\ (type # "D81" => SectorsOf(type, ts[1]) <= 21)
        BY <1>3, <1>4, NextTrack
    <2>2. CASE type = "D81"
        <3>1. WidthOf(type) = 6
            BY <2>2 DEF WidthOf
        <3> QED
            BY <1>4, <2>1, <3>1
    <2>3. CASE type # "D81"
        <3>1. WidthOf(type) = 4
            BY <2>3 DEF WidthOf
        <3> QED
            BY <1>4, <2>1, <2>3, <3>1
    <2> QED
        BY <2>2, <2>3
<1>6. next \in [count : 0 .. 255, free : SUBSET (0 .. 8 * (WidthOf(type) - 1) - 1)]
    <2>1. track \in [count : 0 .. 255, free : SUBSET (0 .. 8 * (WidthOf(type) - 1) - 1)]
        BY <1>3, <1>4 DEF Maps
    <2>2. PICK bits : bits = 0 .. 8 * (WidthOf(type) - 1) - 1
        OBVIOUS
    <2>3. /\ track.count \in 0 .. 255 /\ track.free \in SUBSET bits /\ ts[2] \in bits
        BY <1>5, <2>1, <2>2
    <2>4. (track.count + 255) % 256 \in 0 .. 255 /\ (track.count + 1) % 256 \in 0 .. 255
        <3>1. PICK c \in 0 .. 255 : c = track.count
            BY <2>3
        <3>2. (c + 255) % 256 \in 0 .. 255 /\ (c + 1) % 256 \in 0 .. 255
            OBVIOUS
        <3> QED
            BY <3>1, <3>2
    <2>5. track.free \ {ts[2]} \in SUBSET bits /\ track.free \cup {ts[2]} \in SUBSET bits
        BY <2>3
    <2> HIDE DEF track
    <2> QED
        BY <2>2, <2>3, <2>4, <2>5
<1> HIDE DEF next, type
<1>7. disk'.type = type /\ disk'.bam = [disk.bam EXCEPT ![ts[1]] = next] /\ disk'.saved = FALSE
      /\ DOMAIN disk' = {"type", "bam", "saved"}
    BY <1>2, <1>3 DEF type
<1>8. disk'.bam \in Maps(type)
    BY <1>3, <1>4, <1>6, <1>7 DEF Maps
<1>9. RealTable' /\ \A x : DosTypeIsKnown(x)' = DosTypeIsKnown(x)
    BY <1>1 DEF MapInv, RealTable, DosTypeIsKnown, Byte
<1>10. Mapped(disk.type, disk.bam)' /\ DosTypeIsKnown(disk.type)'
    <2>1. \A x, y : x = disk'.type /\ y = disk'.bam =>
             /\ Mapped(disk.type, disk.bam)' = Mapped(x, y)
             /\ DosTypeIsKnown(disk.type)' = DosTypeIsKnown(x)'
        BY DEF Mapped, Maps, DosTypeIsKnown, Byte
    <2>2. Mapped(type, disk'.bam)
        BY <1>3, <1>8 DEF Mapped
    <2> QED
        BY <1>3, <1>7, <1>9, <2>1, <2>2
<1> QED
    BY <1>7, <1>9, <1>10 DEF MapInv

\* A map that is saved is on the disk.
LEMMA SaveMapped ==
    ASSUME RealImage, MapInv, SaveMap
    PROVE  MapInv'
<1>1. pc = "openD64" /\ pc' = pc
    BY DEF SaveMap
<1>2. PICK type, bam : type = disk.type /\ bam = disk.bam
    OBVIOUS
<1>3. Mapped(type, bam) /\ DosTypeIsKnown(type) /\ DOMAIN disk = {"type", "bam", "saved"}
    BY <1>1, <1>2 DEF MapInv
<1>4. source'.table = Rewritten(source.table, BytesOf(type, bam))
    BY <1>2 DEF SaveMap, RealImage, Fields
<1>5. RealTable' /\ MapOnDisk(type)' = bam /\ (DosTypeIsKnown(type)' <=> DosTypeIsKnown(type))
    BY <1>3, <1>4, MapSaved DEF MapInv, Mapped
<1>6. disk'.type = type /\ disk'.bam = bam /\ DOMAIN disk' = {"type", "bam", "saved"}
    BY <1>2, <1>3 DEF SaveMap
<1>7. /\ Mapped(disk.type, disk.bam)' /\ DosTypeIsKnown(disk.type)'
      /\ (MapOnDisk(disk.type) = disk.bam)'
    <2>1. \A x, y : x = disk'.type /\ y = disk'.bam =>
             /\ Mapped(disk.type, disk.bam)' = Mapped(x, y)
             /\ DosTypeIsKnown(disk.type)' = DosTypeIsKnown(x)'
             /\ (MapOnDisk(disk.type) = disk.bam)' <=> MapOnDisk(x)' = y
        BY DEF Mapped, Maps, DosTypeIsKnown, MapOnDisk
    <2> QED
        BY <1>3, <1>5, <1>6, <2>1
<1> QED
    BY <1>5, <1>6, <1>7 DEF MapInv

\* A Commodore image that is loaded has its map.
LEMMA LoadMapped ==
    ASSUME MapInv, LoadD64
    PROVE  MapInv'
<1>1. source' = source
    BY DEF LoadD64
<1>2. RealTable' /\ \A x : DosTypeIsKnown(x)' = DosTypeIsKnown(x) /\ MapOnDisk(x)' = MapOnDisk(x)
    BY <1>1 DEF MapInv, RealTable, DosTypeIsKnown, MapOnDisk, Byte
<1>3. CASE pc' = "adf"
    BY <1>2, <1>3 DEF MapInv
<1>4. CASE pc' # "adf"
    <2>1. PICK type \in TypesOf(source.bytes) :
             CanLoadDisk(type) /\ disk' = [type |-> type, bam |-> MapOnDisk(type), saved |-> TRUE]
        BY <1>4 DEF LoadD64
    <2>2. type \in Formats
        BY FormatsAre DEF TypesOf
    <2>3. DosTypeIsKnown(type)
        BY <2>1 DEF CanLoadDisk
    <2>4. MapOnDisk(type) \in Maps(type)
        BY <2>2, MapLoaded DEF MapInv
    <2>5. disk'.type = type /\ disk'.bam = MapOnDisk(type) /\ DOMAIN disk' = {"type", "bam", "saved"}
        BY <2>1
    <2>6. /\ Mapped(disk.type, disk.bam)' /\ DosTypeIsKnown(disk.type)'
          /\ (MapOnDisk(disk.type) = disk.bam)'
        <3>1. \A x, y : x = disk'.type /\ y = disk'.bam =>
                 /\ Mapped(disk.type, disk.bam)' = Mapped(x, y)
                 /\ DosTypeIsKnown(disk.type)' = DosTypeIsKnown(x)'
                 /\ (MapOnDisk(disk.type) = disk.bam)' <=> MapOnDisk(x)' = y
            BY DEF Mapped, Maps, DosTypeIsKnown, MapOnDisk
        <3>2. Mapped(type, MapOnDisk(type))
            BY <2>2, <2>4 DEF Mapped
        <3> QED
            BY <1>2, <2>3, <2>5, <3>1, <3>2
    <2> QED
        BY <1>2, <2>5, <2>6 DEF MapInv
<1> QED
    BY <1>3, <1>4

\* Every other step leaves the image, and an open disk.
LEMMA MapQuiet ==
    ASSUME MapInv, source' = source, pc' = "openD64" => pc = "openD64" /\ disk' = disk
    PROVE  MapInv'
<1>1. RealTable' /\ \A x : DosTypeIsKnown(x)' = DosTypeIsKnown(x) /\ MapOnDisk(x)' = MapOnDisk(x)
    BY DEF MapInv, RealTable, DosTypeIsKnown, MapOnDisk, Byte
<1>2. CASE pc' = "openD64"
    <2>1. pc = "openD64" /\ disk' = disk
        BY <1>2
    <2>2. \A x, y : x = disk'.type /\ y = disk'.bam =>
             /\ Mapped(disk.type, disk.bam)' = Mapped(x, y)
             /\ DosTypeIsKnown(disk.type)' = DosTypeIsKnown(x)'
             /\ (MapOnDisk(disk.type) = disk.bam)' <=> MapOnDisk(x)' = y
        BY DEF Mapped, Maps, DosTypeIsKnown, MapOnDisk
    <2>3. PICK x, y : x = disk.type /\ y = disk.bam
        OBVIOUS
    <2>4. Mapped(x, y) /\ DosTypeIsKnown(x) /\ (disk.saved => MapOnDisk(x) = y)
        BY <2>1, <2>3 DEF MapInv
    <2>5. /\ Mapped(disk.type, disk.bam)' /\ DosTypeIsKnown(disk.type)'
          /\ (disk.saved => (MapOnDisk(disk.type) = disk.bam)')
        BY <1>1, <2>1, <2>2, <2>3, <2>4
    <2>6. DOMAIN disk' = {"type", "bam", "saved"} /\ disk'.saved = disk.saved
        BY <2>1 DEF MapInv
    <2> QED
        BY <1>1, <2>5, <2>6 DEF MapInv
<1> QED
    BY <1>1, <1>2 DEF MapInv

\* Before anything is opened.
LEMMA InitMapped == Init => MapInv
<1> SUFFICES ASSUME Init PROVE MapInv
    OBVIOUS
<1>1. PICK kind \in DOMAIN Images : source \in Images[kind]
    BY DEF Init
<1>2. RealTable
    BY <1>1, ImagesAssumption DEF RealTable
<1> QED
    BY <1>2 DEF Init, MapInv

\* Every step of the client and of openImage.
LEMMA NextMapped ==
    ASSUME TypeInv, MapInv, [Next]_vars PROVE MapInv'
<1>1. CASE Open
    BY <1>1, MapQuiet DEF Open
<1>2. CASE LoadCommodore
    BY <1>2, LoadMapped DEF LoadCommodore
<1>3. CASE TryADF
    <2>1. pc' # "openD64" /\ source' = source
        BY <1>3 DEF TryADF
    <2> QED
        BY <2>1, MapQuiet
<1>4. CASE TestFat
    <2>1. pc' # "openD64" /\ source' = source
        BY <1>4 DEF TestFat
    <2> QED
        BY <2>1, MapQuiet
<1>5. CASE LoadFat
    BY <1>5, FatStages, MapQuiet DEF LoadFat
<1>6. CASE TestIso
    <2>1. pc' # "openD64" /\ source' = source
        BY <1>6 DEF TestIso
    <2> QED
        BY <2>1, MapQuiet
<1>7. CASE LoadIso
    <2>1. pc' # "openD64" /\ source' = source
        BY <1>7, IsoStages DEF LoadIso, TypeInv, TypeOK
    <2> QED
        BY <2>1, MapQuiet
<1>8. CASE UseMap
    BY <1>8, SectorMapped, SaveMapped DEF UseMap, TypeInv
<1>9. CASE Close
    <2>1. pc' # "openD64" /\ source' = source
        BY <1>9 DEF Close
    <2> QED
        BY <2>1, MapQuiet
<1>10. CASE \E path \in Paths : Lookup(path)
    <2>1. pc' = pc /\ source' = source /\ disk' = disk
        BY <1>10 DEF Lookup, formats
    <2> QED
        BY <2>1, MapQuiet
<1>11. CASE UNCHANGED vars
    <2>1. pc' = pc /\ source' = source /\ disk' = disk
        BY <1>11 DEF vars
    <2> QED
        BY <2>1, MapQuiet
<1> QED
    BY <1>1, <1>2, <1>3, <1>4, <1>5, <1>6, <1>7, <1>8, <1>9, <1>10, <1>11 DEF Next, OpenStep

\* MapSurvives: a map that was saved is the one that is loaded, and the image still
\* opens; the sectors of the tracks fill the image (filesystemBitmapLoad and -Save,
\* sectorSet, sectorOffset).
THEOREM SavedMapSurvives ==
    Spec => []MapSurvives
<1>1. ASSUME MapInv PROVE MapSurvives
    <2> SUFFICES ASSUME pc = "openD64"
                 PROVE  /\ SectorsTile(disk.type) /\ CanLoadDisk(disk.type)
                        /\ disk.saved => MapOnDisk(disk.type) = disk.bam
        BY DEF MapSurvives
    <2>1. disk.type \in Formats /\ DosTypeIsKnown(disk.type) /\ (disk.saved => MapOnDisk(disk.type) = disk.bam)
        BY <1>1 DEF MapInv, Mapped
    <2>2. SectorsTile(disk.type)
        BY <2>1, TilesAll
    <2>3. \A part \in LoadedParts[disk.type] : PartFits(part)
        BY <2>1, PartsFit DEF IsPart
    <2> QED
        BY <2>1, <2>2, <2>3 DEF CanLoadDisk
<1>2. MapInv => MapSurvives
    BY <1>1
<1>3. TypeInv /\ MapInv /\ [Next]_vars => MapInv'
    BY NextMapped
<1> QED
    BY <1>2, <1>3, InitMapped, InitTypes, NextTypes, PTL DEF Spec

-----------------------------------------------------------------------------
(* Tables of 12, 16 and 32 bits, bit by bit *)

\* The powers that the bits of a byte stand for, in each place of an entry.
PowersAt(j) ==
    /\ 2 ^ j \in {1, 2, 4, 8, 16, 32, 64, 128}
    /\ 2 ^ (4 + j) = 16 * 2 ^ j
    /\ 2 ^ (8 + j) = 256 * 2 ^ j /\ 2 ^ (16 + j) = 65536 * 2 ^ j /\ 2 ^ (24 + j) = 16777216 * 2 ^ j
LEMMA PlacedPowers ==
    ASSUME NEW j \in 0 .. 7 PROVE PowersAt(j)
<1>0. j \in {0, 1, 2, 3, 4, 5, 6, 7}
    BY SMT
<1>1. CASE j = 0
    <2>1. 4 + j = 4 /\ 8 + j = 8 /\ 16 + j = 16 /\ 24 + j = 24
        BY <1>1
    <2>2. /\ 2 ^ j = 1 /\ 2 ^ (4 + j) = 16
          /\ 2 ^ (8 + j) = 256 /\ 2 ^ (16 + j) = 65536 /\ 2 ^ (24 + j) = 16777216
        BY <1>1, <2>1
    <2> QED
        BY <2>2, SMT DEF PowersAt
<1>2. CASE j = 1
    <2>1. 4 + j = 5 /\ 8 + j = 9 /\ 16 + j = 17 /\ 24 + j = 25
        BY <1>2
    <2>2. /\ 2 ^ j = 2 /\ 2 ^ (4 + j) = 32
          /\ 2 ^ (8 + j) = 512 /\ 2 ^ (16 + j) = 131072 /\ 2 ^ (24 + j) = 33554432
        BY <1>2, <2>1
    <2> QED
        BY <2>2, SMT DEF PowersAt
<1>3. CASE j = 2
    <2>1. 4 + j = 6 /\ 8 + j = 10 /\ 16 + j = 18 /\ 24 + j = 26
        BY <1>3
    <2>2. /\ 2 ^ j = 4 /\ 2 ^ (4 + j) = 64
          /\ 2 ^ (8 + j) = 1024 /\ 2 ^ (16 + j) = 262144 /\ 2 ^ (24 + j) = 67108864
        BY <1>3, <2>1
    <2> QED
        BY <2>2, SMT DEF PowersAt
<1>4. CASE j = 3
    <2>1. 4 + j = 7 /\ 8 + j = 11 /\ 16 + j = 19 /\ 24 + j = 27
        BY <1>4
    <2>2. /\ 2 ^ j = 8 /\ 2 ^ (4 + j) = 128
          /\ 2 ^ (8 + j) = 2048 /\ 2 ^ (16 + j) = 524288 /\ 2 ^ (24 + j) = 134217728
        BY <1>4, <2>1
    <2> QED
        BY <2>2, SMT DEF PowersAt
<1>5. CASE j = 4
    <2>1. 4 + j = 8 /\ 8 + j = 12 /\ 16 + j = 20 /\ 24 + j = 28
        BY <1>5
    <2>2. /\ 2 ^ j = 16 /\ 2 ^ (4 + j) = 256
          /\ 2 ^ (8 + j) = 4096 /\ 2 ^ (16 + j) = 1048576 /\ 2 ^ (24 + j) = 268435456
        BY <1>5, <2>1
    <2> QED
        BY <2>2, SMT DEF PowersAt
<1>6. CASE j = 5
    <2>1. 4 + j = 9 /\ 8 + j = 13 /\ 16 + j = 21 /\ 24 + j = 29
        BY <1>6
    <2>2. /\ 2 ^ j = 32 /\ 2 ^ (4 + j) = 512
          /\ 2 ^ (8 + j) = 8192 /\ 2 ^ (16 + j) = 2097152 /\ 2 ^ (24 + j) = 536870912
        BY <1>6, <2>1
    <2> QED
        BY <2>2, SMT DEF PowersAt
<1>7. CASE j = 6
    <2>1. 4 + j = 10 /\ 8 + j = 14 /\ 16 + j = 22 /\ 24 + j = 30
        BY <1>7
    <2>2. /\ 2 ^ j = 64 /\ 2 ^ (4 + j) = 1024
          /\ 2 ^ (8 + j) = 16384 /\ 2 ^ (16 + j) = 4194304 /\ 2 ^ (24 + j) = 1073741824
        BY <1>7, <2>1
    <2> QED
        BY <2>2, SMT DEF PowersAt
<1>8. CASE j = 7
    <2>1. 4 + j = 11 /\ 8 + j = 15 /\ 16 + j = 23 /\ 24 + j = 31
        BY <1>8
    <2>2. /\ 2 ^ j = 128 /\ 2 ^ (4 + j) = 2048
          /\ 2 ^ (8 + j) = 32768 /\ 2 ^ (16 + j) = 8388608 /\ 2 ^ (24 + j) = 2147483648
        BY <1>8, <2>1
    <2> QED
        BY <2>2, SMT DEF PowersAt
<1> QED
    BY <1>0, <1>1, <1>2, <1>3, <1>4, <1>5, <1>6, <1>7, <1>8

\* Bit j of a number.
BitIn(x, j) == (x \div 2 ^ j) % 2

LowByte(x, b, y) == b \in 0 .. 255 /\ y \in Nat /\ x = b + 256 * y

\* The low bits of a number are those of its lowest byte.
LEMMA LowBits ==
    ASSUME NEW x, NEW b, NEW y, LowByte(x, b, y), NEW j \in 0 .. 7
    PROVE  BitIn(x, j) = BitIn(b, j)
<1> DEFINE Same(d) == (x \div d) % 2 = (b \div d) % 2
<1>1. Same(1) /\ Same(2) /\ Same(4) /\ Same(8)
    BY SMT DEF LowByte
<1>2. Same(16) /\ Same(32) /\ Same(64) /\ Same(128)
    BY SMT DEF LowByte
<1> HIDE DEF Same
<1>3. 2 ^ j \in {1, 2, 4, 8, 16, 32, 64, 128}
    <2>1. PowersAt(j)
        BY PlacedPowers
    <2> QED
        BY <2>1 DEF PowersAt
<1>4. Same(2 ^ j)
    BY <1>1, <1>2, <1>3
<1> QED
    BY <1>4 DEF Same, BitIn

ShiftedOut(x, y1, y2, y3) == y1 = x \div 256 /\ y2 = x \div 65536 /\ y3 = x \div 16777216

\* The bits above a byte, two or three are those of what is left when these are
\* shifted out.
LEMMA HighBits ==
    ASSUME NEW x \in Nat, NEW y1, NEW y2, NEW y3, ShiftedOut(x, y1, y2, y3), NEW j \in 0 .. 7
    PROVE  BitIn(x, 8 + j) = BitIn(y1, j) /\ BitIn(x, 16 + j) = BitIn(y2, j) /\ BitIn(x, 24 + j) = BitIn(y3, j)
<1> DEFINE Splits(d) == /\ x \div (256 * d) = (x \div 256) \div d
                       /\ x \div (65536 * d) = (x \div 65536) \div d
                       /\ x \div (16777216 * d) = (x \div 16777216) \div d
<1>1. Splits(1) /\ Splits(2) /\ Splits(4) /\ Splits(8)
    BY SMT
<1>2. Splits(16) /\ Splits(32) /\ Splits(64) /\ Splits(128)
    BY SMT
<1> HIDE DEF Splits
<1>3. PowersAt(j)
    BY PlacedPowers
<1>4. 2 ^ j \in {1, 2, 4, 8, 16, 32, 64, 128}
    BY <1>3 DEF PowersAt
<1>5. Splits(2 ^ j)
    BY <1>1, <1>2, <1>4
<1>6. PICK d : d = 2 ^ j
    OBVIOUS
<1>7. Splits(d) /\ 2 ^ (8 + j) = 256 * d /\ 2 ^ (16 + j) = 65536 * d /\ 2 ^ (24 + j) = 16777216 * d
    BY <1>3, <1>5, <1>6 DEF PowersAt
<1>8. x \div 2 ^ (8 + j) = y1 \div d /\ x \div 2 ^ (16 + j) = y2 \div d /\ x \div 2 ^ (24 + j) = y3 \div d
    BY <1>7, SMT DEF Splits, ShiftedOut
<1>9. BitIn(x, 8 + j) = (x \div 2 ^ (8 + j)) % 2 /\ BitIn(y1, j) = (y1 \div d) % 2
    BY <1>6, Zenon DEF BitIn
<1>10. BitIn(x, 16 + j) = (x \div 2 ^ (16 + j)) % 2 /\ BitIn(y2, j) = (y2 \div d) % 2
    BY <1>6, Zenon DEF BitIn
<1>11. BitIn(x, 24 + j) = (x \div 2 ^ (24 + j)) % 2 /\ BitIn(y3, j) = (y3 \div d) % 2
    BY <1>6, Zenon DEF BitIn
<1> QED
    BY <1>8, <1>9, <1>10, <1>11, Zenon

\* What is left when a half of a byte is shifted out.
LEMMA HighNibble ==
    ASSUME NEW x \in Nat, NEW y, y = x \div 16, NEW j \in 0 .. 7
    PROVE  BitIn(x, 4 + j) = BitIn(y, j)
<1> DEFINE Splits(d) == x \div (16 * d) = (x \div 16) \div d
<1>1. Splits(1) /\ Splits(2) /\ Splits(4) /\ Splits(8)
    BY SMT
<1>2. Splits(16) /\ Splits(32) /\ Splits(64) /\ Splits(128)
    BY SMT
<1> HIDE DEF Splits
<1>3. PowersAt(j)
    BY PlacedPowers
<1>4. PICK d : d = 2 ^ j
    OBVIOUS
<1>5. Splits(d) /\ 2 ^ (4 + j) = 16 * d
    BY <1>1, <1>2, <1>3, <1>4, SMT DEF PowersAt
<1>6. x \div 2 ^ (4 + j) = y \div d
    BY <1>5, SMT DEF Splits
<1>7. BitIn(x, 4 + j) = (x \div 2 ^ (4 + j)) % 2
    BY DEF BitIn
<1>8. BitIn(y, j) = (y \div d) % 2
    BY <1>4 DEF BitIn
<1> QED
    BY <1>6, <1>7, <1>8, Zenon

\* The bits of a number of half a byte and more.
LEMMA LowNibble ==
    ASSUME NEW l \in 0 .. 15, NEW h \in Nat, NEW x, x = l + 16 * h, NEW j \in 0 .. 3
    PROVE  BitIn(x, j) = BitIn(l, j)
<1> DEFINE Same(d) == (x \div d) % 2 = (l \div d) % 2
<1>1. Same(1) /\ Same(2) /\ Same(4) /\ Same(8)
    BY SMT
<1>2. j \in {0, 1, 2, 3}
    BY SMT
<1>3. 2 ^ j \in {1, 2, 4, 8}
    <2>1. 2 ^ 0 = 1 /\ 2 ^ 1 = 2 /\ 2 ^ 2 = 4 /\ 2 ^ 3 = 8
        BY PowersOfTwo
    <2>2. (j = 0 => 2 ^ j = 1) /\ (j = 1 => 2 ^ j = 2) /\ (j = 2 => 2 ^ j = 4) /\ (j = 3 => 2 ^ j = 8)
        BY <2>1
    <2> QED
        BY <1>2, <2>2
<1> HIDE DEF Same
<1>4. Same(2 ^ j)
    BY <1>1, <1>3
<1> QED
    BY <1>4 DEF Same, BitIn

\* A bit of the source's tables is one of a byte.
LEMMA BitOfPlace ==
    ASSUME NEW p \in Nat, NEW j \in 0 .. 7, NEW n, n = 8 * p + j
    PROVE  Bit(n) = BitIn(Byte(p), j)
<1>1. n \div 8 = p /\ n % 8 = j
    BY SMT
<1> QED
    BY <1>1 DEF Bit, BitIn

\* The bits of a number of four bytes.
Digits(x, b0, b1, b2, b3) ==
    \A j \in 0 .. 7 : /\ BitIn(x, j) = BitIn(b0, j) /\ BitIn(x, 8 + j) = BitIn(b1, j)
                      /\ BitIn(x, 16 + j) = BitIn(b2, j) /\ BitIn(x, 24 + j) = BitIn(b3, j)
MadeOf(x, b0, b1, b2, b3) ==
    /\ b0 \in 0 .. 255 /\ b1 \in 0 .. 255 /\ b2 \in 0 .. 255 /\ b3 \in 0 .. 255
    /\ x = b0 + b1 * 256 + b2 * 65536 + b3 * 16777216
LEMMA FourBytes ==
    ASSUME NEW b0, NEW b1, NEW b2, NEW b3, NEW x, MadeOf(x, b0, b1, b2, b3)
    PROVE  Digits(x, b0, b1, b2, b3)
<1>0. b0 \in 0 .. 255 /\ b1 \in 0 .. 255 /\ b2 \in 0 .. 255 /\ b3 \in 0 .. 255
    BY SMT DEF MadeOf
<1>1. PICK y2 \in Nat : LowByte(y2, b2, b3)
    BY <1>0 DEF LowByte
<1>2. PICK y1 \in Nat : LowByte(y1, b1, y2)
    BY <1>0 DEF LowByte
<1>3. x \in Nat /\ LowByte(x, b0, y1) /\ ShiftedOut(x, y1, y2, b3) /\ b3 \in Nat
    <2>1. x = b0 + b1 * 256 + b2 * 65536 + b3 * 16777216
        BY SMT DEF MadeOf
    <2>2. x \in Nat /\ b3 \in Nat
        BY <1>0, <2>1, SMT
    <2>3. x = b0 + 256 * y1
        BY <1>0, <1>1, <1>2, <2>1, SMT DEF LowByte
    <2>4. x \div 256 = y1
        BY <1>0, <2>2, <2>3, SMT
    <2>5. x \div 65536 = y2
        <3>1. x = (b0 + 256 * b1) + 65536 * y2
            BY <1>0, <1>1, <2>1, SMT DEF LowByte
        <3> QED
            BY <1>0, <2>2, <3>1, SMT
    <2>6. x \div 16777216 = b3
        BY <1>0, <2>1, <2>2, SMT
    <2> QED
        BY <1>0, <2>2, <2>3, <2>4, <2>5, <2>6, SMT DEF ShiftedOut, LowByte
<1>4. ASSUME NEW j \in 0 .. 7
      PROVE  /\ BitIn(x, j) = BitIn(b0, j) /\ BitIn(x, 8 + j) = BitIn(b1, j)
             /\ BitIn(x, 16 + j) = BitIn(b2, j) /\ BitIn(x, 24 + j) = BitIn(b3, j)
    <2>1. BitIn(x, j) = BitIn(b0, j)
        BY <1>3, LowBits, SMT
    <2>2. BitIn(y1, j) = BitIn(b1, j)
        BY <1>2, <1>3, LowBits, SMT
    <2>3. BitIn(y2, j) = BitIn(b2, j)
        BY <1>1, <1>3, LowBits, SMT
    <2>4. BitIn(x, 8 + j) = BitIn(y1, j) /\ BitIn(x, 16 + j) = BitIn(y2, j) /\ BitIn(x, 24 + j) = BitIn(b3, j)
        BY <1>3, HighBits, SMT
    <2> QED
        BY <2>1, <2>2, <2>3, <2>4, Zenon
<1> QED
    BY <1>4, Zenon DEF Digits

\* The bits of the halves of a byte.
LEMMA Halves ==
    ASSUME NEW b \in 0 .. 255
    PROVE  /\ b % 16 \in 0 .. 15 /\ b \div 16 \in 0 .. 15
           /\ \A j \in 0 .. 3 : BitIn(b % 16, j) = BitIn(b, j) /\ BitIn(b \div 16, j) = BitIn(b, 4 + j)
<1>1. PICK l \in 0 .. 15, h \in 0 .. 15 : b = l + 16 * h /\ l = b % 16 /\ h = b \div 16
    BY SMT
<1>2. b \in Nat /\ h \in Nat
    BY SMT
<1>3. ASSUME NEW j \in 0 .. 3 PROVE BitIn(l, j) = BitIn(b, j) /\ BitIn(h, j) = BitIn(b, 4 + j)
    <2>1. j \in 0 .. 7
        BY SMT
    <2>2. BitIn(b, j) = BitIn(l, j)
        BY <1>1, <1>2, LowNibble, SMT
    <2>3. BitIn(b, 4 + j) = BitIn(h, j)
        BY <1>1, <1>2, <2>1, HighNibble, SMT
    <2> QED
        BY <2>2, <2>3
<1> QED
    BY <1>1, <1>3

-----------------------------------------------------------------------------
(* The entries of the tables *)

\* The bits from a byte on.
LEMMA BitsFrom ==
    ASSUME NEW q \in Nat, NEW m \in Nat, NEW j \in 0 .. 7, NEW n, n = 8 * q + 8 * m + j
    PROVE  Bit(n) = BitIn(Byte(q + m), j)
<1>1. PICK r \in Nat : r = q + m
    OBVIOUS
<1>2. n = 8 * r + j
    BY <1>1, SMT
<1> QED
    BY <1>1, <1>2, BitOfPlace

\* A byte of a table.
LEMMA TableByte ==
    ASSUME RealTable PROVE \A p : Byte(p) \in 0 .. 255
BY DEF RealTable, Byte

\* An entry of a table of 32 bits has 28 of them.
LEMMA Entry32 ==
    ASSUME RealTable, NEW p \in Nat, NEW n \in Nat, NEW c \in Nat, c \in DOMAIN Load32(p, n)
    PROVE  IsNumber(Load32(p, n)[c], 8 * p + c * 32, 28)
<1>1. PICK q \in Nat : q = p + 4 * c
    OBVIOUS
<1>2. PICK b0, b1, b2, b3 : b0 = Byte(q) /\ b1 = Byte(q + 1) /\ b2 = Byte(q + 2) /\ b3 = Byte(q + 3)
    OBVIOUS
<1>3. b0 \in 0 .. 255 /\ b1 \in 0 .. 255 /\ b2 \in 0 .. 255 /\ b3 \in 0 .. 255
    BY <1>2, TableByte
<1>4. PICK x : x = Load32(p, n)[c]
    OBVIOUS
<1>5. x = b0 + b1 * 256 + b2 * 65536 + (b3 % 16) * 16777216
    BY <1>1, <1>2, <1>4, SMT DEF Load32
<1>6. PICK l \in 0 .. 15 : l = b3 % 16 /\ \A j \in 0 .. 3 : BitIn(l, j) = BitIn(b3, j)
    BY <1>3, Halves
<1>7. Digits(x, b0, b1, b2, l)
    <2>1. MadeOf(x, b0, b1, b2, l)
        BY <1>3, <1>5, <1>6, SMT DEF MadeOf
    <2> QED
        BY <2>1, FourBytes, SMT
<1>8. x \in Nat /\ x < 268435456
    <2>1. x = b0 + b1 * 256 + b2 * 65536 + l * 16777216
        BY <1>5, <1>6
    <2> QED
        BY <1>3, <2>1, SMT
<1>9. ASSUME NEW k \in 0 .. 27 PROVE BitIn(x, k) = Bit(8 * p + c * 32 + k)
    <2>1. PICK t : t = 8 * p + c * 32 + k
        OBVIOUS
    <2>2. t = 8 * q + k
        BY <1>1, <2>1, SMT
    <2>3. CASE k \in 0 .. 7
        <3>1. Bit(t) = BitIn(Byte(q + 0), k) /\ q + 0 = q
            <4>1. t = 8 * q + 8 * 0 + k /\ q + 0 = q
                BY <2>2, SMT
            <4> QED
                BY <2>3, <4>1, BitsFrom, SMT
        <3>2. BitIn(x, k) = BitIn(b0, k)
            BY <1>7, <2>3 DEF Digits
        <3> QED
            BY <1>2, <2>1, <3>1, <3>2, SMT
    <2>4. CASE k \in 8 .. 15
        <3>1. PICK j \in 0 .. 7 : k = 8 + j
            BY <2>4, SMT
        <3>2. Bit(t) = BitIn(Byte(q + 1), j)
            <4>1. t = 8 * q + 8 * 1 + j
                BY <2>2, <3>1, SMT
            <4> QED
                BY <4>1, BitsFrom, SMT
        <3>3. BitIn(x, 8 + j) = BitIn(b1, j)
            BY <1>7, SMT DEF Digits
        <3> QED
            BY <1>2, <2>1, <3>1, <3>2, <3>3, SMT
    <2>5. CASE k \in 16 .. 23
        <3>1. PICK j \in 0 .. 7 : k = 16 + j
            BY <2>5, SMT
        <3>2. Bit(t) = BitIn(Byte(q + 2), j)
            <4>1. t = 8 * q + 8 * 2 + j
                BY <2>2, <3>1, SMT
            <4> QED
                BY <4>1, BitsFrom, SMT
        <3>3. BitIn(x, 16 + j) = BitIn(b2, j)
            BY <1>7, SMT DEF Digits
        <3> QED
            BY <1>2, <2>1, <3>1, <3>2, <3>3, SMT
    <2>6. CASE k \in 24 .. 27
        <3>1. PICK j \in 0 .. 3 : k = 24 + j
            BY <2>6, SMT
        <3>2. j \in 0 .. 7
            BY SMT
        <3>3. Bit(t) = BitIn(Byte(q + 3), j)
            <4>1. t = 8 * q + 8 * 3 + j
                BY <2>2, <3>1, SMT
            <4> QED
                BY <3>2, <4>1, BitsFrom, SMT
        <3>4. BitIn(x, 24 + j) = BitIn(l, j) /\ BitIn(l, j) = BitIn(b3, j)
            BY <1>6, <1>7, <3>2, SMT DEF Digits
        <3> QED
            BY <1>2, <2>1, <3>1, <3>3, <3>4, SMT
    <2>7. k \in 0 .. 7 \/ k \in 8 .. 15 \/ k \in 16 .. 23 \/ k \in 24 .. 27
        BY SMT
    <2> QED
        BY <2>3, <2>4, <2>5, <2>6, <2>7
<1>10. x < 2 ^ 28 /\ 28 - 1 = 27
    <2>1. 2 ^ 28 = 268435456
        BY SMT
    <2> QED
        BY <1>8, <2>1, SMT
<1>11. \A k \in 0 .. 28 - 1 : (x \div 2 ^ k) % 2 = Bit(8 * p + c * 32 + k)
    BY <1>9, <1>10 DEF BitIn
<1> QED
    BY <1>4, <1>8, <1>10, <1>11 DEF IsNumber

\* An entry of a table of 16 bits.
LEMMA Entry16 ==
    ASSUME RealTable, NEW p \in Nat, NEW n \in Nat, NEW c \in Nat, c \in DOMAIN Load16(p, n)
    PROVE  IsNumber(Load16(p, n)[c], 8 * p + c * 16, 16)
<1>1. PICK q \in Nat : q = p + 2 * c
    OBVIOUS
<1>2. PICK b0, b1 : b0 = Byte(q) /\ b1 = Byte(q + 1)
    OBVIOUS
<1>3. b0 \in 0 .. 255 /\ b1 \in 0 .. 255
    BY <1>2, TableByte
<1>4. PICK x : x = Load16(p, n)[c]
    OBVIOUS
<1>5. x = b0 + b1 * 256
    BY <1>1, <1>2, <1>4, SMT DEF Load16
<1>6. Digits(x, b0, b1, 0, 0)
    <2>1. MadeOf(x, b0, b1, 0, 0)
        BY <1>3, <1>5, SMT DEF MadeOf
    <2> QED
        BY <2>1, FourBytes, SMT
<1>7. x \in Nat /\ x < 65536
    BY <1>3, <1>5, SMT
<1>8. ASSUME NEW k \in 0 .. 15 PROVE BitIn(x, k) = Bit(8 * p + c * 16 + k)
    <2>1. PICK t : t = 8 * p + c * 16 + k
        OBVIOUS
    <2>2. t = 8 * q + k
        BY <1>1, <2>1, SMT
    <2>3. CASE k \in 0 .. 7
        <3>1. Bit(t) = BitIn(Byte(q), k)
            BY <2>2, <2>3, BitOfPlace
        <3>2. BitIn(x, k) = BitIn(b0, k)
            BY <1>6, <2>3 DEF Digits
        <3> QED
            BY <1>2, <2>1, <3>1, <3>2, SMT
    <2>4. CASE k \in 8 .. 15
        <3>1. PICK j \in 0 .. 7 : k = 8 + j
            BY <2>4, SMT
        <3>2. Bit(t) = BitIn(Byte(q + 1), j)
            <4>1. t = 8 * q + 8 * 1 + j
                BY <2>2, <3>1, SMT
            <4> QED
                BY <4>1, BitsFrom, SMT
        <3>3. BitIn(x, 8 + j) = BitIn(b1, j)
            BY <1>6, SMT DEF Digits
        <3> QED
            BY <1>2, <2>1, <3>1, <3>2, <3>3, SMT
    <2>5. k \in 0 .. 7 \/ k \in 8 .. 15
        BY SMT
    <2> QED
        BY <2>3, <2>4, <2>5
<1>9. x < 2 ^ 16 /\ 16 - 1 = 15
    <2>1. 2 ^ 16 = 65536
        BY SMT
    <2> QED
        BY <1>7, <2>1, SMT
<1>10. \A k \in 0 .. 16 - 1 : (x \div 2 ^ k) % 2 = Bit(8 * p + c * 16 + k)
    BY <1>8, <1>9 DEF BitIn
<1> QED
    BY <1>4, <1>7, <1>9, <1>10 DEF IsNumber

\* The first of two entries of a table of 12 bits has a byte and the low half of the next.
LEMMA FirstOfTwo ==
    ASSUME RealTable, NEW q \in Nat, NEW x, x = Byte(q) + (Byte(q + 1) % 16) * 256
    PROVE  IsNumber(x, 8 * q, 12)
<1>1. PICK b0, b1 : b0 = Byte(q) /\ b1 = Byte(q + 1)
    OBVIOUS
<1>2. b0 \in 0 .. 255 /\ b1 \in 0 .. 255
    BY <1>1, TableByte
<1>3. PICK l \in 0 .. 15 : l = b1 % 16 /\ \A j \in 0 .. 3 : BitIn(l, j) = BitIn(b1, j)
    BY <1>2, Halves
<1>4. x = b0 + l * 256
    BY <1>1, <1>3
<1>5. Digits(x, b0, l, 0, 0)
    <2>1. MadeOf(x, b0, l, 0, 0)
        BY <1>2, <1>4, SMT DEF MadeOf
    <2> QED
        BY <2>1, FourBytes, SMT
<1>6. x \in Nat /\ x < 4096
    BY <1>2, <1>4, SMT
<1>7. ASSUME NEW k \in 0 .. 11 PROVE BitIn(x, k) = Bit(8 * q + k)
    <2>1. PICK t : t = 8 * q + k
        OBVIOUS
    <2>2. CASE k \in 0 .. 7
        <3>1. Bit(t) = BitIn(Byte(q), k)
            BY <2>1, <2>2, BitOfPlace
        <3>2. BitIn(x, k) = BitIn(b0, k)
            BY <1>5, <2>2 DEF Digits
        <3> QED
            BY <1>1, <2>1, <3>1, <3>2, SMT
    <2>3. CASE k \in 8 .. 11
        <3>1. PICK j \in 0 .. 3 : k = 8 + j
            BY <2>3, SMT
        <3>2. j \in 0 .. 7
            BY SMT
        <3>3. Bit(t) = BitIn(Byte(q + 1), j)
            <4>1. t = 8 * q + 8 * 1 + j
                BY <2>1, <3>1, SMT
            <4> QED
                BY <3>2, <4>1, BitsFrom, SMT
        <3>4. BitIn(x, 8 + j) = BitIn(l, j) /\ BitIn(l, j) = BitIn(b1, j)
            BY <1>3, <1>5, <3>2, SMT DEF Digits
        <3> QED
            BY <1>1, <2>1, <3>1, <3>3, <3>4, SMT
    <2>4. k \in 0 .. 7 \/ k \in 8 .. 11
        BY SMT
    <2> QED
        BY <2>2, <2>3, <2>4
<1>8. x < 2 ^ 12 /\ 12 - 1 = 11
    <2>1. 2 ^ 12 = 4096
        BY SMT
    <2> QED
        BY <1>6, <2>1, SMT
<1>9. \A k \in 0 .. 12 - 1 : (x \div 2 ^ k) % 2 = Bit(8 * q + k)
    BY <1>7, <1>8 DEF BitIn
<1> QED
    BY <1>6, <1>8, <1>9 DEF IsNumber

\* The second has the high half of that byte and the one after it.
LEMMA SecondOfTwo ==
    ASSUME RealTable, NEW q \in Nat, NEW x, x = (Byte(q + 1) \div 16) + Byte(q + 2) * 16
    PROVE  IsNumber(x, 8 * q + 12, 12)
<1>1. PICK b1, b2 : b1 = Byte(q + 1) /\ b2 = Byte(q + 2)
    OBVIOUS
<1>2. b1 \in 0 .. 255 /\ b2 \in 0 .. 255
    BY <1>1, TableByte
<1>3. PICK l \in 0 .. 15 : l = b1 \div 16 /\ \A j \in 0 .. 3 : BitIn(l, j) = BitIn(b1, 4 + j)
    BY <1>2, Halves
<1>4. x = l + 16 * b2
    BY <1>1, <1>2, <1>3, SMT
<1>5. x \in Nat /\ x < 4096 /\ b2 \in Nat /\ b2 = x \div 16
    BY <1>2, <1>4, SMT
<1>6. ASSUME NEW k \in 0 .. 11 PROVE BitIn(x, k) = Bit(8 * q + 12 + k)
    <2>1. PICK t : t = 8 * q + 12 + k
        OBVIOUS
    <2>2. CASE k \in 0 .. 3
        <3>1. 4 + k \in 0 .. 7 /\ t = 8 * q + 8 * 1 + (4 + k)
            BY <2>1, <2>2, SMT
        <3>2. Bit(t) = BitIn(Byte(q + 1), 4 + k)
            BY <3>1, BitsFrom, SMT
        <3>3. BitIn(x, k) = BitIn(l, k)
            BY <1>4, <1>5, <2>2, LowNibble, SMT
        <3> QED
            BY <1>1, <1>3, <2>1, <2>2, <3>2, <3>3, SMT
    <2>3. CASE k \in 4 .. 11
        <3>1. PICK j \in 0 .. 7 : k = 4 + j
            BY <2>3, SMT
        <3>2. Bit(t) = BitIn(Byte(q + 2), j)
            <4>1. t = 8 * q + 8 * 2 + j
                BY <2>1, <3>1, SMT
            <4> QED
                BY <4>1, BitsFrom, SMT
        <3>3. BitIn(x, 4 + j) = BitIn(b2, j)
            BY <1>5, HighNibble, SMT
        <3> QED
            BY <1>1, <2>1, <3>1, <3>2, <3>3, SMT
    <2>4. k \in 0 .. 3 \/ k \in 4 .. 11
        BY SMT
    <2> QED
        BY <2>2, <2>3, <2>4
<1>7. x < 2 ^ 12 /\ 12 - 1 = 11
    <2>1. 2 ^ 12 = 4096
        BY SMT
    <2> QED
        BY <1>5, <2>1, SMT
<1>8. \A k \in 0 .. 12 - 1 : (x \div 2 ^ k) % 2 = Bit(8 * q + 12 + k)
    BY <1>6, <1>7 DEF BitIn
<1> QED
    BY <1>5, <1>7, <1>8 DEF IsNumber

\* An entry of a table of 12 bits.
LEMMA Entry12 ==
    ASSUME RealTable, NEW p \in Nat, NEW n \in Nat, NEW c \in Nat, c \in DOMAIN Load12(p, n)
    PROVE  IsNumber(Load12(p, n)[c], 8 * p + c * 12, 12)
<1>1. PICK h \in Nat : h = c \div 2
    BY SMT
<1>2. PICK q \in Nat : q = p + 3 * h
    OBVIOUS
<1>3. PICK x : x = Load12(p, n)[c]
    OBVIOUS
<1>4. CASE c % 2 = 0
    <2>1. x = Byte(q) + (Byte(q + 1) % 16) * 256
        BY <1>1, <1>2, <1>3, <1>4, SMT DEF Load12
    <2>2. 8 * p + c * 12 = 8 * q
        BY <1>1, <1>2, <1>4, SMT
    <2> QED
        BY <1>3, <2>1, <2>2, FirstOfTwo
<1>5. CASE c % 2 # 0
    <2>1. x = (Byte(q + 1) \div 16) + Byte(q + 2) * 16
        BY <1>1, <1>2, <1>3, <1>5, SMT DEF Load12
    <2>2. 8 * p + c * 12 = 8 * q + 12
        BY <1>1, <1>2, <1>5, SMT
    <2> QED
        BY <1>3, <2>1, <2>2, SecondOfTwo
<1> QED
    BY <1>4, <1>5

-----------------------------------------------------------------------------
(* TableIsRead, with where the volume is *)

\* The fields of what is read as a boot record.
LEMMA BootFields ==
    ASSUME RealImage, NEW n, NEW b, b = Boot(n)
    PROVE  /\ b.bytes \in Nat /\ b.perCluster \in Nat /\ b.reserved \in Nat /\ b.fats \in Nat
           /\ b.rootEntries \in Nat /\ b.total \in Nat /\ b.perFat \in Nat /\ b.perFat32 \in Nat
<1>1. CASE n \in DOMAIN source.boot
    <2>1. b \in BootRecords
        BY <1>1 DEF Boot, RealImage
    <2> QED
        BY <2>1 DEF BootRecords
<1>2. CASE n \notin DOMAIN source.boot
    <2>1. b = NoBoot
        BY <1>2 DEF Boot
    <2> QED
        BY <2>1 DEF NoBoot
<1> QED
    BY <1>1, <1>2

\* Where the table of a volume is, and that its data is somewhere, when its root area
\* can be counted.
LEMMA PlaceIs ==
    ASSUME RealImage, NEW n \in Nat, NEW b, b = Boot(n), NEW place \in Places(n, b),
           HasBlock(n), ~DividesByZero(n)
    PROVE  place.table = n + b.reserved /\ place.data \in Nat
<1>1. /\ b.bytes \in Nat /\ b.perCluster \in Nat /\ b.reserved \in Nat /\ b.fats \in Nat
      /\ b.rootEntries \in Nat /\ b.total \in Nat /\ b.perFat \in Nat /\ b.perFat32 \in Nat
    BY BootFields
<1>2. PICK perFat \in Nat : perFat = IF b.fats > 0 THEN b.perFat ELSE b.perFat32
    BY <1>1
<1>3. PICK root \in Nat : root = n + b.reserved + perFat * b.fats
    BY <1>1
<1>4. PICK data32 \in Nat : data32 = n + b.reserved + b.perFat32 * b.fats
    BY <1>1
<1>5. perFat > 0 /\ b.perCluster <= 128 /\ b.rootEntries > 0
            => Ceil(b.rootEntries * EntryBytes, b.bytes) \in Nat
    <2> SUFFICES ASSUME perFat > 0, b.perCluster <= 128, b.rootEntries > 0
                 PROVE  Ceil(b.rootEntries * EntryBytes, b.bytes) \in Nat
        OBVIOUS
    <2>0. b.bytes # 0
        BY <1>2 DEF DividesByZero
    <2>1. PICK u \in Nat : u = b.rootEntries * EntryBytes
        BY <1>1, FatAssumption
    <2>2. PICK w \in Nat : w = b.bytes /\ w > 0
        BY <1>1, <2>0
    <2>3. PICK s \in Nat : s = u + w - 1
        BY <2>2
    <2>4. s \div w \in Nat
        BY <2>2
    <2> QED
        BY <2>1, <2>2, <2>3, <2>4 DEF Ceil
<1>6. PICK table : table = n + b.reserved
    OBVIOUS
<1>7. \/ /\ perFat > 0 /\ b.perCluster <= 128 /\ b.rootEntries > 0
         /\ place = [table |-> table, root |-> root, rootCluster |-> 0,
                     data |-> root + Ceil(b.rootEntries * EntryBytes, b.bytes)]
      \/ \E c \in Garbage, d \in Garbage : place = [table |-> table, root |-> 0, rootCluster |-> c, data |-> d]
      \/ place = [table |-> table, rootCluster |-> b.rootCluster, data |-> data32,
                  root |-> ClusterToBlock([data |-> data32, boot |-> b], b.rootCluster)]
    BY <1>2, <1>3, <1>4, <1>6 DEF Places
<1>8. place.table = table
    BY <1>7
<1>9. place.data \in Nat
    <2>1. CASE /\ perFat > 0 /\ b.perCluster <= 128 /\ b.rootEntries > 0
               /\ place.data = root + Ceil(b.rootEntries * EntryBytes, b.bytes)
        BY <1>5, <2>1
    <2>2. CASE place.data \in Garbage
        BY <2>2, FatAssumption
    <2>3. CASE place.data = data32
        BY <2>3
    <2> QED
        BY <1>7, <2>1, <2>2, <2>3
<1> QED
    BY <1>6, <1>8, <1>9

\* What TableIsRead says of a volume.
IsRead(v) ==
    LET first == 8 * (v.start + v.boot.reserved) * v.boot.bytes
        width == IF v.type = "FAT12" THEN 12 ELSE IF v.type = "FAT16" THEN 16 ELSE 32
    IN  /\ DOMAIN v.map = 0 .. v.clusters + 1
        /\ \A c \in DOMAIN v.map :
              IsNumber(v.map[c], first + c * width, IF width = 32 THEN 28 ELSE width)
        /\ ClusterToBlock(v, v.clusters + 2) <= v.start + v.boot.total

\* What is known of a volume whatever its boot record says.
SizesKnown(v) ==
    /\ v.clusters \in Nat
    /\ v.boot.bytes \in Nat /\ v.boot.perCluster \in Nat /\ v.boot.rootEntries \in Nat

\* A table that is large enough has an entry for each cluster.
LEMMA LargeEnough ==
    ASSUME NEW m \in Int, NEW k \in Nat, Cardinality(0 .. m) >= k + 2
    PROVE  0 .. k + 1 \subseteq 0 .. m
<1>1. 0 \in Int /\ m \in Int
    OBVIOUS
<1>2. Cardinality(0 .. m) = IF 0 > m THEN 0 ELSE m - 0 + 1
    BY <1>1, FS_Interval
<1>3. m >= k + 1
    BY <1>2
<1> QED
    BY <1>3

\* partitionOpen reads the table of the volume it opens.
LEMMA OpenedIsRead ==
    ASSUME RealImage, RealTable, NEW n \in Nat, NEW place \in Places(n, Boot(n)), CanOpen(n, place),
           ~DividesByZero(n)
    PROVE  IsRead(Opened(n, place)) /\ SizesKnown(Opened(n, place))
<1>1. PICK b : b = Boot(n)
    OBVIOUS
<1>2. /\ b.bytes \in Nat /\ b.perCluster \in Nat /\ b.reserved \in Nat
      /\ b.total \in Nat /\ b.perFat \in Nat /\ b.perFat32 \in Nat /\ b.rootEntries \in Nat
    BY <1>1, BootFields
<1>3. place.table = n + b.reserved /\ place.data \in Nat
    BY <1>1, PlaceIs DEF CanOpen
<1>4. PICK data \in Nat : data = place.data
    BY <1>3
<1>5. PICK per \in Nat : per = b.perCluster /\ per > 0
    BY <1>1, <1>2 DEF CanOpen
<1>6. PICK total \in Nat : total = b.total /\ data <= total
    BY <1>1, <1>2, <1>4 DEF CanOpen
<1>7. PICK clusters : clusters = (total - data) \div per
    OBVIOUS
<1>8. clusters \in Nat /\ clusters * per <= total - data
    <2>1. PICK r \in Nat : r = total - data
        BY <1>6
    <2>2. PICK q \in Nat : q = r \div per
        BY <1>5
    <2>3. q * per <= r
        BY <1>5, <2>2
    <2> QED
        BY <1>7, <2>1, <2>2, <2>3
<1>9. ClustersTotal(b, place) = clusters
    BY <1>4, <1>5, <1>6, <1>7 DEF ClustersTotal
<1>10. PICK type : type = TypeFor(clusters)
    OBVIOUS
<1>11. type \in {"FAT12", "FAT16", "FAT32"} /\ CanLoadTable(b, type, place.table, clusters)
    BY <1>1, <1>9, <1>10 DEF CanOpen, TypeFor
<1>12. PICK p \in Nat : p = place.table * b.bytes
    BY <1>2, <1>3
<1>13. PICK size \in Nat : size = TableSectors(b, type) * b.bytes
    <2>1. TableSectors(b, type) \in Nat
        BY <1>2 DEF TableSectors
    <2> QED
        BY <1>2, <2>1
<1>14. PICK table : table = Table(b, type, place.table)
    OBVIOUS
<1>15. table = IF type = "FAT12" THEN Load12(p, size)
               ELSE IF type = "FAT16" THEN Load16(p, size) ELSE Load32(p, size)
    BY <1>12, <1>13, <1>14 DEF Table
<1>16. PICK m \in Int : DOMAIN table = 0 .. m
    <2>1. DOMAIN Load12(p, size) = 0 .. 2 * (size \div 3) - 1 /\ 2 * (size \div 3) - 1 \in Int
        BY DEF Load12
    <2>2. DOMAIN Load16(p, size) = 0 .. size \div 2 - 1 /\ size \div 2 - 1 \in Int
        BY DEF Load16
    <2>3. DOMAIN Load32(p, size) = 0 .. size \div 4 - 1 /\ size \div 4 - 1 \in Int
        BY DEF Load32
    <2> QED
        BY <1>15, <2>1, <2>2, <2>3
<1>17. Cardinality(DOMAIN table) >= clusters + 2
    BY <1>11, <1>14 DEF CanLoadTable
<1>18. 0 .. clusters + 1 \subseteq DOMAIN table
    BY <1>8, <1>16, <1>17, LargeEnough
<1>19. PICK v : v = Opened(n, place)
    OBVIOUS
<1>20. /\ v.start = n /\ v.boot = b /\ v.data = data /\ v.clusters = clusters /\ v.type = type
       /\ v.map = [c \in 0 .. clusters + 1 |-> table[c]]
    BY <1>1, <1>4, <1>9, <1>10, <1>14, <1>19 DEF Opened
<1>21. 8 * (v.start + v.boot.reserved) * v.boot.bytes = 8 * p
    <2>1. PICK s \in Nat : s = n + b.reserved /\ s = place.table
        BY <1>2, <1>3
    <2>2. \A x, y \in Nat : 8 * x * y = 8 * (x * y)
        OBVIOUS
    <2>3. PICK bytes \in Nat : bytes = b.bytes
        BY <1>2
    <2>4. p = s * bytes
        BY <1>12, <2>1, <2>3
    <2>5. 8 * s * bytes = 8 * p
        BY <2>1, <2>2, <2>3, <2>4
    <2>6. v.start + v.boot.reserved = s /\ v.boot.bytes = bytes
        BY <1>20, <2>1, <2>3
    <2> QED
        BY <2>5, <2>6
<1>22. ASSUME NEW c \in 0 .. clusters + 1
       PROVE  IsNumber(table[c], 8 * p + c * (IF type = "FAT12" THEN 12 ELSE IF type = "FAT16" THEN 16 ELSE 32),
                       IF type = "FAT12" THEN 12 ELSE IF type = "FAT16" THEN 16 ELSE 28)
    <2>1. c \in Nat /\ c \in DOMAIN table
        BY <1>18
    <2>2. CASE type = "FAT12"
        BY <1>15, <2>1, <2>2, Entry12
    <2>3. CASE type = "FAT16"
        BY <1>15, <2>1, <2>3, Entry16
    <2>4. CASE type = "FAT32"
        BY <1>15, <2>1, <2>4, Entry32
    <2> QED
        BY <1>11, <2>2, <2>3, <2>4
<1>23. ClusterToBlock(v, v.clusters + 2) <= v.start + v.boot.total
    <2>1. ClusterToBlock(v, clusters + 2) = data + (clusters + 2 - 2) * per
        BY <1>5, <1>8, <1>20 DEF ClusterToBlock
    <2>2. clusters + 2 - 2 = clusters
        BY <1>8
    <2>3. PICK k \in Nat : k = clusters * per
        BY <1>5, <1>8
    <2>4. data + k <= n + total
        BY <1>6, <1>8, <2>3
    <2> QED
        BY <1>6, <1>20, <2>1, <2>2, <2>3, <2>4
<1>24. \A c \in 0 .. clusters + 1 : v.map[c] = table[c]
    BY <1>20
<1>25. SizesKnown(v)
    BY <1>2, <1>8, <1>20 DEF SizesKnown
<1>26. IsRead(v)
    BY <1>11, <1>20, <1>21, <1>22, <1>23, <1>24 DEF IsRead
<1> QED
    BY <1>19, <1>25, <1>26

\* The table is read as long as the image stays what it is.
LEMMA ReadSame ==
    ASSUME UNCHANGED source
    PROVE  \A v : v = fatVolume' => (TableIsRead' <=> (pc' = "openFat" => IsRead(v)))
<1>1. \A n : Bit(n)' = Bit(n)
    BY DEF Bit, Byte
<1>2. \A x, n, bits : IsNumber(x, n, bits)' <=> IsNumber(x, n, bits)
    BY <1>1 DEF IsNumber
<1>3. \A v : v = fatVolume' => (TableIsRead' <=> (pc' = "openFat" => IsRead(v)'))
    BY DEF TableIsRead, IsRead
<1>4. \A v : IsRead(v)' <=> IsRead(v)
    BY <1>2 DEF IsRead, ClusterToBlock
<1> QED
    BY <1>3, <1>4

\* TableIsRead, with what is known of the volume.
TableInv == TableIsRead /\ (pc = "openFat" => SizesKnown(fatVolume))

\* A partition that is opened.
LEMMA PartitionIsRead ==
    ASSUME RealImage, RealTable, NEW n \in Nat, PartitionOpen(n), UNCHANGED source
    PROVE  TableInv'
<1>1. PICK v : v = fatVolume'
    OBVIOUS
<1>2. CASE DividesByZero(n)
    BY <1>2 DEF PartitionOpen, TableInv, TableIsRead
<1>3. CASE ~DividesByZero(n)
    <2>1. PICK place \in Places(n, Boot(n)) :
             IF CanOpen(n, place)
             THEN pc' = "openFat" /\ fatVolume' = Opened(n, place)
             ELSE pc' = "isoTest" /\ UNCHANGED fatVolume
        BY <1>3 DEF PartitionOpen
    <2>2. pc' = "openFat" => IsRead(v) /\ SizesKnown(v)
        BY <1>1, <1>3, <2>1, OpenedIsRead
    <2>3. TableIsRead'
        BY <1>1, <2>2, ReadSame
    <2>4. pc' = "openFat" => SizesKnown(fatVolume)'
        BY <1>1, <2>2 DEF SizesKnown
    <2> QED
        BY <2>3, <2>4 DEF TableInv
<1> QED
    BY <1>2, <1>3

\* A step of the search for a FAT volume, which knows the places it looks at.
LEMMA SearchIsRead ==
    ASSUME RealImage, RealTable, pc = "fatExtended" => Searching, FatStep
    PROVE  TableInv'
<1>0. UNCHANGED source
    BY FatStages
<1>1. \A r : FatParts(r) \subseteq DOMAIN Boot(r).parts
    BY DEF FatParts
<1>2. CASE ReadPartitions
    <2>1. CASE ActiveParts # {}
        <3>1. ActiveParts \in SUBSET DOMAIN Boot(0).parts
            BY <1>1 DEF ActiveParts
        <3>2. FirstStart(0, ActiveParts) \in Nat
            BY <2>1, <3>1, FirstOf
        <3>3. PartitionOpen(FirstStart(0, ActiveParts))
            BY <1>2, <2>1 DEF ReadPartitions
        <3> QED
            BY <1>0, <3>2, <3>3, PartitionIsRead
    <2>2. CASE ActiveParts = {}
        BY <1>2, <2>2 DEF ReadPartitions, TableInv, TableIsRead
    <2> QED
        BY <2>1, <2>2
<1>3. CASE NextBase
    BY <1>3 DEF NextBase, TableInv, TableIsRead
<1>4. CASE ReadRecord
    <2>1. PICK r : r = search.current
        OBVIOUS
    <2>2. r \in Nat
        BY <1>4, <2>1 DEF ReadRecord, Searching, Walking
    <2>3. CASE FatParts(r) # {}
        <3>1. PICK start : start = FirstStart(r, FatParts(r))
            OBVIOUS
        <3>2. start \in Nat
            BY <1>1, <2>3, <3>1, FirstOf
        <3>3. PartitionOpen(Logical(start))
            BY <1>4, <2>1, <2>3, <3>1 DEF ReadRecord
        <3>4. Logical(start) \in Nat
            BY <2>1, <2>2, <3>2, FatAssumption DEF Logical
        <3> QED
            BY <1>0, <3>3, <3>4, PartitionIsRead
    <2>4. CASE FatParts(r) = {}
        <3>1. pc = "fatExtended" /\ pc' = pc
            BY <1>4, <2>1, <2>4 DEF ReadRecord
        <3> QED
            BY <3>1 DEF TableInv, TableIsRead
    <2> QED
        BY <2>3, <2>4
<1>5. CASE Fallback
    <2>1. PartitionOpen(search.fallback) /\ search.fallback = FirstStart(0, FatParts(0))
        BY <1>5 DEF Fallback, Searching
    <2>2. search.fallback \in Nat
        <3>1. CASE FatParts(0) = {}
            BY <2>1, <3>1 DEF FirstStart
        <3>2. CASE FatParts(0) # {}
            BY <1>1, <2>1, <3>2, FirstOf
        <3> QED
            BY <3>1, <3>2
    <2> QED
        BY <1>0, <2>1, <2>2, PartitionIsRead
<1> QED
    BY <1>2, <1>3, <1>4, <1>5 DEF FatStep

\* A step that leaves the image and an open volume alone.
LEMMA ReadQuiet ==
    ASSUME TableInv, pc' = "openFat" => pc = "openFat" /\ UNCHANGED <<source, fatVolume>>
    PROVE  TableInv'
<1>1. CASE pc' # "openFat"
    BY <1>1 DEF TableInv, TableIsRead
<1>2. CASE pc' = "openFat"
    <2>1. pc = "openFat" /\ UNCHANGED source /\ fatVolume' = fatVolume
        BY <1>2
    <2>2. PICK v : v = fatVolume
        OBVIOUS
    <2>3. IsRead(v)
        BY <2>1, <2>2 DEF TableInv, TableIsRead, IsRead
    <2>4. TableIsRead'
        BY <2>1, <2>2, <2>3, ReadSame
    <2>5. SizesKnown(fatVolume)'
        BY <2>1 DEF TableInv, SizesKnown
    <2> QED
        BY <2>4, <2>5 DEF TableInv
<1> QED
    BY <1>1, <1>2

\* Every step of the client and of openImage.
LEMMA NextRead ==
    ASSUME TypeInv, NamedInv, MapInv, TableInv, [Next]_vars
    PROVE  TableInv'
<1>1. CASE LoadFat
    BY <1>1, SearchIsRead DEF LoadFat, TypeInv, NamedInv, MapInv
<1>2. CASE ~LoadFat
    <2>1. pc' = "openFat" => pc = "openFat" /\ UNCHANGED <<source, fatVolume>>
        <3>1. CASE Open
            BY <3>1 DEF Open
        <3>2. CASE LoadCommodore
            BY <3>2 DEF LoadCommodore, LoadD64
        <3>3. CASE TryADF
            BY <3>3 DEF TryADF
        <3>4. CASE TestFat
            BY <3>4 DEF TestFat
        <3>5. CASE TestIso
            BY <3>5 DEF TestIso
        <3>6. CASE LoadIso
            BY <3>6, IsoStages DEF LoadIso, TypeInv, TypeOK
        <3>7. CASE UseMap
            BY <3>7 DEF UseMap, SectorSet, SaveMap
        <3>8. CASE Close
            BY <3>8 DEF Close
        <3>9. CASE \E path \in Paths : Lookup(path)
            BY <3>9 DEF Lookup, formats
        <3>10. CASE UNCHANGED vars
            BY <3>10 DEF vars
        <3> QED
            BY <1>2, <3>1, <3>2, <3>3, <3>4, <3>5, <3>6, <3>7, <3>8, <3>9, <3>10 DEF Next, OpenStep
    <2> QED
        BY <2>1, ReadQuiet
<1> QED
    BY <1>1, <1>2

\* TableIsRead: the table of an open volume is the one on the disk, bit for bit, with an
\* entry for each cluster, and the clusters are within the partition, whatever the boot
\* records say (filesystemBitmapLoad, partitionOpen).
THEOREM TableAsOnDisk ==
    Spec => []TableIsRead
<1>1. Init => TableInv
    BY DEF Init, TableInv, TableIsRead
<1>2. TypeInv /\ NamedInv /\ [Next]_vars => NamedInv'
    BY NextNamed
<1>3. TypeInv /\ MapInv /\ [Next]_vars => MapInv'
    BY NextMapped
<1>4. TypeInv /\ NamedInv /\ MapInv /\ TableInv /\ [Next]_vars => TableInv'
    BY NextRead
<1>5. TableInv => TableIsRead
    BY DEF TableInv
<1> QED
    BY <1>1, <1>2, <1>3, <1>4, <1>5, InitNamed, InitMapped, InitTypes, NextTypes, PTL DEF Spec

-----------------------------------------------------------------------------
(* TreeMatchesDisk: numbers in their order, and definitions by steps *)

\* What is in a directory is finitely many numbers of entries.
Numbers(S) == IsFiniteSet(S) /\ \A i \in S : i \in Int

\* A set of numbers in its order, when one comes after all the others.
LEMMA OrderGrows ==
    ASSUME NEW S, Numbers(S), NEW m \in Int, \A i \in S : i < m
    PROVE  /\ Cardinality(S) \in Nat /\ Cardinality(S \cup {m}) = Cardinality(S) + 1
           /\ InOrder(S) \in [1 .. Cardinality(S) -> S]
           /\ InOrder(S \cup {m}) = [k \in 1 .. Cardinality(S) + 1 |->
                                        IF k = Cardinality(S) + 1 THEN m ELSE InOrder(S)[k]]
<1> DEFINE before(T, i) == {j \in T : j < i}
           below == [i \in S |-> before(S, i)]
           nth(U, k) == CHOOSE i \in U : Cardinality(before(U, i)) = k - 1
           T == S \cup {m}
           c == Cardinality(S)
<1>1. /\ c \in Nat
      /\ \A x \in S : Cardinality(below[x]) \in 0 .. c - 1
      /\ \A x, y \in S : Cardinality(below[x]) = Cardinality(below[y]) => x = y
      /\ \A k \in 0 .. c - 1 : \E x \in S : Cardinality(below[x]) = k
    <2>1. below \in [S -> SUBSET S]
        OBVIOUS
    <2>2. \A x \in S : x \notin below[x]
        BY DEF Numbers
    <2>3. ASSUME NEW x \in S, NEW y \in S, x \in below[y] PROVE below[x] \subseteq below[y]
        <3>1. x < y /\ x \in Int /\ y \in Int
            BY <2>3 DEF Numbers
        <3>2. \A j \in S : j < x => j < y
            BY <3>1 DEF Numbers
        <3> QED
            BY <3>2
    <2>4. \A x, y \in S : x # y => x \in below[y] \/ y \in below[x]
        BY DEF Numbers
    <2>5. IsFiniteSet(S)
        BY DEF Numbers
    <2> HIDE DEF below
    <2>6. /\ Cardinality(S) \in Nat
          /\ \A x \in S : Cardinality(below[x]) \in 0 .. Cardinality(S) - 1
          /\ \A x, y \in S : Cardinality(below[x]) = Cardinality(below[y]) => x = y
          /\ \A k \in 0 .. Cardinality(S) - 1 : \E x \in S : Cardinality(below[x]) = k
        BY <2>1, <2>2, <2>3, <2>4, <2>5, Ranks
    <2> QED
        BY <2>6
<1>2. m \notin S /\ Cardinality(T) = c + 1
    BY FS_AddElement DEF Numbers
<1>3. \A i \in S : before(S, i) = below[i] /\ before(T, i) = below[i]
    BY DEF Numbers
<1>4. before(T, m) = S
    <2>1. \A j \in T : j < m <=> j \in S
        BY <1>2
    <2> QED
        BY <2>1
<1> HIDE DEF below, before
<1>5. ASSUME NEW k \in 1 .. c
      PROVE  /\ nth(S, k) \in S
             /\ nth(T, k) = nth(S, k)
    <2>1. k - 1 \in 0 .. c - 1
        BY <1>1
    <2>2. PICK x \in S : Cardinality(below[x]) = k - 1
        BY <1>1, <2>1
    <2>3. \A y \in S : Cardinality(before(S, y)) = k - 1 => y = x
        BY <1>1, <1>3, <2>2
    <2>4. \A y \in T : Cardinality(before(T, y)) = k - 1 => y = x
        BY <1>1, <1>3, <1>4, <2>2
    <2>5. nth(S, k) = x
        BY <1>3, <2>2, <2>3
    <2>6. nth(T, k) = x
        BY <1>3, <2>2, <2>4
    <2> QED
        BY <2>5, <2>6
<1>6. ASSUME NEW k, k = c + 1
      PROVE  nth(T, k) = m
    <2>1. k - 1 = c
        BY <1>1, <1>6
    <2>2. \A y \in S : Cardinality(before(T, y)) # c
        <3>1. ASSUME NEW y \in S PROVE Cardinality(before(T, y)) \in 0 .. c - 1
            BY <1>1, <1>3
        <3> QED
            BY <1>1, <3>1
    <2>3. Cardinality(before(T, m)) = k - 1 /\ \A y \in T : Cardinality(before(T, y)) = k - 1 => y = m
        BY <1>4, <2>1, <2>2
    <2> QED
        BY <2>3
<1> HIDE DEF nth
<1>7. InOrder(S) = [k \in 1 .. c |-> nth(S, k)]
    BY DEF InOrder, before, nth
<1>8. InOrder(T) = [k \in 1 .. c + 1 |-> nth(T, k)]
    BY <1>2 DEF InOrder, before, nth
<1>9. InOrder(S) \in [1 .. c -> S]
    BY <1>5, <1>7
<1>10. ASSUME NEW k \in 1 .. c + 1
       PROVE  nth(T, k) = IF k = c + 1 THEN m ELSE InOrder(S)[k]
    <2>1. CASE k = c + 1
        <3>1. nth(T, k) = m
            BY <1>6, <2>1
        <3> QED
            BY <2>1, <3>1
    <2>2. CASE k # c + 1
        <3>1. k \in 1 .. c
            BY <1>1, <2>2
        <3>2. InOrder(S)[k] = nth(S, k)
            BY <1>7, <3>1
        <3> QED
            BY <1>5, <2>2, <3>1, <3>2
    <2> QED
        BY <2>1, <2>2
<1>11. InOrder(T) = [k \in 1 .. c + 1 |-> IF k = c + 1 THEN m ELSE InOrder(S)[k]]
    BY <1>8, <1>10
<1> HIDE DEF c, T
<1> QED
    BY <1>1, <1>2, <1>9, <1>11 DEF c, T

\* A list that shows the members of a set of numbers in their order.
Shows(list, S, f) == list = [k \in DOMAIN InOrder(S) |-> f[InOrder(S)[k]]]

\* Nothing shows no numbers.
LEMMA ShowsNone ==
    ASSUME NEW f
    PROVE  Shows(<<>>, {}, f)
<1>1. Cardinality({}) = 0
    BY FS_EmptySet
<1>2. DOMAIN InOrder({}) = 1 .. 0
    BY <1>1 DEF InOrder
<1>3. [k \in 1 .. 0 |-> f[InOrder({})[k]]] = <<>>
    OBVIOUS
<1> QED
    BY <1>2, <1>3 DEF Shows

\* What shows one more number, after all others, is longer by one element.
LEMMA ShowsMore ==
    ASSUME NEW S, Numbers(S), NEW m \in Int, \A i \in S : i < m,
           NEW f, NEW list, Shows(list, S, f)
    PROVE  Shows(Append(list, f[m]), S \cup {m}, f)
<1> DEFINE c == Cardinality(S)
           order == InOrder(S)
<1>1. c \in Nat
    BY OrderGrows
<1>2. order = InOrder(S)
    OBVIOUS
<1>3. /\ order \in [1 .. c -> S]
      /\ InOrder(S \cup {m}) = [k \in 1 .. c + 1 |-> IF k = c + 1 THEN m ELSE order[k]]
    BY OrderGrows
<1> HIDE DEF c, order
<1>4. PICK V : V = {f[i] : i \in S \cup {m}}
    OBVIOUS
<1>5. list = [k \in 1 .. c |-> f[order[k]]]
    BY <1>2, <1>3 DEF Shows
<1>6. list \in Seq(V) /\ Len(list) = c
    <2>1. list \in [1 .. c -> V]
        BY <1>3, <1>4, <1>5
    <2> QED
        BY <1>1, <2>1
<1>7. PICK more : more = Append(list, f[m])
    OBVIOUS
<1>8. f[m] \in V
    BY <1>4
<1>9. /\ more \in Seq(V) /\ Len(more) = c + 1 /\ more[c + 1] = f[m]
      /\ \A k \in 1 .. c : more[k] = list[k]
    BY <1>6, <1>7, <1>8, AppendProperties
<1>10. PICK wide : wide = InOrder(S \cup {m})
    OBVIOUS
<1>11. PICK shown : shown = [k \in DOMAIN wide |-> f[wide[k]]]
    OBVIOUS
<1>12. DOMAIN shown = 1 .. c + 1
    BY <1>3, <1>10, <1>11
<1>13. ASSUME NEW k \in 1 .. c + 1 PROVE shown[k] = more[k]
    <2>1. shown[k] = f[IF k = c + 1 THEN m ELSE order[k]]
        BY <1>3, <1>10, <1>11
    <2>2. CASE k = c + 1
        BY <1>9, <2>1, <2>2
    <2>3. CASE k # c + 1
        <3>1. k \in 1 .. c
            BY <1>1, <2>3
        <3> QED
            BY <1>5, <1>9, <2>1, <2>3, <3>1
    <2> QED
        BY <2>2, <2>3
<1>14. shown = more
    <2>1. DOMAIN more = 1 .. c + 1
        BY <1>9
    <2>2. shown = [k \in 1 .. c + 1 |-> shown[k]] /\ more = [k \in 1 .. c + 1 |-> more[k]]
        BY <1>9, <1>11, <1>12, <2>1
    <2> QED
        BY <1>13, <2>2
<1> QED
    BY <1>7, <1>10, <1>11, <1>14 DEF Shows

-----------------------------------------------------------------------------
(* TreeMatchesDisk: a FAT directory is loaded entry by entry *)

EntryNode(e, long) == [name |-> NodeName(e, long), dir |-> e.kind = "dir", at |-> <<e.start, e.size>>]
EntryNodes == {EntryNode(x[1], x[2]) : x \in Entries \X Seq(Entries)}
Loading == [nodes : Seq(EntryNodes), long : Seq(Entries)]
NothingLoaded == [nodes |-> <<>>, long |-> <<>>]

\* What entryLoad makes of an entry, by its kind.
LEMMA EntryTaken ==
    ASSUME NEW s \in Loading, NEW e \in Entries
    PROVE  /\ EntryLoad(s, e) \in Loading
           /\ e.kind \in Skipped \cup {"label"} => EntryLoad(s, e) = s
           /\ e.kind = "long" => EntryLoad(s, e) = [nodes |-> s.nodes, long |-> Append(s.long, e)]
           /\ e.kind \notin Skipped \cup {"label", "long"} =>
                EntryLoad(s, e) = IF e.kind = "dir" /\ NodeName(e, s.long) \in {<<".">>, <<"..">>}
                                  THEN [nodes |-> s.nodes, long |-> <<>>]
                                  ELSE [nodes |-> Append(s.nodes, EntryNode(e, s.long)), long |-> <<>>]
<1>1. PICK node : node = EntryNode(e, s.long)
    OBVIOUS
<1>2. node.dir = (e.kind = "dir") /\ node.name = NodeName(e, s.long)
    BY <1>1 DEF EntryNode
<1>3. PICK r : r = EntryLoad(s, e)
    OBVIOUS
<1>4. r = IF e.kind \in Skipped \cup {"label"} THEN s
          ELSE IF e.kind = "long" THEN [s EXCEPT !.long = Append(@, e)]
          ELSE IF node.dir /\ node.name \in {<<".">>, <<"..">>} THEN [s EXCEPT !.long = <<>>]
          ELSE [nodes |-> Append(s.nodes, node), long |-> <<>>]
    BY <1>1, <1>3 DEF EntryLoad, EntryNode
<1>5. /\ s = [nodes |-> s.nodes, long |-> s.long] /\ s.nodes \in Seq(EntryNodes) /\ s.long \in Seq(Entries)
      /\ \A l : [s EXCEPT !.long = l] = [nodes |-> s.nodes, long |-> l]
    BY DEF Loading
<1>6. node \in EntryNodes
    <2>1. <<e, s.long>> \in Entries \X Seq(Entries)
        BY <1>5
    <2>2. <<e, s.long>>[1] = e /\ <<e, s.long>>[2] = s.long
        OBVIOUS
    <2>3. PICK x \in Entries \X Seq(Entries) : x = <<e, s.long>>
        BY <2>1
    <2>4. node = EntryNode(x[1], x[2])
        BY <1>1, <2>2, <2>3
    <2> QED
        BY <2>4 DEF EntryNodes
<1>7. Append(s.nodes, node) \in Seq(EntryNodes) /\ Append(s.long, e) \in Seq(Entries)
    BY <1>5, <1>6, AppendProperties
<1>8. <<>> \in Seq(Entries)
    OBVIOUS
<1>9. e.kind \in Skipped => e.kind # "long" /\ e.kind # "label"
    BY DEF Skipped
<1>10. CASE e.kind \in Skipped \cup {"label"}
    BY <1>3, <1>4, <1>9, <1>10
<1>11. CASE e.kind = "long"
    <2>1. r = [nodes |-> s.nodes, long |-> Append(s.long, e)]
        BY <1>4, <1>5, <1>9, <1>11
    <2>2. r \in Loading
        BY <1>5, <1>7, <2>1 DEF Loading
    <2> QED
        BY <1>3, <1>9, <1>11, <2>1, <2>2
<1>12. CASE e.kind \notin Skipped \cup {"label", "long"}
    <2>1. r = IF e.kind = "dir" /\ NodeName(e, s.long) \in {<<".">>, <<"..">>}
              THEN [nodes |-> s.nodes, long |-> <<>>]
              ELSE [nodes |-> Append(s.nodes, node), long |-> <<>>]
        BY <1>2, <1>4, <1>5, <1>12
    <2>2. r \in Loading
        BY <1>5, <1>7, <1>8, <2>1 DEF Loading
    <2> QED
        BY <1>1, <1>3, <1>12, <2>1, <2>2
<1> QED
    BY <1>10, <1>11, <1>12

\* The states that loading these entries goes through.
LoadsBy(read, g) ==
    /\ g \in [0 .. Len(read) -> Loading] /\ g[0] = NothingLoaded
    /\ \A k \in 1 .. Len(read) : g[k] = EntryLoad(g[k - 1], read[k])

\* A directory is loaded entry by entry, up to the one without a name.
LEMMA Parsed ==
    ASSUME NEW entries, BeforeEnd(entries) \in Seq(Entries)
    PROVE  \E g : /\ LoadsBy(BeforeEnd(entries), g)
                  /\ ParseEntries(entries) = g[Len(BeforeEnd(entries))].nodes
<1>1. PICK read \in Seq(Entries) : read = BeforeEnd(entries)
    OBVIOUS
<1>2. PICK n \in Nat : n = Len(read)
    OBVIOUS
<1>3. \A k \in 1 .. n : read[k] \in Entries
    BY <1>2
<1> DEFINE F == [x \in (1 .. n) \X Loading |-> EntryLoad(x[2], read[x[1]])]
           Eq(h) == h = [k \in 0 .. n |-> IF k = 0 THEN NothingLoaded ELSE EntryLoad(h[k - 1], read[k])]
           g == CHOOSE h : Eq(h)
<1>4. F \in [(1 .. n) \X Loading -> Loading]
    <2>1. ASSUME NEW x \in (1 .. n) \X Loading PROVE EntryLoad(x[2], read[x[1]]) \in Loading
        <3>1. x[1] \in 1 .. n /\ x[2] \in Loading
            OBVIOUS
        <3> QED
            BY <1>3, <3>1, EntryTaken
    <2> QED
        BY <2>1
<1>5. NothingLoaded \in Loading
    BY DEF NothingLoaded, Loading
<1>6. ASSUME NEW k \in 1 .. n, NEW s \in Loading PROVE F[<<k, s>>] = EntryLoad(s, read[k])
    OBVIOUS
<1> HIDE DEF F
<1>7. PICK h \in [0 .. n -> Loading] : h[0] = NothingLoaded /\ \A k \in 1 .. n : h[k] = F[<<k, h[k - 1]>>]
    <2>1. \E h : Takes(h, F, NothingLoaded, n, Loading)
        BY <1>4, <1>5, StepsInOrder, Zenon
    <2> QED
        BY <2>1 DEF Takes
<1>8. ASSUME NEW k \in 0 .. n PROVE h[k] = IF k = 0 THEN NothingLoaded ELSE EntryLoad(h[k - 1], read[k])
    <2>1. CASE k = 0
        BY <1>7, <2>1
    <2>2. CASE k # 0
        <3>1. k \in 1 .. n /\ k - 1 \in 0 .. n
            BY <2>2
        <3>2. h[k - 1] \in Loading
            BY <3>1
        <3> QED
            BY <1>6, <1>7, <2>2, <3>1, <3>2
    <2> QED
        BY <2>1, <2>2
<1>9. Eq(h)
    <2>1. h = [k \in 0 .. n |-> h[k]]
        OBVIOUS
    <2> QED
        BY <1>8, <2>1
<1>10. Eq(g)
    BY <1>9
<1>11. ParseEntries(entries) = g[n].nodes
    BY <1>1, <1>2 DEF ParseEntries, NothingLoaded
<1> HIDE DEF g
<1>12. \A k \in 0 .. n : g[k] = IF k = 0 THEN NothingLoaded ELSE EntryLoad(g[k - 1], read[k])
    BY <1>10
<1>13. g[0] = NothingLoaded
    BY <1>12
<1>14. ASSUME NEW k \in 1 .. n PROVE g[k] = EntryLoad(g[k - 1], read[k])
    <2>1. k \in 0 .. n /\ k # 0
        OBVIOUS
    <2> QED
        BY <1>12, <2>1
<1>15. \A k \in 0 .. n : g[k] \in Loading
    <2>1. ASSUME NEW k \in 1 .. n, g[k - 1] \in Loading PROVE g[k] \in Loading
        BY <1>3, <1>14, <2>1, EntryTaken
    <2>2. g[0] \in Loading
        BY <1>5, <1>13
    <2> QED
        BY <2>1, <2>2, IteratesIn
<1>16. DOMAIN g = 0 .. n /\ g = [k \in 0 .. n |-> g[k]]
    BY <1>10
<1>17. g \in [0 .. n -> Loading]
    BY <1>15, <1>16
<1> HIDE DEF Eq
<1>18. LoadsBy(read, g)
    BY <1>2, <1>13, <1>14, <1>17 DEF LoadsBy
<1> QED
    BY <1>1, <1>2, <1>11, <1>18

\* Pieces that stand with the last one first have their names in the order of their
\* numbers.
LEMMA PiecesNamed ==
    ASSUME NEW long, NEW w \in Nat, long \in [1 .. w -> Entries],
           \A j \in 1 .. w : long[j].part = w + 1 - j
    PROVE  LongName(long) = [n \in 1 .. w |-> long[w + 1 - n].name]
<1> DEFINE before(j) == {i \in DOMAIN long :
                    long[i].part < long[j].part \/ (long[i].part = long[j].part /\ i < j)}
           place(n) == CHOOSE j \in DOMAIN long : Cardinality(before(j)) = n - 1
<1>1. DOMAIN long = 1 .. w
    OBVIOUS
<1>2. ASSUME NEW j \in 1 .. w PROVE Cardinality(before(j)) = w - j
    <2>1. before(j) = (j + 1) .. w
        <3>1. ASSUME NEW i \in 1 .. w
              PROVE  (long[i].part < long[j].part \/ (long[i].part = long[j].part /\ i < j)) <=> i \in (j + 1) .. w
            <4>1. long[i].part = w + 1 - i /\ long[j].part = w + 1 - j
                OBVIOUS
            <4> QED
                BY <4>1
        <3>2. (j + 1) .. w \subseteq 1 .. w
            OBVIOUS
        <3>3. ASSUME NEW i PROVE i \in before(j) <=> i \in (j + 1) .. w
            <4>1. CASE i \in 1 .. w
                BY <1>1, <3>1, <4>1
            <4>2. CASE i \notin 1 .. w
                BY <1>1, <3>2, <4>2
            <4> QED
                BY <4>1, <4>2
        <3> HIDE DEF before
        <3> QED
            BY <3>3
    <2>2. j + 1 \in Int /\ w \in Int
        OBVIOUS
    <2>3. Cardinality((j + 1) .. w) = IF j + 1 > w THEN 0 ELSE w - (j + 1) + 1
        BY <2>2, FS_Interval
    <2> HIDE DEF before
    <2>4. Cardinality(before(j)) = IF j + 1 > w THEN 0 ELSE w - (j + 1) + 1
        BY <2>1, <2>3
    <2> QED
        BY <2>4
<1> HIDE DEF before
<1>3. ASSUME NEW n \in 1 .. w PROVE place(n) = w + 1 - n
    <2>1. w + 1 - n \in 1 .. w
        OBVIOUS
    <2>2. Cardinality(before(w + 1 - n)) = n - 1
        <3>1. Cardinality(before(w + 1 - n)) = w - (w + 1 - n)
            BY <1>2, <2>1
        <3> QED
            BY <3>1
    <2>3. \A j \in 1 .. w : Cardinality(before(j)) = n - 1 => j = w + 1 - n
        <3>1. ASSUME NEW j \in 1 .. w, Cardinality(before(j)) = n - 1 PROVE j = w + 1 - n
            <4>1. w - j = n - 1
                BY <1>2, <3>1
            <4> QED
                BY <4>1
        <3> QED
            BY <3>1
    <2> QED
        BY <1>1, <2>1, <2>2, <2>3
<1> HIDE DEF place
<1>4. LongName(long) = [n \in DOMAIN long |-> long[place(n)].name]
    BY DEF LongName, before, place
<1> QED
    BY <1>1, <1>3, <1>4

\* Before place k there are w pieces of a long name and no more.
Run(read, k, w) ==
    /\ w \in 0 .. k /\ \A m \in 0 .. w - 1 : read[k - m].kind = "long"
    /\ w # k => read[k - w].kind # "long"

\* What stands at place i of a directory.
OnDisk(read, i) ==
    [name |-> NameOnDisk(read, i), dir |-> read[i].kind = "dir", at |-> <<read[i].start, read[i].size>>]

\* In a sound directory pieces count down to their entry, which is one that gets a node.
LEMMA RunCounts ==
    ASSUME NEW read \in Seq(Entries), IsSound(read), NEW k \in 0 .. Len(read) - 1, NEW w, Run(read, k, w), w # 0,
           read[k + 1].kind # "long"
    PROVE  IsNode(read[k + 1]) /\ \A m \in 0 .. w - 1 : read[k - m].part = m + 1
<1>1. PICK n \in Nat : n = Len(read)
    OBVIOUS
<1>2. k \in Nat /\ w \in Nat /\ w <= k /\ k < n /\ w >= 1 /\ DOMAIN read = 1 .. n
    BY <1>1 DEF Run
<1>3. \A m \in 0 .. w - 1 : read[k - m].kind = "long" /\ k - m \in 1 .. n
    BY <1>2 DEF Run
<1>4. ASSUME NEW i \in 1 .. n, read[i].kind = "long"
      PROVE  \/ read[i].part = 1 /\ IsNode(read[i + 1])
             \/ read[i + 1].kind = "long" /\ read[i + 1].part = read[i].part - 1
    BY <1>2, <1>4 DEF IsSound
<1>5. read[k].part = 1 /\ IsNode(read[k + 1])
    <2>1. 0 \in 0 .. w - 1 /\ k - 0 = k
        BY <1>2
    <2>2. read[k].kind = "long" /\ k \in 1 .. n
        BY <1>3, <2>1
    <2> QED
        BY <1>4, <2>2
<1>6. ASSUME NEW m \in 1 .. w - 1, read[k - (m - 1)].part = m PROVE read[k - m].part = m + 1
    <2>1. m \in 0 .. w - 1 /\ m - 1 \in 0 .. w - 1 /\ k - m + 1 = k - (m - 1)
        BY <1>2
    <2>2. PICK i \in 1 .. n : i = k - m
        BY <1>3, <2>1
    <2>3. read[i].kind = "long" /\ i + 1 = k - (m - 1) /\ read[i + 1].kind = "long"
        BY <1>3, <2>1, <2>2
    <2>4. ~IsNode(read[i + 1])
        BY <2>3 DEF IsNode
    <2>5. read[i + 1].part = read[i].part - 1
        BY <1>4, <2>3, <2>4
    <2>6. read[i] \in Entries
        BY <1>1
    <2>7. read[i].part \in Nat
        BY <2>6 DEF Entries
    <2> QED
        BY <1>6, <2>2, <2>3, <2>5, <2>7
<1>7. \A m \in 0 .. w - 1 : m \in {j \in 0 .. w - 1 : read[k - j].part = j + 1}
    <2> DEFINE S == {j \in 0 .. w - 1 : read[k - j].part = j + 1}
    <2>1. 0 \in S
        BY <1>2, <1>5
    <2>2. ASSUME NEW m \in 1 .. w - 1, m - 1 \in S PROVE m \in S
        <3>1. read[k - (m - 1)].part = m - 1 + 1 /\ m \in 0 .. w - 1
            BY <2>2
        <3>2. read[k - (m - 1)].part = m
            BY <3>1
        <3> QED
            BY <1>6, <3>1, <3>2
    <2> HIDE DEF S
    <2>3. w - 1 \in Nat
        BY <1>2
    <2>4. \A m \in 0 .. w - 1 : m \in S
        BY <2>1, <2>2, <2>3, Induct
    <2> QED
        BY <2>4 DEF S
<1> QED
    BY <1>5, <1>7

\* Pieces are as many as stand before the entry.
LEMMA RunNamed ==
    ASSUME NEW read \in Seq(Entries), NEW k \in 0 .. Len(read) - 1, NEW w, Run(read, k, w),
           \A m \in 0 .. w - 1 : read[k - m].part = m + 1
    PROVE  NameOnDisk(read, k + 1) = IF w = 0 THEN <<read[k + 1].name>>
                                     ELSE [n \in 1 .. w |-> read[k + 1 - n].name]
<1>1. k \in Nat /\ w \in Nat /\ w <= k
    BY DEF Run
<1>2. PICK i \in Nat : i = k + 1
    BY <1>1
<1>3. PICK pieces : pieces = {n \in 1 .. i - 1 : \A m \in 1 .. n : read[i - m].kind = "long" /\ read[i - m].part = m}
    OBVIOUS
<1>4. NameOnDisk(read, i) = IF pieces = {} THEN <<read[i].name>>
                            ELSE [n \in 1 .. Max(pieces) |-> read[i - n].name]
    BY <1>3 DEF NameOnDisk
<1>5. pieces = 1 .. w
    <2>1. ASSUME NEW m \in 1 .. w PROVE read[i - m].kind = "long" /\ read[i - m].part = m
        <3>1. m - 1 \in 0 .. w - 1 /\ k - (m - 1) = i - m /\ m - 1 + 1 = m
            BY <1>1, <1>2
        <3>2. read[k - (m - 1)].kind = "long" /\ read[k - (m - 1)].part = m - 1 + 1
            BY <3>1 DEF Run
        <3> QED
            BY <3>1, <3>2
    <2>2. ASSUME NEW n \in 1 .. w PROVE n \in pieces
        <3>1. n \in 1 .. i - 1 /\ \A m \in 1 .. n : m \in 1 .. w
            BY <1>1, <1>2
        <3> QED
            BY <1>3, <2>1, <3>1
    <2>3. ASSUME NEW n \in pieces PROVE n \in 1 .. w
        <3>1. n \in 1 .. i - 1 /\ \A m \in 1 .. n : read[i - m].kind = "long"
            BY <1>3
        <3>2. ASSUME n > w PROVE FALSE
            <4>1. w + 1 \in 1 .. n /\ i - (w + 1) = k - w /\ w # k
                BY <1>1, <1>2, <3>1, <3>2
            <4>2. read[i - (w + 1)].kind = "long"
                BY <3>1, <4>1
            <4> QED
                BY <4>1, <4>2 DEF Run
        <3> QED
            BY <1>1, <3>1, <3>2
    <2> QED
        BY <2>2, <2>3
<1>6. CASE w = 0
    <2>1. pieces = {}
        BY <1>5, <1>6
    <2> QED
        BY <1>2, <1>4, <1>6, <2>1
<1>7. CASE w # 0
    <2>1. w \in pieces /\ pieces \in SUBSET Int /\ \A y \in pieces : y <= w
        BY <1>1, <1>5, <1>7
    <2>2. Max(pieces) = w /\ pieces # {}
        BY <2>1, GreatestIs
    <2>3. NameOnDisk(read, i) = [n \in 1 .. w |-> read[i - n].name]
        BY <1>4, <2>2
    <2>4. [n \in 1 .. w |-> read[i - n].name] = [n \in 1 .. w |-> read[k + 1 - n].name]
        BY <1>2
    <2>5. NameOnDisk(read, i) = NameOnDisk(read, k + 1)
        BY <1>2
    <2> QED
        BY <1>7, <2>3, <2>4, <2>5
<1> QED
    BY <1>6, <1>7

\* What is loaded of a sound directory up to place k: its nodes, and the pieces of a long
\* name that end there.
LoadedTo(read, k, s) ==
    /\ Shows(s.nodes, {i \in 1 .. k : IsNode(read[i])}, [i \in 1 .. Len(read) |-> OnDisk(read, i)])
    /\ \E w : Run(read, k, w) /\ s.long = [n \in 1 .. w |-> read[k - w + n]]

\* The entry after a long name, or without one, is called what it is called on the disk.
LEMMA NameAtPlace ==
    ASSUME NEW read \in Seq(Entries), NEW k \in 0 .. Len(read) - 1, NEW w, Run(read, k, w),
           \A m \in 0 .. w - 1 : read[k - m].part = m + 1,
           NEW long, long = [n \in 1 .. w |-> read[k - w + n]]
    PROVE  NodeName(read[k + 1], long) = NameOnDisk(read, k + 1)
<1>1. w \in Nat /\ k \in Nat /\ w <= k
    BY DEF Run
<1>2. CASE w = 0
    <2>1. long = <<>>
        BY <1>2
    <2> QED
        BY <1>2, <2>1, RunNamed DEF NodeName
<1>3. CASE w # 0
    <2>1. ASSUME NEW j \in 1 .. w PROVE long[j] \in Entries /\ long[j].part = w + 1 - j /\ k - w + j \in 1 .. Len(read)
        <3>1. w - j \in 0 .. w - 1 /\ k - (w - j) = k - w + j /\ w - j + 1 = w + 1 - j
            BY <1>1
        <3>2. k - w + j \in 1 .. Len(read)
            BY <1>1
        <3>3. long[j] = read[k - w + j]
            OBVIOUS
        <3>4. read[k - (w - j)].part = w - j + 1
            BY <3>1
        <3> QED
            BY <3>1, <3>2, <3>3, <3>4
    <2>2. long \in [1 .. w -> Entries]
        BY <2>1
    <2>3. LongName(long) = [n \in 1 .. w |-> long[w + 1 - n].name]
        <3>1. PICK l : l = long
            OBVIOUS
        <3>2. w \in Nat /\ l \in [1 .. w -> Entries] /\ \A j \in 1 .. w : l[j].part = w + 1 - j
            BY <1>1, <2>1, <2>2, <3>1
        <3>3. LongName(l) = [n \in 1 .. w |-> l[w + 1 - n].name]
            BY <3>2, PiecesNamed
        <3> QED
            BY <3>1, <3>3
    <2>4. ASSUME NEW n \in 1 .. w PROVE long[w + 1 - n].name = read[k + 1 - n].name
        <3>1. w + 1 - n \in 1 .. w /\ k - w + (w + 1 - n) = k + 1 - n
            BY <1>1
        <3>2. long[w + 1 - n] = read[k - w + (w + 1 - n)]
            BY <3>1
        <3> QED
            BY <3>1, <3>2
    <2>5. LongName(long) = [n \in 1 .. w |-> read[k + 1 - n].name]
        BY <2>3, <2>4
    <2>6. long # <<>>
        <3>1. 1 \in DOMAIN long
            BY <1>1, <1>3
        <3>2. 1 \notin DOMAIN <<>>
            OBVIOUS
        <3> QED
            BY <3>1, <3>2
    <2>7. NameOnDisk(read, k + 1) = [n \in 1 .. w |-> read[k + 1 - n].name]
        BY <1>3, RunNamed
    <2> QED
        BY <2>5, <2>6, <2>7 DEF NodeName
<1> QED
    BY <1>2, <1>3

\* One more entry of a sound directory.
LEMMA EntryShown ==
    ASSUME NEW read \in Seq(Entries), IsSound(read), \A i \in 1 .. Len(read) : read[i].kind # "end",
           NEW k \in 0 .. Len(read) - 1, NEW s \in Loading, LoadedTo(read, k, s)
    PROVE  LoadedTo(read, k + 1, EntryLoad(s, read[k + 1]))
<1>1. PICK n \in Nat : n = Len(read)
    OBVIOUS
<1>2. PICK m \in 1 .. n : m = k + 1
    BY <1>1
<1>3. PICK e \in Entries : e = read[m]
    BY <1>1
<1>4. PICK f : f = [i \in 1 .. Len(read) |-> OnDisk(read, i)]
    OBVIOUS
<1>5. PICK S : S = {i \in 1 .. k : IsNode(read[i])}
    OBVIOUS
<1>6. Shows(s.nodes, S, f)
    BY <1>4, <1>5 DEF LoadedTo
<1>7. PICK w : Run(read, k, w) /\ s.long = [j \in 1 .. w |-> read[k - w + j]]
    BY DEF LoadedTo
<1>8. k \in Nat /\ w \in Nat /\ w <= k /\ m \in Int /\ m \in 1 .. Len(read) /\ DOMAIN read = 1 .. Len(read)
    BY <1>1, <1>2, <1>7 DEF Run
<1>9. Numbers(S) /\ \A i \in S : i < m
    <2>1. 1 \in Int /\ k \in Int
        BY <1>8
    <2>2. IsFiniteSet(1 .. k)
        BY <2>1, FS_Interval
    <2>3. S \in SUBSET (1 .. k)
        BY <1>5
    <2>4. IsFiniteSet(S)
        BY <2>2, <2>3, FS_Subset
    <2>5. \A i \in 1 .. k : i \in Int /\ i < m
        BY <1>2, <1>8
    <2>6. \A i \in S : i \in Int /\ i < m
        BY <2>3, <2>5
    <2> QED
        BY <2>4, <2>6 DEF Numbers
<1>10. PICK T : T = {i \in 1 .. m : IsNode(read[i])}
    OBVIOUS
<1>11. IsNode(e) => T = S \cup {m}
    BY <1>2, <1>3, <1>5, <1>8, <1>10
<1>12. ~IsNode(e) => T = S
    BY <1>2, <1>3, <1>5, <1>8, <1>10
<1>13. PICK r : r = EntryLoad(s, e)
    OBVIOUS
<1>14. e.kind \in {"deleted", "label", "long", "file", "dir"}
    <2>1. e.kind # "end" /\ e.kind # "high"
        BY <1>3, <1>8 DEF IsSound
    <2> QED
        BY <2>1 DEF Entries
<1>15. ASSUME e.kind # "long", w # 0 PROVE IsNode(e)
    BY <1>2, <1>3, <1>7, <1>15, RunCounts
<1>16. e.kind # "long" => \A j \in 0 .. w - 1 : read[k - j].part = j + 1
    <2>1. CASE w = 0
        BY <2>1
    <2>2. CASE w # 0
        BY <1>2, <1>3, <1>7, <2>2, RunCounts
    <2> QED
        BY <2>1, <2>2
<1>17. ASSUME e.kind # "long", r.long = <<>>
       PROVE  \E v : Run(read, m, v) /\ r.long = [j \in 1 .. v |-> read[m - v + j]]
    <2>1. Run(read, m, 0)
        BY <1>3, <1>8, <1>17 DEF Run
    <2>2. [j \in 1 .. 0 |-> read[m - 0 + j]] = <<>>
        OBVIOUS
    <2> QED
        BY <1>17, <2>1, <2>2
<1>18. CASE e.kind \in {"deleted", "label"}
    <2>1. ~IsNode(e)
        BY <1>18 DEF IsNode
    <2>2. w = 0 /\ s.long = <<>>
        <3>1. w = 0
            BY <1>15, <1>18, <2>1
        <3> QED
            BY <1>7, <3>1
    <2>3. r = s
        BY <1>13, <1>18, EntryTaken DEF Skipped
    <2>4. Shows(r.nodes, T, f)
        BY <1>6, <1>12, <2>1, <2>3
    <2>5. \E v : Run(read, m, v) /\ r.long = [j \in 1 .. v |-> read[m - v + j]]
        BY <1>17, <1>18, <2>2, <2>3
    <2> QED
        BY <1>2, <1>3, <1>4, <1>10, <1>13, <2>4, <2>5 DEF LoadedTo
<1>19. CASE e.kind = "long"
    <2>1. r = [nodes |-> s.nodes, long |-> Append(s.long, e)] /\ ~IsNode(e)
        BY <1>13, <1>19, EntryTaken DEF IsNode
    <2>2. Shows(r.nodes, T, f)
        BY <1>6, <1>12, <2>1
    <2>3. Run(read, m, w + 1)
        <3>1. ASSUME NEW j \in 0 .. w PROVE read[m - j].kind = "long"
            <4>1. CASE j = 0
                BY <1>3, <1>8, <1>19, <4>1
            <4>2. CASE j # 0
                <5>1. j - 1 \in 0 .. w - 1 /\ k - (j - 1) = m - j
                    BY <1>2, <1>8, <4>2
                <5> QED
                    BY <1>7, <5>1 DEF Run
            <4> QED
                BY <4>1, <4>2
        <3>2. w + 1 # m => read[m - (w + 1)].kind # "long"
            <4>1. m - (w + 1) = k - w /\ (w + 1 # m => w # k)
                BY <1>2, <1>8
            <4> QED
                BY <1>7, <4>1 DEF Run
        <3>3. PICK v : v = w + 1
            OBVIOUS
        <3>4. v \in 0 .. m /\ v - 1 = w
            BY <1>2, <1>8, <3>3
        <3>5. \A j \in 0 .. v - 1 : read[m - j].kind = "long"
            BY <3>1, <3>4
        <3>6. v # m => read[m - v].kind # "long"
            BY <3>2, <3>3
        <3>7. Run(read, m, v)
            BY <3>4, <3>5, <3>6 DEF Run
        <3> QED
            BY <3>3, <3>7
    <2>4. r.long = [j \in 1 .. w + 1 |-> read[m - (w + 1) + j]]
        <3>1. s.long \in Seq(Entries)
            BY DEF Loading
        <3>2. Len(s.long) = w
            BY <1>7, <1>8, <3>1
        <3>3. PICK l : l = Append(s.long, e)
            OBVIOUS
        <3>4. l \in Seq(Entries) /\ Len(l) = w + 1 /\ l[w + 1] = e /\ \A j \in 1 .. w : l[j] = s.long[j]
            BY <3>1, <3>2, <3>3, AppendProperties
        <3>5. ASSUME NEW j \in 1 .. w + 1 PROVE l[j] = read[m - (w + 1) + j]
            <4>1. m - (w + 1) + j = k - w + j
                BY <1>2, <1>8
            <4>2. CASE j = w + 1
                <5>1. k - w + j = m
                    BY <1>2, <1>8, <4>2
                <5> QED
                    BY <1>3, <3>4, <4>1, <4>2, <5>1
            <4>3. CASE j # w + 1
                <5>1. j \in 1 .. w
                    BY <1>8, <4>3
                <5> QED
                    BY <1>7, <3>4, <4>1, <5>1
            <4> QED
                BY <4>2, <4>3
        <3>6. l = [j \in 1 .. w + 1 |-> l[j]]
            BY <3>4
        <3> QED
            BY <2>1, <3>3, <3>5, <3>6
    <2>5. \E v : Run(read, m, v) /\ r.long = [j \in 1 .. v |-> read[m - v + j]]
        BY <2>3, <2>4
    <2> QED
        BY <1>2, <1>3, <1>4, <1>10, <1>13, <2>2, <2>5 DEF LoadedTo
<1>20. CASE e.kind \in {"file", "dir"}
    <2>1. NodeName(e, s.long) = NameOnDisk(read, m)
        BY <1>2, <1>3, <1>7, <1>16, <1>20, NameAtPlace
    <2>2. EntryNode(e, s.long) = f[m]
        <3>1. f[m] = OnDisk(read, m)
            BY <1>4, <1>8
        <3> QED
            BY <1>3, <2>1, <3>1 DEF EntryNode, OnDisk
    <2>3. e.kind = "dir" => (NodeName(e, s.long) \in {<<".">>, <<"..">>} <=> ~IsNode(e))
        <3>1. CASE w = 0
            <4>1. s.long = <<>>
                BY <1>7, <3>1
            <4>2. NodeName(e, s.long) = <<e.name>>
                BY <4>1 DEF NodeName
            <4>3. \A a, b : <<a>> = <<b>> => a = b
                OBVIOUS
            <4> QED
                BY <4>2, <4>3 DEF IsNode
        <3>2. CASE w # 0
            <4>1. IsNode(e)
                BY <1>15, <1>20, <3>2
            <4>2. NodeName(e, s.long) = [j \in 1 .. w |-> read[m - j].name]
                <5>1. NameOnDisk(read, k + 1) = [j \in 1 .. w |-> read[k + 1 - j].name]
                    BY <1>7, <1>16, <1>20, <3>2, RunNamed
                <5>2. [j \in 1 .. w |-> read[k + 1 - j].name] = [j \in 1 .. w |-> read[m - j].name]
                    BY <1>2
                <5>3. NameOnDisk(read, k + 1) = NameOnDisk(read, m)
                    BY <1>2
                <5> QED
                    BY <2>1, <5>1, <5>2, <5>3
            <4>3. read[k].kind = "long" /\ k \in 1 .. Len(read)
                <5>1. 0 \in 0 .. w - 1 /\ k - 0 = k /\ k >= 1
                    BY <1>8, <3>2
                <5>2. \A j \in 0 .. w - 1 : read[k - j].kind = "long"
                    BY <1>7 DEF Run
                <5>3. read[k].kind = "long"
                    BY <5>1, <5>2
                <5>4. k \in 1 .. Len(read)
                    BY <1>2, <1>8, <5>1
                <5> QED
                    BY <5>3, <5>4
            <4>4. read[k].name \notin {".", ".."}
                BY <1>8, <4>3 DEF IsSound
            <4>5. NodeName(e, s.long)[1] = read[k].name
                <5>1. 1 \in 1 .. w /\ m - 1 = k
                    BY <1>2, <1>8, <3>2
                <5> QED
                    BY <4>2, <5>1
            <4>6. <<".">>[1] = "." /\ <<"..">>[1] = ".."
                OBVIOUS
            <4> QED
                BY <4>1, <4>4, <4>5, <4>6
        <3> QED
            BY <3>1, <3>2
    <2>4. e.kind # "dir" => IsNode(e)
        BY <1>20 DEF IsNode
    <2>5. r = IF IsNode(e) THEN [nodes |-> Append(s.nodes, f[m]), long |-> <<>>]
              ELSE [nodes |-> s.nodes, long |-> <<>>]
        <3>1. e.kind \notin Skipped \cup {"label", "long"}
            BY <1>20 DEF Skipped
        <3>2. r = IF e.kind = "dir" /\ NodeName(e, s.long) \in {<<".">>, <<"..">>}
                  THEN [nodes |-> s.nodes, long |-> <<>>]
                  ELSE [nodes |-> Append(s.nodes, EntryNode(e, s.long)), long |-> <<>>]
            BY <1>13, <3>1, EntryTaken
        <3>3. (e.kind = "dir" /\ NodeName(e, s.long) \in {<<".">>, <<"..">>}) <=> ~IsNode(e)
            BY <2>3, <2>4
        <3> QED
            BY <2>2, <3>2, <3>3
    <2>6. Shows(r.nodes, T, f)
        <3>1. CASE IsNode(e)
            <4>1. Shows(Append(s.nodes, f[m]), S \cup {m}, f)
                BY <1>6, <1>8, <1>9, ShowsMore
            <4> QED
                BY <1>11, <2>5, <3>1, <4>1
        <3>2. CASE ~IsNode(e)
            BY <1>6, <1>12, <2>5, <3>2
        <3> QED
            BY <3>1, <3>2
    <2>7. r.long = <<>>
        BY <2>5
    <2>8. \E v : Run(read, m, v) /\ r.long = [j \in 1 .. v |-> read[m - v + j]]
        BY <1>17, <1>20, <2>7
    <2> QED
        BY <1>2, <1>3, <1>4, <1>10, <1>13, <2>6, <2>8 DEF LoadedTo
<1> QED
    BY <1>14, <1>18, <1>19, <1>20

\* What can be read at a byte.
Readings == Entries \cup {NoEntry}

\* What is before the end of a directory are entries, none of which ends it.
LEMMA BeforeItsEnd ==
    ASSUME NEW entries \in Seq(Readings)
    PROVE  /\ BeforeEnd(entries) \in Seq(Entries)
           /\ \A i \in 1 .. Len(BeforeEnd(entries)) : BeforeEnd(entries)[i].kind # "end"
<1>1. PICK n \in Nat : n = Len(entries)
    OBVIOUS
<1>2. PICK ends : ends = {i \in DOMAIN entries : entries[i].kind = "end"}
    OBVIOUS
<1>3. PICK m : m = IF ends = {} THEN n ELSE Min(ends) - 1
    OBVIOUS
<1>4. DOMAIN entries = 1 .. n
    BY <1>1
<1>5. m \in 0 .. n /\ \A i \in 1 .. m : i \notin ends
    <2>1. CASE ends = {}
        BY <1>3, <2>1
    <2>2. CASE ends # {}
        <3>1. ends \in SUBSET Nat /\ ends \in SUBSET (1 .. n)
            BY <1>2, <1>4
        <3>2. PICK x : x = Min(ends)
            OBVIOUS
        <3>3. x \in ends /\ \A y \in ends : x <= y
            BY <2>2, <3>1, <3>2, LeastOf
        <3>4. x \in 1 .. n /\ m = x - 1
            BY <1>3, <2>2, <3>1, <3>2, <3>3
        <3>5. ASSUME NEW i \in 1 .. m, i \in ends PROVE FALSE
            <4>1. x <= i /\ i <= x - 1
                BY <3>3, <3>4, <3>5
            <4> QED
                BY <3>4, <4>1
        <3> QED
            BY <3>4, <3>5
    <2> QED
        BY <2>1, <2>2
<1>6. PICK read : read = SubSeq(entries, 1, m)
    OBVIOUS
<1>7. read = BeforeEnd(entries)
    BY <1>1, <1>2, <1>3, <1>6 DEF BeforeEnd
<1>8. read \in Seq(Readings) /\ Len(read) = m /\ \A i \in 1 .. m : read[i] = entries[i]
    <2>1. \A i \in 1 .. m : i \in 1 .. Len(entries)
        BY <1>1, <1>5
    <2> QED
        BY <1>5, <1>6, <2>1
<1>9. \A i \in 1 .. m : i \in DOMAIN entries
    BY <1>4, <1>5
<1>10. ASSUME NEW i \in 1 .. m PROVE read[i] \in Entries /\ read[i].kind # "end"
    <2>1. read[i] \in Readings
        BY <1>8
    <2>2. entries[i].kind # "end"
        BY <1>2, <1>5, <1>9
    <2>3. NoEntry.kind = "end"
        BY DEF NoEntry
    <2> QED
        BY <1>8, <2>1, <2>2, <2>3 DEF Readings
<1>11. read \in Seq(Entries)
    <2>1. read \in [1 .. m -> Entries]
        BY <1>8, <1>10
    <2> QED
        BY <1>5, <2>1
<1> QED
    BY <1>7, <1>8, <1>10, <1>11

\* The nodes of a directory are a sequence.
LEMMA EntriesParsed ==
    ASSUME NEW entries \in Seq(Readings)
    PROVE  ParseEntries(entries) \in Seq(EntryNodes)
<1>1. BeforeEnd(entries) \in Seq(Entries)
    BY BeforeItsEnd
<1>2. PICK read \in Seq(Entries) : read = BeforeEnd(entries)
    BY <1>1
<1>3. PICK g : LoadsBy(read, g) /\ ParseEntries(entries) = g[Len(read)].nodes
    BY <1>1, <1>2, Parsed
<1>4. Len(read) \in 0 .. Len(read)
    OBVIOUS
<1>5. g[Len(read)] \in Loading
    BY <1>3, <1>4 DEF LoadsBy
<1> QED
    BY <1>3, <1>5 DEF Loading

\* A sound directory is loaded as it is on the disk.
LEMMA SoundIsShown ==
    ASSUME NEW entries \in Seq(Readings), IsSound(BeforeEnd(entries))
    PROVE  ParseEntries(entries) = EntriesOnDisk(BeforeEnd(entries))
<1>1. /\ BeforeEnd(entries) \in Seq(Entries)
      /\ \A i \in 1 .. Len(BeforeEnd(entries)) : BeforeEnd(entries)[i].kind # "end"
    BY BeforeItsEnd
<1>2. PICK read \in Seq(Entries) : read = BeforeEnd(entries)
    BY <1>1
<1>3. PICK n \in Nat : n = Len(read)
    OBVIOUS
<1>4. PICK g : LoadsBy(read, g) /\ ParseEntries(entries) = g[n].nodes
    BY <1>1, <1>2, <1>3, Parsed
<1>5. PICK f : f = [i \in 1 .. Len(read) |-> OnDisk(read, i)]
    OBVIOUS
<1>6. LoadedTo(read, 0, g[0])
    <2>1. g[0].nodes = <<>> /\ g[0].long = <<>>
        BY <1>4 DEF LoadsBy, NothingLoaded
    <2>2. {i \in 1 .. 0 : IsNode(read[i])} = {}
        OBVIOUS
    <2>3. Shows(g[0].nodes, {i \in 1 .. 0 : IsNode(read[i])}, f)
        BY <2>1, <2>2, ShowsNone
    <2>4. Run(read, 0, 0)
        BY DEF Run
    <2>5. g[0].long = [j \in 1 .. 0 |-> read[0 - 0 + j]]
        BY <2>1
    <2> QED
        BY <1>5, <2>3, <2>4, <2>5 DEF LoadedTo
<1>7. ASSUME NEW k \in 1 .. n, LoadedTo(read, k - 1, g[k - 1]) PROVE LoadedTo(read, k, g[k])
    <2>1. PICK m \in 0 .. n - 1 : m = k - 1
        OBVIOUS
    <2>2. m + 1 = k /\ m \in 0 .. n /\ m \in 0 .. Len(read) - 1
        BY <1>3, <2>1
    <2>3. g[m] \in Loading /\ g[k] = EntryLoad(g[m], read[k])
        BY <1>3, <1>4, <2>1, <2>2 DEF LoadsBy
    <2>4. IsSound(read) /\ \A i \in 1 .. Len(read) : read[i].kind # "end"
        BY <1>1, <1>2
    <2>5. LoadedTo(read, m, g[m])
        BY <1>7, <2>1
    <2>6. LoadedTo(read, m + 1, EntryLoad(g[m], read[m + 1]))
        BY <2>2, <2>3, <2>4, <2>5, EntryShown
    <2> QED
        BY <2>2, <2>3, <2>6
<1>8. LoadedTo(read, n, g[n])
    <2> DEFINE S == {k \in 0 .. n : LoadedTo(read, k, g[k])}
    <2>1. 0 \in S
        BY <1>6
    <2>2. \A k \in 1 .. n : k - 1 \in S => k \in S
        BY <1>7
    <2> HIDE DEF S
    <2>3. \A k \in 0 .. n : k \in S
        BY <2>1, <2>2, Induct
    <2>4. n \in S
        BY <2>3
    <2> QED
        BY <2>4 DEF S
<1>9. PICK S : S = {i \in DOMAIN read : IsNode(read[i])}
    OBVIOUS
<1>10. S = {i \in 1 .. n : IsNode(read[i])} /\ S \in SUBSET (1 .. n)
    BY <1>3, <1>9
<1>11. Shows(g[n].nodes, S, f)
    BY <1>5, <1>8, <1>10 DEF LoadedTo
<1>12. PICK order : order = InOrder(S)
    OBVIOUS
<1>13. \A k \in DOMAIN order : order[k] \in 1 .. n
    <2>1. IsFiniteSet(1 .. n)
        BY <1>3, FS_Interval
    <2>2. IsFiniteSet(S)
        BY <1>10, <2>1, FS_Subset
    <2>3. Numbers(S)
        BY <1>10, <2>2 DEF Numbers
    <2>4. n + 1 \in Int /\ \A i \in S : i < n + 1
        BY <1>10
    <2>5. InOrder(S) \in [1 .. Cardinality(S) -> S]
        BY <2>3, <2>4, OrderGrows
    <2> QED
        BY <1>10, <1>12, <2>5
<1>14. g[n].nodes = [k \in DOMAIN order |-> f[order[k]]]
    BY <1>11, <1>12 DEF Shows
<1>15. [k \in DOMAIN order |-> f[order[k]]] = [k \in DOMAIN order |-> OnDisk(read, order[k])]
    BY <1>3, <1>5, <1>13
<1>16. EntriesOnDisk(read) = [k \in DOMAIN order |-> OnDisk(read, order[k])]
    BY <1>9, <1>12 DEF EntriesOnDisk, OnDisk
<1> QED
    BY <1>2, <1>4, <1>14, <1>15, <1>16

-----------------------------------------------------------------------------
(* TreeMatchesDisk: what is read as a FAT directory *)

\* Where a chain may lead.
Linked(c) == {c, 0} \cup {fatVolume.map[x] : x \in DOMAIN fatVolume.map}

\* A chain of clusters is as long as there are clusters, at most.
LEMMA ChainRead ==
    ASSUME fatVolume.clusters \in Nat, NEW c
    PROVE  ClusterChain(c) \in Seq(Linked(c))
<1>1. PICK n \in Nat : n = fatVolume.clusters
    OBVIOUS
<1>2. PICK V : V = Linked(c)
    OBVIOUS
<1> DEFINE Step(w) == IF NextCluster(Last(w)) = 0 THEN w ELSE Append(w, NextCluster(Last(w)))
           F == [w \in Seq(V) |-> Step(w)]
           Eq(h) == h = [k \in 0 .. n |-> IF k = 0 THEN <<c>> ELSE Step(h[k - 1])]
           walk == CHOOSE h : Eq(h)
<1>3. ASSUME NEW w \in Seq(V) PROVE Step(w) \in Seq(V)
    <2>1. NextCluster(Last(w)) \in V
        BY <1>2 DEF NextCluster, Linked
    <2> QED
        BY <2>1, AppendProperties
<1>4. F \in [Seq(V) -> Seq(V)] /\ \A w \in Seq(V) : F[w] = Step(w)
    <2> HIDE DEF Step
    <2> QED
        BY <1>3
<1>5. <<c>> \in Seq(V)
    <2>1. c \in V
        BY <1>2 DEF Linked
    <2> QED
        BY <2>1
<1>6. ClusterChain(c) = walk[n]
    BY <1>1 DEF ClusterChain
<1> HIDE DEF F, Step
<1>7. PICK h \in [0 .. n -> Seq(V)] : h[0] = <<c>> /\ \A k \in 1 .. n : h[k] = F[h[k - 1]]
    <2>1. \E h : Visits(h, F, <<c>>, n, Seq(V))
        BY <1>4, <1>5, Iterates, Zenon
    <2> QED
        BY <2>1 DEF Visits
<1>8. ASSUME NEW k \in 0 .. n PROVE h[k] = IF k = 0 THEN <<c>> ELSE Step(h[k - 1])
    <2>1. CASE k = 0
        BY <1>7, <2>1
    <2>2. CASE k # 0
        <3>1. k \in 1 .. n /\ k - 1 \in 0 .. n
            BY <2>2
        <3>2. h[k - 1] \in Seq(V)
            BY <3>1
        <3> QED
            BY <1>4, <1>7, <2>2, <3>1, <3>2
    <2> QED
        BY <2>1, <2>2
<1>9. Eq(h)
    <2>1. h = [k \in 0 .. n |-> h[k]]
        OBVIOUS
    <2> QED
        BY <1>8, <2>1
<1>10. Eq(walk)
    BY <1>9
<1> HIDE DEF walk
<1>11. \A k \in 0 .. n : walk[k] = IF k = 0 THEN <<c>> ELSE Step(walk[k - 1])
    BY <1>10
<1>12. \A k \in 0 .. n : walk[k] \in Seq(V)
    <2>1. walk[0] \in Seq(V)
        <3>1. 0 \in 0 .. n
            OBVIOUS
        <3>2. walk[0] = <<c>>
            BY <1>11, <3>1
        <3> QED
            BY <1>5, <3>2
    <2>2. ASSUME NEW k \in 1 .. n, walk[k - 1] \in Seq(V) PROVE walk[k] \in Seq(V)
        <3>1. k \in 0 .. n /\ k # 0
            OBVIOUS
        <3>2. walk[k] = Step(walk[k - 1])
            BY <1>11, <3>1
        <3> QED
            BY <1>3, <2>2, <3>2
    <2> QED
        BY <2>1, <2>2, IteratesIn
<1>13. n \in 0 .. n
    OBVIOUS
<1> QED
    BY <1>2, <1>6, <1>12, <1>13

\* Wherever it is read, and however much of it, there are entries.
LEMMA EntriesRead ==
    ASSUME RealImage, SizesKnown(fatVolume), NEW dir, NEW isRoot
    PROVE  EntriesIn(dir, isRoot) \in Seq(Readings)
<1>1. PICK areas : areas = Areas(dir, isRoot)
    OBVIOUS
<1>2. PICK sector \in Nat : sector = fatVolume.boot.bytes
    BY DEF SizesKnown
<1>3. PICK per \in Nat : per = fatVolume.boot.perCluster
    BY DEF SizesKnown
<1>4. PICK wide \in Nat : wide = per * sector
    BY <1>2, <1>3
<1>5. PICK long \in Nat : long = fatVolume.boot.rootEntries * EntryBytes
    BY FatAssumption DEF SizesKnown
<1>6. PICK n \in Nat : DOMAIN areas = 1 .. n /\ \A j \in 1 .. n : areas[j].size \in Nat
    <2>1. CASE isRoot /\ fatVolume.type # "FAT32"
        <3>1. areas = <<[first |-> fatVolume.root * sector, size |-> long]>>
            BY <1>1, <1>2, <1>5, <2>1 DEF Areas
        <3>2. DOMAIN areas = 1 .. 1 /\ areas[1].size = long
            BY <3>1
        <3> QED
            BY <3>2
    <2>2. CASE ~(isRoot /\ fatVolume.type # "FAT32")
        <3>1. PICK chain : chain = ClusterChain(dir)
            OBVIOUS
        <3>2. chain \in Seq(Linked(dir))
            BY <3>1, ChainRead DEF SizesKnown
        <3>3. PICK m \in Nat : m = Len(chain)
            BY <3>2
        <3>4. areas = [j \in 1 .. m |-> [first |-> ClusterToBlock(fatVolume, chain[j]) * sector, size |-> wide]]
            BY <1>1, <1>2, <1>3, <1>4, <2>2, <3>1, <3>3 DEF Areas
        <3>5. DOMAIN areas = 1 .. m /\ \A j \in 1 .. m : areas[j].size = wide
            BY <3>4
        <3> QED
            BY <3>5
    <2> QED
        BY <2>1, <2>2
<1>7. \A p : EntryAtByte(p) \in Readings
    BY DEF EntryAtByte, RealImage, Readings
<1>8. PICK ss : ss = [j \in 1 .. n |->
                        [k \in 1 .. areas[j].size \div EntryBytes |->
                            EntryAtByte(areas[j].first + (k - 1) * EntryBytes)]]
    OBVIOUS
<1>9. EntriesIn(dir, isRoot) = FlattenSeq(ss)
    BY <1>1, <1>6, <1>8 DEF EntriesIn
<1>10. ss \in Seq(Seq(Readings))
    <2>1. ASSUME NEW j \in 1 .. n PROVE ss[j] \in Seq(Readings)
        <3>1. PICK e \in Nat : e = EntryBytes /\ e > 0
            BY FatAssumption
        <3>2. PICK s \in Nat : s = areas[j].size
            BY <1>6
        <3>3. PICK w \in Nat : w = s \div e
            BY <3>1, <3>2
        <3>4. ss[j] = [k \in 1 .. w |-> EntryAtByte(areas[j].first + (k - 1) * EntryBytes)]
            BY <1>8, <3>1, <3>2, <3>3
        <3>5. ss[j] \in [1 .. w -> Readings]
            BY <1>7, <3>4
        <3> QED
            BY <3>3, <3>5
    <2>2. ss \in [1 .. n -> Seq(Readings)]
        BY <1>8, <2>1
    <2> QED
        BY <2>2
<1>11. CASE ss = <<>>
    <2>1. FlattenSeq(ss) = <<>>
        BY <1>11 DEF FlattenSeq
    <2> QED
        BY <1>9, <2>1
<1>12. CASE ss # <<>>
    <2>1. \E g : /\ g \in [1 .. Len(ss) -> Seq(Readings)] /\ g[1] = ss[1]
                 /\ \A i \in 2 .. Len(ss) : g[i] = g[i - 1] \o ss[i]
                 /\ FlattenSeq(ss) = g[Len(ss)]
        BY <1>10, <1>12, FlatSteps
    <2>2. Len(ss) \in 1 .. Len(ss)
        BY <1>10, <1>12, EmptySeq
    <2> QED
        BY <1>9, <2>1, <2>2
<1> QED
    BY <1>11, <1>12

-----------------------------------------------------------------------------
(* TreeMatchesDisk: where the records of an ISO directory stand *)

\* The sector that comes after the one of a byte.
NextSector(p) == (p \div SectorBytes + 1) * SectorBytes

\* It starts within a sector's length, and ends a sector later.
LEMMA SectorNext ==
    ASSUME NEW p \in Nat
    PROVE  /\ NextSector(p) \in Nat /\ p < NextSector(p) /\ SectorBytes \in Nat /\ SectorBytes > 0
           /\ NextSector(NextSector(p)) = NextSector(p) + SectorBytes
<1>1. PICK w \in Nat : w = SectorBytes /\ w > 0
    BY IsoAssumption
<1>2. PICK q \in Nat : q = p \div w
    BY <1>1
<1>3. p < (q + 1) * w
    BY <1>1, <1>2
<1>4. PICK b \in Nat : b = (q + 1) * w
    BY <1>1, <1>2
<1>5. NextSector(p) = b
    BY <1>1, <1>2, <1>4 DEF NextSector
<1>6. b \div w = q + 1
    BY <1>1, <1>2, <1>4
<1>7. (q + 1 + 1) * w = b + w
    BY <1>1, <1>2, <1>4
<1>8. NextSector(b) = b + w
    BY <1>1, <1>6, <1>7 DEF NextSector
<1> QED
    BY <1>1, <1>3, <1>4, <1>5, <1>8

\* A record is put where it is within one sector.
LEMMA StartsWithin ==
    ASSUME NEW p \in Nat, NEW r, r.len \in 1 .. SectorBytes
    PROVE  /\ StartAfter(p, r) \in Nat /\ p <= StartAfter(p, r)
           /\ StartAfter(p, r) + r.len <= NextSector(StartAfter(p, r))
           /\ StartAfter(p, r) # p => StartAfter(p, r) = NextSector(p)
<1>1. PICK s : s = StartAfter(p, r)
    OBVIOUS
<1>2. s = IF p + r.len > NextSector(p) THEN NextSector(p) ELSE p
    BY <1>1 DEF StartAfter, NextSector
<1>3. PICK b \in Nat : b = NextSector(p) /\ p < b /\ NextSector(b) = b + SectorBytes
    BY SectorNext
<1>4. SectorBytes \in Nat
    BY SectorNext
<1>5. CASE p + r.len > b
    <2>1. s = b
        BY <1>2, <1>3, <1>5
    <2> QED
        BY <1>1, <1>3, <1>4, <2>1
<1>6. CASE ~(p + r.len > b)
    <2>1. s = p
        BY <1>2, <1>3, <1>6
    <2>2. p + r.len <= b
        BY <1>3, <1>4, <1>6
    <2> QED
        BY <1>1, <1>3, <2>1, <2>2
<1> QED
    BY <1>5, <1>6

\* Where records start and end that stand one after the other.
Placed(records, st, e) ==
    /\ st \in [1 .. Len(records) -> Nat] /\ e \in [0 .. Len(records) -> Nat] /\ e[0] = 0
    /\ \A k \in 1 .. Len(records) :
          /\ st[k] = StartAfter(e[k - 1], records[k]) /\ e[k] = st[k] + records[k].len
          /\ e[k - 1] <= st[k] /\ st[k] < e[k] /\ e[k] <= NextSector(st[k])
          /\ st[k] # e[k - 1] => st[k] = NextSector(e[k - 1])

\* Records that are made by the rules have their places.
LEMMA PlacesOfRecords ==
    ASSUME NEW records \in Seq(DirectoryRecords), \A k \in 1 .. Len(records) : IsMade(records[k])
    PROVE  \E st : Placed(records, st, EndOf(records))
<1>1. PICK n \in Nat : n = Len(records)
    OBVIOUS
<1>2. ASSUME NEW k \in 1 .. n PROVE records[k].len \in 1 .. SectorBytes
    <2>1. PICK r \in DirectoryRecords : r = records[k] /\ IsMade(r)
        BY <1>1
    <2>2. RecordBytes \in Nat /\ RecordBytes > 0 /\ SectorBytes \in Nat
        BY IsoAssumption
    <2>3. PICK l \in Nat, id \in Nat : l = r.len /\ id = r.idLen
        BY DEF DirectoryRecords
    <2>4. l \in RecordBytes + id .. SectorBytes
        BY <2>1, <2>3 DEF IsMade
    <2>5. l \in 1 .. SectorBytes
        BY <2>2, <2>4
    <2> QED
        BY <2>1, <2>3, <2>5
<1> DEFINE Next1(k, p) == StartAfter(p, records[k]) + records[k].len
           F == [x \in (1 .. n) \X Nat |-> Next1(x[1], x[2])]
           Eq(h) == h = [k \in 0 .. n |-> IF k = 0 THEN 0 ELSE Next1(k, h[k - 1])]
           e == CHOOSE h : Eq(h)
<1>3. ASSUME NEW k \in 1 .. n, NEW p \in Nat PROVE Next1(k, p) \in Nat
    <2>1. PICK s \in Nat : s = StartAfter(p, records[k])
        BY <1>2, StartsWithin
    <2>2. records[k].len \in 1 .. SectorBytes /\ SectorBytes \in Nat
        BY <1>2, SectorNext
    <2> QED
        BY <2>1, <2>2
<1> HIDE DEF Next1
<1>4. F \in [(1 .. n) \X Nat -> Nat] /\ \A k \in 1 .. n, p \in Nat : F[<<k, p>>] = Next1(k, p)
    BY <1>3
<1>5. EndOf(records) = e
    BY <1>1 DEF EndOf, Next1
<1> HIDE DEF F
<1>6. PICK h \in [0 .. n -> Nat] : h[0] = 0 /\ \A k \in 1 .. n : h[k] = F[<<k, h[k - 1]>>]
    <2>1. 0 \in Nat
        OBVIOUS
    <2>2. \E h : Takes(h, F, 0, n, Nat)
        BY <1>4, <2>1, StepsInOrder, Zenon
    <2> QED
        BY <2>2 DEF Takes
<1>7. ASSUME NEW k \in 0 .. n PROVE h[k] = IF k = 0 THEN 0 ELSE Next1(k, h[k - 1])
    <2>1. CASE k = 0
        BY <1>6, <2>1
    <2>2. CASE k # 0
        <3>1. k \in 1 .. n /\ k - 1 \in 0 .. n
            BY <2>2
        <3>2. h[k - 1] \in Nat
            BY <3>1
        <3> QED
            BY <1>4, <1>6, <2>2, <3>1, <3>2
    <2> QED
        BY <2>1, <2>2
<1>8. Eq(h)
    <2>1. h = [k \in 0 .. n |-> h[k]]
        OBVIOUS
    <2> QED
        BY <1>7, <2>1
<1>9. Eq(e)
    BY <1>8
<1> HIDE DEF e
<1>10. \A k \in 0 .. n : e[k] = IF k = 0 THEN 0 ELSE Next1(k, e[k - 1])
    BY <1>9
<1>11. ASSUME NEW k \in 1 .. n PROVE e[k] = Next1(k, e[k - 1])
    <2>1. k \in 0 .. n /\ k # 0
        OBVIOUS
    <2> QED
        BY <1>10, <2>1
<1>12. e[0] = 0
    <2>1. 0 \in 0 .. n
        OBVIOUS
    <2> QED
        BY <1>10, <2>1
<1>13. \A k \in 0 .. n : e[k] \in Nat
    <2>1. e[0] \in Nat
        BY <1>12
    <2>2. ASSUME NEW k \in 1 .. n, e[k - 1] \in Nat PROVE e[k] \in Nat
        BY <1>3, <1>11, <2>2
    <2> QED
        BY <2>1, <2>2, IteratesIn
<1>14. e \in [0 .. n -> Nat]
    <2>1. e = [k \in 0 .. n |-> e[k]]
        BY <1>9
    <2> QED
        BY <1>13, <2>1
<1> HIDE DEF Eq
<1>15. PICK st : st = [k \in 1 .. n |-> StartAfter(e[k - 1], records[k])]
    OBVIOUS
<1>16. ASSUME NEW k \in 1 .. n
       PROVE  /\ st[k] \in Nat /\ st[k] = StartAfter(e[k - 1], records[k]) /\ e[k] = st[k] + records[k].len
              /\ e[k - 1] <= st[k] /\ st[k] < e[k] /\ e[k] <= NextSector(st[k])
              /\ st[k] # e[k - 1] => st[k] = NextSector(e[k - 1])
    <2>1. k - 1 \in 0 .. n
        OBVIOUS
    <2>2. PICK p \in Nat : p = e[k - 1]
        BY <1>13, <2>1
    <2>3. PICK r : r = records[k]
        OBVIOUS
    <2>4. r.len \in 1 .. SectorBytes
        BY <1>2, <2>3
    <2>5. PICK s : s = StartAfter(p, r)
        OBVIOUS
    <2>6. /\ s \in Nat /\ p <= s /\ s + r.len <= NextSector(s)
          /\ s # p => s = NextSector(p)
        BY <2>4, <2>5, StartsWithin
    <2>7. st[k] = s
        BY <1>15, <2>2, <2>3, <2>5
    <2>8. e[k] = s + r.len
        BY <1>11, <2>2, <2>3, <2>5 DEF Next1
    <2>9. s < s + r.len
        <3>1. SectorBytes \in Nat
            BY SectorNext
        <3>2. PICK l \in 1 .. SectorBytes : l = r.len
            BY <2>4
        <3> QED
            BY <2>6, <3>1, <3>2
    <2> QED
        BY <2>2, <2>3, <2>5, <2>6, <2>7, <2>8, <2>9
<1>17. st \in [1 .. n -> Nat]
    BY <1>15, <1>16
<1>18. Placed(records, st, e)
    BY <1>1, <1>12, <1>14, <1>16, <1>17 DEF Placed
<1> QED
    BY <1>5, <1>18

\* What comes later starts later.
LEMMA PlacesGrow ==
    ASSUME NEW records, Len(records) \in Nat, NEW st, NEW e, Placed(records, st, e),
           NEW k \in 0 .. Len(records)
    PROVE  /\ \A i \in 1 .. k : st[i] < e[k]
           /\ \A i \in k + 1 .. Len(records) : e[k] <= st[i]
           /\ k # Len(records) => \A i \in k + 2 .. Len(records) : st[k + 1] < st[i]
<1>1. PICK n \in Nat : n = Len(records)
    OBVIOUS
<1>2. /\ \A i \in 1 .. n : st[i] \in Nat /\ e[i - 1] <= st[i] /\ st[i] < e[i]
      /\ \A i \in 0 .. n : e[i] \in Nat
    BY <1>1 DEF Placed
<1>3. ASSUME NEW i \in 0 .. n, NEW j \in 0 .. n, i <= j PROVE e[i] <= e[j]
    <2> DEFINE S == {m \in 0 .. n : i <= m => e[i] <= e[m]}
    <2>1. 0 \in S
        BY <1>2
    <2>2. ASSUME NEW m \in 1 .. n, m - 1 \in S PROVE m \in S
        <3>1. m \in 0 .. n /\ m - 1 \in 0 .. n
            OBVIOUS
        <3>2. e[m - 1] <= e[m] /\ e[m - 1] \in Nat /\ e[m] \in Nat /\ e[i] \in Nat
            <4>1. st[m] \in Nat /\ e[m - 1] <= st[m] /\ st[m] < e[m]
                BY <1>2
            <4>2. e[m - 1] \in Nat /\ e[m] \in Nat /\ e[i] \in Nat
                BY <1>2, <3>1
            <4> QED
                BY <4>1, <4>2
        <3>3. CASE i = m
            BY <3>1, <3>2, <3>3
        <3>4. CASE i # m
            <4>1. i <= m => i <= m - 1
                BY <3>4
            <4>2. i <= m - 1 => e[i] <= e[m - 1]
                BY <2>2
            <4> QED
                BY <3>1, <3>2, <4>1, <4>2
        <3> QED
            BY <3>3, <3>4
    <2> HIDE DEF S
    <2>3. \A m \in 0 .. n : m \in S
        BY <2>1, <2>2, Induct
    <2> QED
        BY <1>3, <2>3 DEF S
<1>4. ASSUME NEW i \in 1 .. k PROVE st[i] < e[k]
    <2>1. i \in 1 .. n /\ i \in 0 .. n /\ k \in 0 .. n /\ i <= k
        BY <1>1
    <2>2. e[i] <= e[k]
        BY <1>3, <2>1
    <2> QED
        BY <1>2, <2>1, <2>2
<1>5. ASSUME NEW i \in k + 1 .. n PROVE e[k] <= st[i]
    <2>1. i \in 1 .. n /\ i - 1 \in 0 .. n /\ k \in 0 .. n /\ k <= i - 1
        BY <1>1
    <2>2. e[k] <= e[i - 1]
        BY <1>3, <2>1
    <2> QED
        BY <1>2, <2>1, <2>2
<1>6. ASSUME k # n, NEW i \in k + 2 .. n PROVE st[k + 1] < st[i]
    <2>1. i \in 1 .. n /\ i - 1 \in 0 .. n /\ k + 1 \in 0 .. n /\ k + 1 \in 1 .. n /\ k + 1 <= i - 1
        BY <1>1, <1>6
    <2>2. e[k + 1] <= e[i - 1]
        BY <1>3, <2>1
    <2>3. st[k + 1] < e[k + 1] /\ e[i - 1] <= st[i]
        BY <1>2, <2>1
    <2> QED
        BY <1>2, <2>1, <2>2, <2>3
<1> QED
    BY <1>1, <1>4, <1>5, <1>6

-----------------------------------------------------------------------------
(* TreeMatchesDisk: an ISO directory is loaded record by record *)

RecordNodes == {NodeOf(r) : r \in {x \in DirectoryRecords : IsPresent(x.lba, x.size)}}
Scanning == [at : Nat, nodes : Seq(RecordNodes)]
NothingScanned == [at |-> 0, nodes |-> <<>>]

\* A round gets further; what it adds is on the volume.
LEMMA RecordTaken ==
    ASSUME RealImage, NEW lba, NEW size \in Nat, NEW s \in Scanning,
           NEW r, r = RecordAt(lba * SectorBytes + s.at)
    PROVE  /\ RecordLoad(lba, size, s) \in Scanning
           /\ s.at < size => s.at < RecordLoad(lba, size, s).at
           /\ s.at >= size => RecordLoad(lba, size, s) = s
           /\ s.at < size /\ ~Fits(lba, size, s.at) =>
                RecordLoad(lba, size, s) = [at |-> NextSector(s.at), nodes |-> s.nodes]
           /\ s.at < size /\ Fits(lba, size, s.at) =>
                RecordLoad(lba, size, s) =
                    [at |-> s.at + r.len, nodes |-> IF IsListed(r) THEN Append(s.nodes, NodeOf(r)) ELSE s.nodes]
<1>1. PICK p \in Nat : p = s.at
    BY DEF Scanning
<1>2. PICK t : t = RecordLoad(lba, size, s)
    OBVIOUS
<1>3. s = [at |-> p, nodes |-> s.nodes] /\ s.nodes \in Seq(RecordNodes)
    BY <1>1 DEF Scanning
<1>4. \A q : [s EXCEPT !.at = q] = [at |-> q, nodes |-> s.nodes]
    BY <1>3
<1>5. t = IF p >= size THEN s
          ELSE IF ~Fits(lba, size, p) THEN [at |-> NextSector(p), nodes |-> s.nodes]
          ELSE [at |-> p + r.len, nodes |-> IF IsListed(r) THEN Append(s.nodes, NodeOf(r)) ELSE s.nodes]
    <2>1. [s EXCEPT !.at = (@ \div SectorBytes + 1) * SectorBytes] = [at |-> NextSector(p), nodes |-> s.nodes]
        <3>1. [s EXCEPT !.at = (@ \div SectorBytes + 1) * SectorBytes]
                = [s EXCEPT !.at = (p \div SectorBytes + 1) * SectorBytes]
            BY <1>1
        <3> QED
            BY <1>4, <3>1 DEF NextSector
    <2> QED
        BY <1>1, <1>2, <2>1 DEF RecordLoad
<1>6. CASE p >= size
    BY <1>1, <1>2, <1>5, <1>6
<1>7. CASE p < size /\ ~Fits(lba, size, p)
    <2>1. t = [at |-> NextSector(p), nodes |-> s.nodes]
        BY <1>1, <1>5, <1>7
    <2>2. NextSector(p) \in Nat /\ p < NextSector(p)
        BY SectorNext
    <2>3. t \in Scanning
        BY <1>3, <2>1, <2>2 DEF Scanning
    <2> QED
        BY <1>1, <1>2, <1>7, <2>1, <2>2, <2>3
<1>8. CASE p < size /\ Fits(lba, size, p)
    <2>1. t = [at |-> p + r.len, nodes |-> IF IsListed(r) THEN Append(s.nodes, NodeOf(r)) ELSE s.nodes]
        BY <1>1, <1>5, <1>8
    <2>2. r.len > 0
        BY <1>1, <1>8 DEF Fits
    <2>3. r \in DirectoryRecords
        <3>1. Padding.len = 0
            BY DEF Padding
        <3> QED
            BY <2>2, <3>1 DEF RecordAt, RealImage
    <2>4. PICK l \in Nat : l = r.len /\ l > 0
        BY <2>2, <2>3 DEF DirectoryRecords
    <2>5. IsListed(r) => NodeOf(r) \in RecordNodes
        <3>1. IsListed(r) => IsPresent(r.lba, r.size)
            BY DEF IsListed, ExtentIsReadable, IsPresent
        <3> QED
            BY <2>3, <3>1 DEF RecordNodes
    <2>6. t.nodes \in Seq(RecordNodes)
        BY <1>3, <2>1, <2>5, AppendProperties
    <2>7. t = [at |-> p + l, nodes |-> t.nodes]
        BY <2>1, <2>4
    <2>8. t \in Scanning
        BY <2>6, <2>7 DEF Scanning
    <2> QED
        BY <1>1, <1>2, <1>8, <2>1, <2>4, <2>7, <2>8
<1> QED
    BY <1>1, <1>6, <1>7, <1>8

\* The states that loading an extent goes through.
ScansBy(lba, size, g) ==
    /\ g \in [0 .. size -> Scanning] /\ g[0] = NothingScanned
    /\ \A k \in 1 .. size : g[k] = RecordLoad(lba, size, g[k - 1])

\* An extent is loaded round by round, to its end.
LEMMA Scanned ==
    ASSUME RealImage, NEW lba, NEW size \in Nat
    PROVE  \E g : /\ ScansBy(lba, size, g) /\ g[size].at >= size
                  /\ ParseRecords(lba, size) = g[size].nodes
<1> DEFINE F == [s \in Scanning |-> RecordLoad(lba, size, s)]
           Eq(h) == h = [n \in 0 .. size |-> IF n = 0 THEN NothingScanned ELSE RecordLoad(lba, size, h[n - 1])]
           g == CHOOSE h : Eq(h)
<1>1. F \in [Scanning -> Scanning] /\ \A s \in Scanning : F[s] = RecordLoad(lba, size, s)
    BY RecordTaken
<1>2. NothingScanned \in Scanning
    BY DEF NothingScanned, Scanning
<1> HIDE DEF F
<1>3. PICK h \in [0 .. size -> Scanning] : h[0] = NothingScanned /\ \A k \in 1 .. size : h[k] = F[h[k - 1]]
    <2>1. \E h : Visits(h, F, NothingScanned, size, Scanning)
        BY <1>1, <1>2, Iterates, Zenon
    <2> QED
        BY <2>1 DEF Visits
<1>4. ASSUME NEW k \in 0 .. size PROVE h[k] = IF k = 0 THEN NothingScanned ELSE RecordLoad(lba, size, h[k - 1])
    <2>1. CASE k = 0
        BY <1>3, <2>1
    <2>2. CASE k # 0
        <3>1. k \in 1 .. size /\ k - 1 \in 0 .. size
            BY <2>2
        <3>2. h[k - 1] \in Scanning
            BY <3>1
        <3> QED
            BY <1>1, <1>3, <2>2, <3>1, <3>2
    <2> QED
        BY <2>1, <2>2
<1>5. Eq(h)
    <2>1. h = [k \in 0 .. size |-> h[k]]
        OBVIOUS
    <2> QED
        BY <1>4, <2>1
<1>6. Eq(g)
    BY <1>5
<1>7. ParseRecords(lba, size) = g[size].nodes
    BY DEF ParseRecords, NothingScanned
<1> HIDE DEF g
<1>8. \A k \in 0 .. size : g[k] = IF k = 0 THEN NothingScanned ELSE RecordLoad(lba, size, g[k - 1])
    BY <1>6
<1>9. ASSUME NEW k \in 1 .. size PROVE g[k] = RecordLoad(lba, size, g[k - 1])
    <2>1. k \in 0 .. size /\ k # 0
        OBVIOUS
    <2> QED
        BY <1>8, <2>1
<1>10. g[0] = NothingScanned
    <2>1. 0 \in 0 .. size
        OBVIOUS
    <2> QED
        BY <1>8, <2>1
<1>11. \A k \in 0 .. size : g[k] \in Scanning
    <2>1. g[0] \in Scanning
        BY <1>2, <1>10
    <2>2. ASSUME NEW k \in 1 .. size, g[k - 1] \in Scanning PROVE g[k] \in Scanning
        <3>1. PICK s \in Scanning : s = g[k - 1]
            BY <2>2
        <3>2. RecordLoad(lba, size, s) \in Scanning
            BY RecordTaken
        <3> QED
            BY <1>9, <3>1, <3>2
    <2> QED
        BY <2>1, <2>2, IteratesIn
<1>12. g \in [0 .. size -> Scanning]
    <2>1. g = [k \in 0 .. size |-> g[k]]
        BY <1>6
    <2> QED
        BY <1>11, <2>1
<1> HIDE DEF Eq
<1>13. ScansBy(lba, size, g)
    BY <1>9, <1>10, <1>12 DEF ScansBy
<1>14. \A k \in 0 .. size : k \in {n \in 0 .. size : g[n].at >= n \/ g[n].at >= size}
    <2> DEFINE S == {n \in 0 .. size : g[n].at >= n \/ g[n].at >= size}
    <2>1. 0 \in S
        <3>1. g[0].at = 0
            BY <1>10 DEF NothingScanned
        <3> QED
            BY <3>1
    <2>2. ASSUME NEW k \in 1 .. size, k - 1 \in S PROVE k \in S
        <3>1. k - 1 \in 0 .. size /\ (g[k - 1].at >= k - 1 \/ g[k - 1].at >= size)
            BY <2>2
        <3>2. PICK s \in Scanning : s = g[k - 1]
            BY <1>11, <3>1
        <3>3. PICK t \in Scanning : t = g[k]
            BY <1>11
        <3>4. t = RecordLoad(lba, size, s)
            BY <1>9, <3>2, <3>3
        <3>5. s.at \in Nat /\ t.at \in Nat
            BY DEF Scanning
        <3>6. (s.at < size => s.at < t.at) /\ (s.at >= size => t = s)
            BY <3>4, RecordTaken
        <3> QED
            BY <3>1, <3>2, <3>3, <3>5, <3>6
    <2> HIDE DEF S
    <2>3. \A k \in 0 .. size : k \in S
        BY <2>1, <2>2, Induct
    <2> QED
        BY <2>3 DEF S
<1>15. g[size].at >= size
    BY <1>14
<1> QED
    BY <1>7, <1>13, <1>15

-----------------------------------------------------------------------------
(* TreeMatchesDisk: an ISO directory that was written by the rules *)

\* An extent that holds these records, at these places, and nothing else.
Holds(lba, size, records, st, e) ==
    /\ Placed(records, st, e) /\ e[Len(records)] <= size
    /\ \A k \in 1 .. Len(records) : RecordAt(lba * SectorBytes + st[k]) = records[k] /\ IsMade(records[k])
    /\ \A p \in 0 .. size - 1 :
          (\E k \in 1 .. Len(records) : st[k] = p) \/ RecordAt(lba * SectorBytes + p).len = 0

\* What was written has its places.
LEMMA WrittenHolds ==
    ASSUME NEW lba, NEW size \in Nat, NEW records \in Seq(DirectoryRecords), IsWritten(lba, size, records)
    PROVE  \E st, e : Holds(lba, size, records, st, e)
<1>1. PICK n \in Nat : n = Len(records)
    OBVIOUS
<1>2. DOMAIN records = 1 .. n
    BY <1>1
<1>3. PICK e : e = EndOf(records)
    OBVIOUS
<1>4. PICK start : start = [k \in DOMAIN records |-> StartAfter(EndOf(records)[k - 1], records[k])]
    OBVIOUS
<1>5. /\ e[n] <= size
      /\ \A k \in 1 .. n : IsMade(records[k]) /\ RecordAt(lba * SectorBytes + start[k]) = records[k]
      /\ \A p \in 0 .. size - 1 : p \in Range(start) \/ RecordAt(lba * SectorBytes + p).len = 0
    BY <1>1, <1>2, <1>3, <1>4 DEF IsWritten
<1>6. PICK st : Placed(records, st, e)
    BY <1>1, <1>3, <1>5, PlacesOfRecords
<1>7. st = start
    <2>1. st = [k \in 1 .. n |-> st[k]]
        BY <1>1, <1>6 DEF Placed
    <2>2. start = [k \in 1 .. n |-> start[k]]
        BY <1>2, <1>4
    <2>3. ASSUME NEW k \in 1 .. n PROVE st[k] = start[k]
        <3>1. start[k] = StartAfter(e[k - 1], records[k])
            BY <1>2, <1>3, <1>4
        <3> QED
            BY <1>1, <1>6, <3>1 DEF Placed
    <2> QED
        BY <2>1, <2>2, <2>3
<1>8. ASSUME NEW p \in Range(st) PROVE \E k \in 1 .. n : st[k] = p
    <2>1. DOMAIN st = 1 .. n
        BY <1>1, <1>6 DEF Placed
    <2> QED
        BY <2>1 DEF Range
<1>9. Holds(lba, size, records, st, e)
    BY <1>1, <1>5, <1>6, <1>7, <1>8 DEF Holds
<1> QED
    BY <1>9

\* So many records are loaded, and the next one is ahead, in the sector or at the next.
ScannedTo(records, st, e, k, s) ==
    /\ Shows(s.nodes, {i \in 1 .. k : IsListed(records[i])}, [i \in 1 .. Len(records) |-> NodeOf(records[i])])
    /\ e[k] <= s.at
    /\ k # Len(records) => s.at \in {e[k], st[k + 1]}

\* A round loads the next record or goes to its sector.
LEMMA RoundShown ==
    ASSUME RealImage, NEW lba, NEW size \in Nat, NEW records \in Seq(DirectoryRecords),
           NEW st, NEW e, Holds(lba, size, records, st, e),
           NEW s \in Scanning, NEW k \in 0 .. Len(records), ScannedTo(records, st, e, k, s)
    PROVE  \E m \in 0 .. Len(records) : ScannedTo(records, st, e, m, RecordLoad(lba, size, s))
<1>1. PICK n \in Nat : n = Len(records)
    OBVIOUS
<1>2. PICK p \in Nat : p = s.at
    BY DEF Scanning
<1>3. PICK t : t = RecordLoad(lba, size, s)
    OBVIOUS
<1>4. /\ \A i \in 1 .. n : /\ st[i] \in Nat /\ e[i] = st[i] + records[i].len
                           /\ st[i] < e[i] /\ e[i] <= NextSector(st[i]) /\ e[i - 1] <= st[i]
                           /\ st[i] # e[i - 1] => st[i] = NextSector(e[i - 1])
      /\ \A i \in 0 .. n : e[i] \in Nat
    BY <1>1 DEF Holds, Placed
<1>5. /\ \A i \in 1 .. k : st[i] < e[k]
      /\ \A i \in k + 1 .. n : e[k] <= st[i]
      /\ k # n => \A i \in k + 2 .. n : st[k + 1] < st[i]
    BY <1>1, PlacesGrow DEF Holds
<1>6. k \in 0 .. n /\ e[k] <= p /\ e[n] \in Nat /\ e[n] <= size
    BY <1>1, <1>2, <1>4 DEF ScannedTo, Holds
<1>7. k # n => p \in {e[k], st[k + 1]}
    BY <1>1, <1>2 DEF ScannedTo
<1>8. PICK f : f = [i \in 1 .. Len(records) |-> NodeOf(records[i])]
    OBVIOUS
<1>9. PICK S : S = {i \in 1 .. k : IsListed(records[i])}
    OBVIOUS
<1>10. Shows(s.nodes, S, f)
    BY <1>8, <1>9 DEF ScannedTo
<1>11. PICK r : r = RecordAt(lba * SectorBytes + p)
    OBVIOUS
<1>12. /\ p >= size => t = s
       /\ p < size /\ ~Fits(lba, size, p) => t = [at |-> NextSector(p), nodes |-> s.nodes]
       /\ p < size /\ Fits(lba, size, p) =>
            t = [at |-> p + r.len, nodes |-> IF IsListed(r) THEN Append(s.nodes, NodeOf(r)) ELSE s.nodes]
    BY <1>2, <1>3, <1>11, RecordTaken
<1>13. ASSUME t.nodes = s.nodes, e[k] <= t.at, k # n => t.at \in {e[k], st[k + 1]}
       PROVE  ScannedTo(records, st, e, k, t)
    BY <1>1, <1>8, <1>9, <1>10, <1>13 DEF ScannedTo
<1>14. CASE p >= size
    <2>1. t = s
        BY <1>12, <1>14
    <2> QED
        BY <1>3, <2>1
<1>15. ASSUME p < size, \A i \in 1 .. n : st[i] # p PROVE t = [at |-> NextSector(p), nodes |-> s.nodes]
    <2>1. p \in 0 .. size - 1
        BY <1>15
    <2>2. r.len = 0
        BY <1>1, <1>11, <1>15, <2>1 DEF Holds
    <2>3. ~Fits(lba, size, p)
        BY <1>11, <2>2 DEF Fits
    <2> QED
        BY <1>12, <1>15, <2>3
<1>16. CASE p < size /\ k = n
    <2>1. ASSUME NEW i \in 1 .. n PROVE st[i] # p
        BY <1>4, <1>5, <1>6, <1>16
    <2>2. t = [at |-> NextSector(p), nodes |-> s.nodes]
        BY <1>15, <1>16, <2>1
    <2>3. NextSector(p) \in Nat /\ p < NextSector(p)
        BY SectorNext
    <2>4. e[k] <= NextSector(p)
        BY <1>4, <1>6, <2>3
    <2>5. ScannedTo(records, st, e, k, t)
        BY <1>13, <1>16, <2>2, <2>4
    <2> QED
        BY <1>3, <2>5
<1>17. CASE p < size /\ k # n /\ p # st[k + 1]
    <2>1. k + 1 \in 1 .. n /\ k + 1 - 1 = k
        BY <1>6, <1>17
    <2>2. p = e[k] /\ st[k + 1] = NextSector(p)
        BY <1>4, <1>7, <1>17, <2>1
    <2>3. NextSector(p) \in Nat /\ p < NextSector(p)
        BY SectorNext
    <2>4. ASSUME NEW i \in 1 .. n PROVE st[i] # p
        <3>1. CASE i \in 1 .. k
            BY <1>4, <1>5, <2>2, <3>1
        <3>2. CASE i = k + 1
            BY <1>17, <3>2
        <3>3. CASE i \in k + 2 .. n
            <4>1. st[k + 1] < st[i] /\ st[i] \in Nat
                BY <1>4, <1>5, <1>17, <3>3
            <4> QED
                BY <2>2, <2>3, <4>1
        <3> QED
            BY <1>6, <3>1, <3>2, <3>3
    <2>5. t = [at |-> st[k + 1], nodes |-> s.nodes]
        BY <1>15, <1>17, <2>2, <2>4
    <2>6. e[k] <= st[k + 1]
        BY <2>2, <2>3
    <2>7. ScannedTo(records, st, e, k, t)
        BY <1>13, <2>5, <2>6
    <2> QED
        BY <1>3, <2>7
<1>18. CASE p < size /\ k # n /\ p = st[k + 1]
    <2>1. PICK m \in 1 .. n : m = k + 1
        BY <1>6, <1>18
    <2>2. p = st[m] /\ m \in 0 .. n
        BY <1>18, <2>1
    <2>3. r = records[m] /\ IsMade(r) /\ r \in DirectoryRecords
        BY <1>1, <1>11, <2>2 DEF Holds
    <2>4. PICK l \in Nat : l = r.len
        BY <2>3 DEF DirectoryRecords
    <2>5. e[m] = p + l /\ e[m] <= NextSector(p) /\ p < e[m]
        BY <1>4, <2>2, <2>3, <2>4
    <2>6. e[m] <= e[n]
        <3>1. CASE m = n
            BY <1>4, <2>2, <3>1
        <3>2. CASE m # n
            <4>1. n \in m + 1 .. n /\ n \in 1 .. n /\ n \in 0 .. n /\ m \in 0 .. Len(records)
                BY <1>1, <2>2, <3>2
            <4>2. e[m] <= st[n]
                BY <1>1, <4>1, PlacesGrow DEF Holds
            <4> QED
                BY <1>4, <2>2, <4>1, <4>2
        <3> QED
            BY <3>1, <3>2
    <2>7. PICK x \in Nat : x = SectorEnd(p, size)
        <3>1. NextSector(p) \in Nat
            BY SectorNext
        <3> QED
            BY <3>1 DEF SectorEnd, NextSector
    <2>8. e[m] \in Nat /\ e[m] <= x
        <3>1. NextSector(p) \in Nat /\ e[m] \in Nat
            BY <1>4, <2>2, SectorNext
        <3>2. x = IF NextSector(p) < size THEN NextSector(p) ELSE size
            BY <2>7 DEF SectorEnd, NextSector
        <3> QED
            BY <1>6, <2>5, <2>6, <3>1, <3>2
    <2>9. RecordBytes \in Nat /\ RecordBytes <= l
        <3>1. RecordBytes \in Nat /\ SectorBytes \in Nat
            BY IsoAssumption
        <3>2. PICK id \in Nat : id = r.idLen
            BY <2>3 DEF DirectoryRecords
        <3>3. l \in RecordBytes + id .. SectorBytes
            BY <2>3, <2>4, <3>2 DEF IsMade
        <3> QED
            BY <3>1, <3>3
    <2>10. Fits(lba, size, p)
        <3>1. l > 0 /\ p + l <= x /\ p + RecordBytes <= x
            BY <2>5, <2>8, <2>9
        <3> QED
            BY <1>11, <2>4, <2>7, <3>1 DEF Fits
    <2>11. t = [at |-> e[m], nodes |-> IF IsListed(r) THEN Append(s.nodes, NodeOf(r)) ELSE s.nodes]
        BY <1>12, <1>18, <2>4, <2>5, <2>10
    <2>12. PICK T : T = {i \in 1 .. m : IsListed(records[i])}
        OBVIOUS
    <2>13. Shows(t.nodes, T, f)
        <3>1. CASE IsListed(r)
            <4>1. T = S \cup {m}
                BY <1>6, <1>9, <2>1, <2>3, <2>12, <3>1
            <4>2. m \in Int /\ 1 \in Int /\ k \in Int
                BY <1>6, <2>1
            <4>3. IsFiniteSet(1 .. k)
                BY <4>2, FS_Interval
            <4>4. S \in SUBSET (1 .. k)
                BY <1>9
            <4>5. IsFiniteSet(S)
                BY <4>3, <4>4, FS_Subset
            <4>6. \A i \in 1 .. k : i \in Int /\ i < m
                BY <1>6, <2>1
            <4>7. \A i \in S : i \in Int /\ i < m
                BY <4>4, <4>6
            <4>8. Numbers(S)
                BY <4>5, <4>7 DEF Numbers
            <4>9. Shows(Append(s.nodes, f[m]), S \cup {m}, f)
                BY <1>10, <4>2, <4>7, <4>8, ShowsMore
            <4>10. f[m] = NodeOf(r)
                BY <1>1, <1>8, <2>3
            <4>11. t.nodes = Append(s.nodes, f[m])
                BY <2>11, <3>1, <4>10
            <4> QED
                BY <4>1, <4>9, <4>11
        <3>2. CASE ~IsListed(r)
            <4>1. T = S
                BY <1>6, <1>9, <2>1, <2>3, <2>12, <3>2
            <4>2. t.nodes = s.nodes
                BY <2>11, <3>2
            <4> QED
                BY <1>10, <4>1, <4>2
        <3> QED
            BY <3>1, <3>2
    <2>14. t.at = e[m]
        BY <2>11
    <2>15. e[m] <= t.at /\ (m # Len(records) => t.at \in {e[m], st[m + 1]})
        BY <2>8, <2>14
    <2>16. ScannedTo(records, st, e, m, t)
        BY <1>8, <2>12, <2>13, <2>15 DEF ScannedTo
    <2> QED
        BY <1>1, <1>3, <2>2, <2>16
<1> QED
    BY <1>2, <1>14, <1>16, <1>17, <1>18

\* What gets a node is what is there and not too large.
LEMMA MadeIsListed ==
    ASSUME NEW r \in DirectoryRecords, IsMade(r)
    PROVE  IsListed(r) <=> /\ r.kind \in {"file", "dir"} /\ IsPresent(r.lba, r.size)
                           /\ r.size <= IF r.kind = "dir" THEN MaxDirectory ELSE MaxFile
<1>1. PICK most \in Nat : most = IF r.kind = "dir" THEN MaxDirectory ELSE MaxFile
    BY IsoAssumption
<1>2. PICK size \in Nat, lba \in Nat, l \in Nat, id \in Nat : size = r.size /\ lba = r.lba /\ l = r.len /\ id = r.idLen
    BY DEF DirectoryRecords
<1>3. RecordBytes \in Nat /\ SectorBytes \in Nat
    BY IsoAssumption
<1>4. l >= RecordBytes + id
    <2>1. l \in RecordBytes + id .. SectorBytes
        BY <1>2 DEF IsMade
    <2> QED
        BY <1>3, <2>1
<1>5. r.kind # "section" /\ (r.kind \in {"file", "dir"} => r.name # "") /\ (size > 0 => lba > 0)
    BY <1>2 DEF IsMade
<1>6. ExtentIsReadable(lba, size, most, isoVolume.space) <=> IsPresent(lba, size) /\ size <= most
    <2>1. CASE size = 0
        BY <1>1, <2>1 DEF ExtentIsReadable, IsPresent
    <2>2. CASE size # 0
        <3>1. PICK past : past = lba * SectorBytes + size
            OBVIOUS
        <3>2. IsPresent(lba, size) <=> past <= source.bytes /\ past <= isoVolume.space
            BY <2>2, <3>1, Zenon DEF IsPresent
        <3>3. ExtentIsReadable(lba, size, most, isoVolume.space) <=>
                lba > 0 /\ size <= most /\ past <= source.bytes /\ past <= isoVolume.space
            BY <2>2, <3>1, Zenon DEF ExtentIsReadable
        <3>4. lba > 0
            <4>1. size > 0
                BY <1>2, <2>2
            <4> QED
                BY <1>5, <4>1
        <3> QED
            BY <3>2, <3>3, <3>4
    <2> QED
        BY <2>1, <2>2
<1> QED
    BY <1>1, <1>2, <1>4, <1>5, <1>6 DEF IsListed

\* A directory that was written by the rules is loaded as it was written.
LEMMA WrittenIsShown ==
    ASSUME RealImage, NEW lba, NEW size \in Nat, NEW records \in Seq(DirectoryRecords),
           IsWritten(lba, size, records)
    PROVE  ParseRecords(lba, size) = NodesOfWritten(records)
<1>1. PICK n \in Nat : n = Len(records)
    OBVIOUS
<1>2. DOMAIN records = 1 .. n
    BY <1>1
<1>3. PICK st, e : Holds(lba, size, records, st, e)
    BY WrittenHolds
<1>4. PICK g : /\ ScansBy(lba, size, g) /\ g[size].at >= size
               /\ ParseRecords(lba, size) = g[size].nodes
    BY Scanned
<1>5. PICK f : f = [i \in 1 .. Len(records) |-> NodeOf(records[i])]
    OBVIOUS
<1>6. ScannedTo(records, st, e, 0, g[0])
    <2>1. g[0].nodes = <<>> /\ g[0].at = 0
        BY <1>4 DEF ScansBy, NothingScanned
    <2>2. {i \in 1 .. 0 : IsListed(records[i])} = {}
        OBVIOUS
    <2>3. Shows(g[0].nodes, {i \in 1 .. 0 : IsListed(records[i])}, f)
        BY <2>1, <2>2, ShowsNone
    <2>4. e[0] = 0
        BY <1>3 DEF Holds, Placed
    <2> QED
        BY <1>5, <2>1, <2>3, <2>4 DEF ScannedTo
<1>7. \A j \in 0 .. size : j \in {i \in 0 .. size : \E k \in 0 .. Len(records) : ScannedTo(records, st, e, k, g[i])}
    <2> DEFINE S == {i \in 0 .. size : \E k \in 0 .. Len(records) : ScannedTo(records, st, e, k, g[i])}
    <2>1. 0 \in S
        BY <1>1, <1>6
    <2>2. ASSUME NEW j \in 1 .. size, j - 1 \in S PROVE j \in S
        <3>1. j - 1 \in 0 .. size
            OBVIOUS
        <3>2. PICK k \in 0 .. Len(records) : ScannedTo(records, st, e, k, g[j - 1])
            BY <2>2
        <3>3. PICK s \in Scanning : s = g[j - 1]
            BY <1>4, <3>1 DEF ScansBy
        <3>4. g[j] = RecordLoad(lba, size, s)
            BY <1>4, <3>3 DEF ScansBy
        <3>5. \E m \in 0 .. Len(records) : ScannedTo(records, st, e, m, RecordLoad(lba, size, s))
            BY <1>3, <3>2, <3>3, RoundShown
        <3> QED
            BY <3>4, <3>5
    <2> HIDE DEF S
    <2>3. \A j \in 0 .. size : j \in S
        BY <2>1, <2>2, Induct
    <2> QED
        BY <2>3 DEF S
<1>8. PICK k \in 0 .. n : ScannedTo(records, st, e, k, g[size])
    BY <1>1, <1>7
<1>9. k = n
    <2>1. ASSUME k # n PROVE FALSE
        <3>1. k + 1 \in 1 .. n /\ k + 1 \in 0 .. n
            BY <2>1
        <3>2. /\ e[k] \in Nat /\ st[k + 1] \in Nat /\ e[k + 1] \in Nat /\ st[k + 1] < e[k + 1] /\ e[n] \in Nat
              /\ e[k + 1 - 1] <= st[k + 1] /\ e[n] <= size
            BY <1>1, <1>3, <3>1 DEF Holds, Placed
        <3>3. g[size].at \in {e[k], st[k + 1]}
            BY <1>1, <1>8, <2>1 DEF ScannedTo
        <3>4. g[size].at <= st[k + 1]
            <4>1. k + 1 - 1 = k
                OBVIOUS
            <4> QED
                BY <3>2, <3>3, <4>1
        <3>5. e[k + 1] <= e[n]
            <4>1. CASE k + 1 = n
                BY <3>2, <4>1
            <4>2. CASE k + 1 # n
                <5>1. n \in (k + 1) + 1 .. n /\ n \in 1 .. n /\ k + 1 \in 0 .. Len(records)
                    BY <1>1, <3>1, <4>2
                <5>2. e[k + 1] <= st[n]
                    BY <1>1, <1>3, <5>1, PlacesGrow DEF Holds
                <5>3. st[n] \in Nat /\ st[n] < e[n]
                    BY <1>1, <1>3, <5>1 DEF Holds, Placed
                <5> QED
                    BY <3>2, <5>2, <5>3
            <4> QED
                BY <4>1, <4>2
        <3>6. g[size].at \in Nat
            <4>1. size \in 0 .. size
                OBVIOUS
            <4>2. g[size] \in Scanning
                BY <1>4, <4>1 DEF ScansBy
            <4> QED
                BY <4>2 DEF Scanning
        <3> QED
            BY <1>4, <3>2, <3>4, <3>5, <3>6
    <2> QED
        BY <2>1
<1>10. PICK S : S = {i \in 1 .. n : IsListed(records[i])}
    OBVIOUS
<1>11. Shows(g[size].nodes, S, f)
    BY <1>5, <1>8, <1>9, <1>10 DEF ScannedTo
<1>12. PICK order : order = InOrder(S)
    OBVIOUS
<1>13. \A i \in DOMAIN order : order[i] \in 1 .. n
    <2>1. IsFiniteSet(1 .. n)
        BY FS_Interval
    <2>2. S \in SUBSET (1 .. n)
        BY <1>10
    <2>3. IsFiniteSet(S)
        BY <2>1, <2>2, FS_Subset
    <2>4. Numbers(S)
        BY <2>2, <2>3 DEF Numbers
    <2>5. n + 1 \in Int /\ \A i \in S : i < n + 1
        BY <2>2
    <2>6. InOrder(S) \in [1 .. Cardinality(S) -> S]
        BY <2>4, <2>5, OrderGrows
    <2> QED
        BY <1>12, <2>2, <2>6
<1>14. g[size].nodes = [i \in DOMAIN order |-> f[order[i]]]
    BY <1>11, <1>12 DEF Shows
<1>15. [i \in DOMAIN order |-> f[order[i]]] = [i \in DOMAIN order |-> NodeOf(records[order[i]])]
    BY <1>1, <1>5, <1>13
<1>16. NodesOfWritten(records) = [i \in DOMAIN order |-> NodeOf(records[order[i]])]
    <2> DEFINE there(r) == /\ r.kind \in {"file", "dir"} /\ IsPresent(r.lba, r.size)
                           /\ r.size <= IF r.kind = "dir" THEN MaxDirectory ELSE MaxFile
    <2>1. ASSUME NEW i \in 1 .. n PROVE IsListed(records[i]) <=> there(records[i])
        <3>1. records[i] \in DirectoryRecords /\ IsMade(records[i])
            BY <1>1, <1>3 DEF Holds
        <3> QED
            BY <3>1, MadeIsListed
    <2>2. {i \in DOMAIN records : there(records[i])} = S
        <3> HIDE DEF there
        <3> QED
            BY <1>2, <1>10, <2>1
    <2> QED
        BY <1>12, <2>2 DEF NodesOfWritten
<1> QED
    BY <1>4, <1>14, <1>15, <1>16

-----------------------------------------------------------------------------
(* TreeMatchesDisk: the tree holds what the directories were loaded as *)

\* An ISO node has an extent.
Sized(t, d) == pc = "openIso" => Node(t, d).at[1] \in Nat /\ Node(t, d).at[2] \in Nat

\* The nodes of each directory are those that are loaded for its own node.
Loaded(t) == \A d \in DOMAIN t : t[d] = NodesIn(t, d) /\ Sized(t, d)

\* What is known of an open volume.
VolumeKnown ==
    /\ pc \in {"openFat", "openIso"}
    /\ pc = "openFat" => SizesKnown(fatVolume)
    /\ pc = "openIso" => isoVolume.lba \in Nat /\ isoVolume.size \in Nat

\* Nodes are in a sequence, and those of an ISO directory are on the volume.
LEMMA NodesKnown ==
    ASSUME RealImage, VolumeKnown, NEW t, NEW d, Sized(t, d)
    PROVE  /\ DOMAIN NodesIn(t, d) \subseteq Nat
           /\ pc = "openIso" => \A i \in DOMAIN NodesIn(t, d) :
                LET n == NodesIn(t, d)[i] IN n.at[1] \in Nat /\ n.at[2] \in Nat /\ IsPresent(n.at[1], n.at[2])
<1>1. PICK n : n = Node(t, d)
    OBVIOUS
<1>2. PICK nodes : nodes = NodesIn(t, d)
    OBVIOUS
<1>3. CASE pc = "openFat"
    <2>1. nodes = ParseEntries(EntriesIn(n.at[1], d = <<>>))
        BY <1>1, <1>2, <1>3 DEF NodesIn
    <2>2. EntriesIn(n.at[1], d = <<>>) \in Seq(Readings)
        BY <1>3, EntriesRead DEF VolumeKnown
    <2>3. nodes \in Seq(EntryNodes)
        BY <2>1, <2>2, EntriesParsed
    <2> QED
        BY <1>2, <1>3, <2>3
<1>4. CASE pc = "openIso"
    <2>1. PICK lba \in Nat, size \in Nat : lba = n.at[1] /\ size = n.at[2]
        BY <1>1, <1>4 DEF Sized
    <2>2. nodes = ParseRecords(lba, size)
        BY <1>1, <1>2, <1>4, <2>1 DEF NodesIn
    <2>3. PICK g : ScansBy(lba, size, g) /\ ParseRecords(lba, size) = g[size].nodes
        BY Scanned
    <2>4. size \in 0 .. size
        OBVIOUS
    <2>5. nodes \in Seq(RecordNodes)
        BY <2>2, <2>3, <2>4 DEF ScansBy, Scanning
    <2>6. ASSUME NEW i \in DOMAIN nodes
          PROVE  nodes[i].at[1] \in Nat /\ nodes[i].at[2] \in Nat /\ IsPresent(nodes[i].at[1], nodes[i].at[2])
        <3>1. nodes[i] \in RecordNodes
            BY <2>5
        <3>2. PICK r \in DirectoryRecords : IsPresent(r.lba, r.size) /\ nodes[i] = NodeOf(r)
            BY <3>1 DEF RecordNodes
        <3>3. nodes[i].at = <<r.lba, r.size>>
            BY <3>2 DEF NodeOf
        <3>4. nodes[i].at[1] = r.lba /\ nodes[i].at[2] = r.size
            BY <3>3
        <3>5. r.lba \in Nat /\ r.size \in Nat
            BY DEF DirectoryRecords
        <3> QED
            BY <3>2, <3>4, <3>5
    <2>7. DOMAIN nodes \subseteq Nat
        BY <2>5
    <2> QED
        BY <1>2, <2>6, <2>7
<1> QED
    BY <1>3, <1>4 DEF VolumeKnown

\* A directory that is loaded has its nodes, and the others keep theirs.
LEMMA LoadShows ==
    ASSUME NEW t, TreeShape(t), Loaded(t), NEW id, IsSeq(id), id = <<>> \/ Front(id) \in DOMAIN t,
           NeedsLoad(t, id), Sized(t, id)
    PROVE  Loaded(DirLoaded(t, id)) /\ Sized(DirLoaded(t, id), id)
<1>1. PICK u : u = DirLoaded(t, id)
    OBVIOUS
<1>2. id \notin DOMAIN t
    BY DEF NeedsLoad
<1>3. {e \in DOMAIN t : ~IsPrefix(id, e)} = DOMAIN t
    BY <1>2, NothingBelow
<1>4. DOMAIN u = DOMAIN t \cup {id} /\ u[id] = NodesIn(t, id) /\ \A d \in DOMAIN t : u[d] = t[d]
    BY <1>1, <1>2, <1>3 DEF DirLoaded
<1>5. ASSUME NEW d, d = <<>> \/ Front(d) \in DOMAIN t PROVE Node(u, d) = Node(t, d)
    BY <1>4, <1>5 DEF Node
<1>6. ASSUME NEW d, d = <<>> \/ Front(d) \in DOMAIN t PROVE NodesIn(u, d) = NodesIn(t, d) /\ (Sized(t, d) => Sized(u, d))
    <2>1. Node(u, d) = Node(t, d)
        BY <1>5, <1>6
    <2>2. NodesIn(u, d) = NodesIn(t, d)
        BY <2>1 DEF NodesIn
    <2> QED
        BY <2>1, <2>2 DEF Sized
<1>7. ASSUME NEW d \in DOMAIN u PROVE u[d] = NodesIn(u, d) /\ Sized(u, d)
    <2>1. CASE d = id
        BY <1>4, <1>6, <2>1
    <2>2. CASE d \in DOMAIN t
        <3>1. d = <<>> \/ Front(d) \in DOMAIN t
            BY <2>2 DEF TreeShape
        <3> QED
            BY <1>4, <1>6, <2>2, <3>1 DEF Loaded
    <2> QED
        BY <1>4, <2>1, <2>2
<1> QED
    BY <1>1, <1>4, <1>7 DEF Loaded

\* getByName goes on from a node that has an extent to one that has.
LEMMA StepShows ==
    ASSUME RealImage, VolumeKnown, NEW t, NEW s, Good(t, s), Loaded(s.tree), Sized(s.tree, s.id), NEW name
    PROVE  LET r == GetByName(s, name) IN Loaded(r.tree) /\ Sized(r.tree, r.id)
<1>1. PICK id : id = s.id
    OBVIOUS
<1>2. PICK u : u = IF NeedsLoad(s.tree, id) /\ CanLoadDir(s.tree, id)
                   THEN DirLoaded(s.tree, id) ELSE s.tree
    OBVIOUS
<1>3. Loaded(u) /\ Sized(u, id)
    <2>1. CASE NeedsLoad(s.tree, id) /\ CanLoadDir(s.tree, id)
        <3>1. TreeShape(s.tree) /\ IsSeq(id) /\ (id = <<>> \/ Front(id) \in DOMAIN s.tree)
            BY <1>1 DEF Good
        <3> QED
            BY <1>1, <1>2, <2>1, <3>1, LoadShows
    <2>2. CASE ~(NeedsLoad(s.tree, id) /\ CanLoadDir(s.tree, id))
        BY <1>1, <1>2, <2>2
    <2> QED
        BY <2>1, <2>2
<1>4. PICK hits : hits = IF Node(s.tree, id).dir /\ id \in DOMAIN u
                         THEN {i \in DOMAIN u[id] : SameName(u[id][i].name, name)} ELSE {}
    OBVIOUS
<1>5. PICK r : r = GetByName(s, name)
    OBVIOUS
<1>6. r = IF ~s.found \/ hits = {} THEN [tree |-> u, found |-> FALSE, id |-> id]
          ELSE [tree |-> u, found |-> TRUE, id |-> Append(id, Min(hits))]
    BY <1>1, <1>2, <1>4, <1>5 DEF GetByName
<1>7. r.tree = u /\ (r.id = id \/ (hits # {} /\ r.id = Append(id, Min(hits))))
    BY <1>6
<1>8. CASE r.id = id
    BY <1>3, <1>5, <1>7, <1>8
<1>9. CASE hits # {} /\ r.id = Append(id, Min(hits))
    <2>1. id \in DOMAIN u /\ hits \subseteq DOMAIN u[id]
        BY <1>4, <1>9
    <2>2. u[id] = NodesIn(u, id)
        BY <1>3, <2>1 DEF Loaded
    <2>3. hits \in SUBSET Nat
        BY <1>3, <2>1, <2>2, NodesKnown
    <2>4. PICK i : i = Min(hits)
        OBVIOUS
    <2>5. i \in DOMAIN u[id] /\ i \in Nat
        BY <1>9, <2>1, <2>3, <2>4, LeastOf
    <2>6. IsSeq(id)
        BY <1>1 DEF Good
    <2>7. r.id # <<>> /\ Front(r.id) = id /\ Last(r.id) = i
        <3>1. PICK S : id \in Seq(S)
            BY <2>6 DEF IsSeq
        <3>2. PICK T : T = S \cup {i}
            OBVIOUS
        <3>3. id \in Seq(T) /\ i \in T
            BY <3>1, <3>2
        <3>4. PICK e : e = Append(id, i)
            OBVIOUS
        <3>5. e \in Seq(T) /\ Len(e) = Len(id) + 1 /\ e[Len(id) + 1] = i
            BY <3>3, <3>4, AppendProperties
        <3>6. Last(e) = i
            BY <3>5 DEF Last
        <3> QED
            BY <1>9, <2>4, <2>6, <3>4, <3>6, PathOfNode
    <2>8. Node(u, r.id) = u[id][i]
        BY <2>7 DEF Node
    <2>9. Sized(u, r.id)
        BY <1>3, <2>2, <2>5, <2>8, NodesKnown DEF Sized
    <2> QED
        BY <1>3, <1>5, <1>7, <2>9
<1> QED
    BY <1>7, <1>8, <1>9

\* filesystemNode leaves a tree whose directories were all loaded so.
LEMMA LookupShows ==
    ASSUME RealImage, VolumeKnown, TreeShape(tree), Loaded(tree), NEW path \in Paths, Lookup(path)
    PROVE  Loaded(tree')
<1> DEFINE start == [tree |-> tree, found |-> TRUE, id |-> <<>>]
           walk == CHOOSE h : Walked(tree, path, h)
           Held(s) == Good(tree, s) /\ Loaded(s.tree) /\ Sized(s.tree, s.id)
<1>1. Len(path) \in Nat
    BY OpenAssumption
<1>2. \E h : Walked(tree, path, h)
    BY <1>1, WalkOfLookup
<1>3. Walked(tree, path, walk)
    BY <1>2
<1>4. PICK s : s = walk[Len(path)]
    OBVIOUS
<1>5. tree' = IF s.found /\ NeedsLoad(s.tree, s.id) /\ CanLoadDir(s.tree, s.id)
              THEN DirLoaded(s.tree, s.id) ELSE s.tree
    BY <1>4 DEF Lookup, Walked
<1> HIDE DEF walk
<1>6. \A n \in 0 .. Len(path) : walk[n] = IF n = 0 THEN start ELSE GetByName(walk[n - 1], path[n])
    BY <1>3 DEF Walked
<1>7. Held(start)
    <2>1. <<>> \in Seq({})
        OBVIOUS
    <2>2. Good(tree, start)
        BY <2>1 DEF Good, IsSeq, Extends
    <2>3. Sized(tree, <<>>)
        <3>1. ASSUME pc = "openIso" PROVE Node(tree, <<>>).at = <<isoVolume.lba, isoVolume.size>>
            BY <3>1 DEF Node, Root
        <3> QED
            BY <3>1 DEF Sized, VolumeKnown
    <2> QED
        BY <2>2, <2>3
<1> HIDE DEF start
<1>8. \A n \in 0 .. Len(path) : n \in {k \in 0 .. Len(path) : Held(walk[k])}
    <2> DEFINE S == {k \in 0 .. Len(path) : Held(walk[k])}
    <2>1. 0 \in S
        BY <1>1, <1>6, <1>7
    <2>2. ASSUME NEW n \in 1 .. Len(path), n - 1 \in S PROVE n \in S
        <3>1. n \in 0 .. Len(path) /\ n # 0 /\ Held(walk[n - 1])
            BY <2>2
        <3>2. walk[n] = GetByName(walk[n - 1], path[n])
            BY <1>6, <3>1
        <3>3. Good(tree, walk[n])
            BY <3>1, <3>2, GoesOn
        <3>4. Loaded(walk[n].tree) /\ Sized(walk[n].tree, walk[n].id)
            BY <3>1, <3>2, StepShows
        <3> QED
            BY <3>1, <3>3, <3>4
    <2> HIDE DEF S
    <2>3. \A n \in 0 .. Len(path) : n \in S
        BY <1>1, <2>1, <2>2, Induct
    <2> QED
        BY <2>3 DEF S
<1>9. Held(s)
    <2>1. Len(path) \in 0 .. Len(path)
        BY <1>1
    <2> QED
        BY <1>4, <1>8, <2>1
<1>10. CASE NeedsLoad(s.tree, s.id) /\ tree' = DirLoaded(s.tree, s.id)
    BY <1>9, <1>10, LoadShows DEF Good
<1>11. CASE tree' = s.tree
    BY <1>9, <1>11
<1> QED
    BY <1>5, <1>10, <1>11

\* What is loaded of a directory depends on the image and the volume alone.
LEMMA LoadedSame ==
    ASSUME UNCHANGED <<source, pc, fatVolume, isoVolume>>
    PROVE  \A t : t = tree' => (Loaded(tree)' <=> Loaded(t))
<1>1. \A t, d : Node(t, d)' = Node(t, d)
    BY DEF Node, Root
<1>2. \A dir, isRoot : EntriesIn(dir, isRoot)' = EntriesIn(dir, isRoot)
    BY DEF EntriesIn, Areas, ClusterChain, NextCluster, ClusterToBlock, EntryAtByte
<1>3. \A lba, size : ParseRecords(lba, size)' = ParseRecords(lba, size)
    BY DEF ParseRecords, RecordLoad, RecordAt, Fits, IsListed, ExtentIsReadable
<1>4. \A t, d : NodesIn(t, d)' = NodesIn(t, d)
    BY <1>1, <1>2, <1>3 DEF NodesIn
<1>5. \A t, d : Sized(t, d)' <=> Sized(t, d)
    BY <1>1 DEF Sized
<1>6. \A t : t = tree' => (Loaded(tree)' <=> \A d \in DOMAIN t : t[d] = NodesIn(t, d)' /\ Sized(t, d)')
    BY DEF Loaded, NodesIn, Sized, Node
<1> QED
    BY <1>4, <1>5, <1>6 DEF Loaded

\* Where an open ISO volume has its root, which a descriptor says.
IsoKnown == pc = "openIso" => isoVolume.lba \in Nat /\ isoVolume.size \in Nat

\* The descriptor that was chosen is one that was read.
LEMMA NextKnown ==
    ASSUME TypeInv, NamedInv, IsoKnown, [Next]_vars
    PROVE  IsoKnown'
<1>1. CASE LoadIso
    <2>1. pc = "iso"
        BY <1>1, IsoStages DEF LoadIso, TypeInv, TypeOK
    <2>2. CASE ReadDescriptor
        <3>1. pc' = pc
            BY <2>2 DEF ReadDescriptor
        <3> QED
            BY <2>1, <3>1 DEF IsoKnown
    <2>3. CASE LoadVolume
        <3>1. PICK chosen : chosen = IF descriptors.svd # NoDescriptor THEN descriptors.svd ELSE descriptors.pvd
            OBVIOUS
        <3>2. pc' = "openIso" => isoVolume' = [lba |-> chosen.lba, size |-> chosen.size, space |-> chosen.space * SectorBytes]
            BY <2>3, <3>1 DEF LoadVolume
        <3>3. NoDescriptor \in Descriptors
            BY DEF NoDescriptor, Descriptors, Types
        <3>4. \A i : Descriptor(i) \in Descriptors
            BY <3>3 DEF Descriptor, TypeInv, RealImage
        <3>5. descriptors.pvd \in Descriptors /\ descriptors.svd \in Descriptors
            BY <2>1, <3>3, <3>4 DEF NamedInv, DescriptorsRead
        <3>6. chosen \in Descriptors
            BY <3>1, <3>5
        <3>7. chosen.lba \in Nat /\ chosen.size \in Nat
            BY <3>6 DEF Descriptors
        <3> QED
            BY <3>2, <3>7 DEF IsoKnown
    <2> QED
        BY <1>1, <2>2, <2>3 DEF LoadIso, IsoStep
<1>2. CASE ~LoadIso
    <2>1. pc' = "openIso" => pc = "openIso" /\ UNCHANGED isoVolume
        <3>1. CASE Open
            BY <3>1 DEF Open
        <3>2. CASE LoadCommodore
            BY <3>2 DEF LoadCommodore, LoadD64
        <3>3. CASE TryADF
            BY <3>3 DEF TryADF
        <3>4. CASE TestFat
            BY <3>4 DEF TestFat
        <3>5. CASE TestIso
            BY <3>5 DEF TestIso
        <3>6. CASE LoadFat
            BY <3>6, FatStages DEF LoadFat
        <3>7. CASE UseMap
            BY <3>7 DEF UseMap, SectorSet, SaveMap
        <3>8. CASE Close
            BY <3>8 DEF Close
        <3>9. CASE \E path \in Paths : Lookup(path)
            BY <3>9 DEF Lookup, formats
        <3>10. CASE UNCHANGED vars
            BY <3>10 DEF vars
        <3> QED
            BY <1>2, <3>1, <3>2, <3>3, <3>4, <3>5, <3>6, <3>7, <3>8, <3>9, <3>10 DEF Next, OpenStep
    <2> QED
        BY <2>1 DEF IsoKnown
<1> QED
    BY <1>1, <1>2

\* TreeMatchesDisk, by how the nodes of each directory are loaded.
TreeInv == IsoKnown /\ (pc \in {"openFat", "openIso"} => Loaded(tree))

\* Only a lookup changes the tree of an open image.
LEMMA TreeStays ==
    ASSUME TypeInv, [Next]_vars
    PROVE  \/ \E path \in Paths : Lookup(path)
           \/ pc' \notin {"openFat", "openIso"}
           \/ pc \notin {"openFat", "openIso"} /\ tree' = tree
           \/ UNCHANGED <<source, pc, fatVolume, isoVolume, tree>>
<1>1. CASE Open
    BY <1>1 DEF Open
<1>2. CASE LoadCommodore
    BY <1>2 DEF LoadCommodore, LoadD64
<1>3. CASE TryADF
    BY <1>3 DEF TryADF
<1>4. CASE TestFat
    BY <1>4 DEF TestFat
<1>5. CASE TestIso
    BY <1>5 DEF TestIso
<1>6. CASE LoadFat
    BY <1>6, FatStages DEF LoadFat
<1>7. CASE LoadIso
    BY <1>7, IsoStages DEF LoadIso, TypeInv, TypeOK
<1>8. CASE UseMap
    BY <1>8 DEF UseMap, SectorSet, SaveMap
<1>9. CASE Close
    BY <1>9 DEF Close
<1>10. CASE UNCHANGED vars
    BY <1>10 DEF vars
<1> QED
    BY <1>1, <1>2, <1>3, <1>4, <1>5, <1>6, <1>7, <1>8, <1>9, <1>10 DEF Next, OpenStep

\* Every step of the client and of openImage.
LEMMA NextTree ==
    ASSUME TypeInv, NamedInv, TableInv, TreeInv, [Next]_vars
    PROVE  TreeInv'
<1>1. IsoKnown'
    BY NextKnown DEF TreeInv
<1>2. CASE \E path \in Paths : Lookup(path)
    <2>1. PICK path \in Paths : Lookup(path)
        BY <1>2
    <2>2. pc \in {"openFat", "openIso"} /\ UNCHANGED <<source, pc, fatVolume, isoVolume>>
        BY <2>1 DEF Lookup, formats
    <2>3. VolumeKnown
        BY <2>2 DEF VolumeKnown, TableInv, TreeInv, IsoKnown
    <2>4. Loaded(tree')
        BY <2>1, <2>2, <2>3, LookupShows DEF TypeInv, TreeInv
    <2>5. Loaded(tree)'
        BY <2>2, <2>4, LoadedSame
    <2> QED
        BY <1>1, <2>5 DEF TreeInv
<1>3. CASE pc' \notin {"openFat", "openIso"}
    BY <1>1, <1>3 DEF TreeInv
<1>4. CASE pc \notin {"openFat", "openIso"} /\ tree' = tree
    <2>1. DOMAIN tree' = {}
        BY <1>4 DEF TypeInv, TypeOK
    <2>2. Loaded(tree)'
        BY <2>1 DEF Loaded
    <2> QED
        BY <1>1, <2>2 DEF TreeInv
<1>5. CASE UNCHANGED <<source, pc, fatVolume, isoVolume, tree>>
    <2>1. CASE pc \in {"openFat", "openIso"}
        <3>1. PICK t : t = tree'
            OBVIOUS
        <3>2. Loaded(t)
            BY <1>5, <2>1, <3>1 DEF TreeInv
        <3>3. Loaded(tree)'
            BY <1>5, <3>1, <3>2, LoadedSame
        <3> QED
            BY <1>1, <3>3 DEF TreeInv
    <2>2. CASE pc \notin {"openFat", "openIso"}
        BY <1>1, <1>5, <2>2 DEF TreeInv
    <2> QED
        BY <2>1, <2>2
<1> QED
    BY <1>2, <1>3, <1>4, <1>5, TreeStays

\* What was loaded so is what is on the disk.
LEMMA LoadedMatches ==
    ASSUME TypeInv, TableInv, TreeInv
    PROVE  TreeMatchesDisk
<1> SUFFICES ASSUME NEW id \in DOMAIN tree
             PROVE  LET n == Node(tree, id) IN
                    /\ pc = "openFat" =>
                          LET entries == BeforeEnd(EntriesIn(n.at[1], id = <<>>))
                          IN  IsSound(entries) => tree[id] = EntriesOnDisk(entries)
                    /\ pc = "openIso" =>
                          /\ n.at[1] \in DOMAIN source.written =>
                                LET records == source.written[n.at[1]]
                                IN  IsWritten(n.at[1], n.at[2], records) => tree[id] = NodesOfWritten(records)
                          /\ \A i \in DOMAIN tree[id] : IsPresent(tree[id][i].at[1], tree[id][i].at[2])
    BY DEF TreeMatchesDisk
<1>1. PICK n : n = Node(tree, id)
    OBVIOUS
<1>2. CASE pc = "openFat"
    <2>1. tree[id] = ParseEntries(EntriesIn(n.at[1], id = <<>>))
        BY <1>1, <1>2 DEF TreeInv, Loaded, NodesIn
    <2>2. EntriesIn(n.at[1], id = <<>>) \in Seq(Readings)
        BY <1>2, EntriesRead DEF TypeInv, TableInv
    <2>3. PICK entries \in Seq(Readings) : entries = EntriesIn(n.at[1], id = <<>>)
        BY <2>2
    <2>4. IsSound(BeforeEnd(entries)) => ParseEntries(entries) = EntriesOnDisk(BeforeEnd(entries))
        BY SoundIsShown
    <2> QED
        BY <1>1, <1>2, <2>1, <2>3, <2>4
<1>3. CASE pc = "openIso"
    <2>1. tree[id] = NodesIn(tree, id) /\ Sized(tree, id)
        BY <1>3 DEF TreeInv, Loaded
    <2>2. PICK lba \in Nat, size \in Nat : lba = n.at[1] /\ size = n.at[2]
        BY <1>1, <1>3, <2>1 DEF Sized
    <2>3. tree[id] = ParseRecords(lba, size)
        BY <1>1, <1>3, <2>1, <2>2 DEF NodesIn
    <2>4. ASSUME lba \in DOMAIN source.written, IsWritten(lba, size, source.written[lba])
          PROVE  tree[id] = NodesOfWritten(source.written[lba])
        <3>1. source.written[lba] \in Seq(DirectoryRecords)
            BY <2>4 DEF TypeInv, RealImage
        <3> QED
            BY <2>3, <2>4, <3>1, WrittenIsShown DEF TypeInv
    <2>5. VolumeKnown
        BY <1>3 DEF VolumeKnown, TreeInv, IsoKnown
    <2>6. \A i \in DOMAIN tree[id] : IsPresent(tree[id][i].at[1], tree[id][i].at[2])
        BY <1>3, <2>1, <2>5, NodesKnown DEF TypeInv
    <2> QED
        BY <1>1, <1>3, <2>2, <2>4, <2>6
<1>4. CASE pc \notin {"openFat", "openIso"}
    BY <1>4
<1> QED
    BY <1>2, <1>3, <1>4

\* TreeMatchesDisk: every directory that was looked into shows what is on the disk, all
\* of it and in its order, however large and deep the tree and whichever directory was
\* loaded first; and the nodes of an ISO directory are on the volume, whatever it holds
\* (entriesLoad, parseDirectoryExtent, filesystemNode).
THEOREM TreeAsOnDisk ==
    Spec => []TreeMatchesDisk
<1>1. Init => TableInv /\ TreeInv
    BY DEF Init, TableInv, TableIsRead, TreeInv, IsoKnown
<1>2. TypeInv /\ NamedInv /\ [Next]_vars => NamedInv'
    BY NextNamed
<1>3. TypeInv /\ MapInv /\ [Next]_vars => MapInv'
    BY NextMapped
<1>4. TypeInv /\ NamedInv /\ MapInv /\ TableInv /\ [Next]_vars => TableInv'
    BY NextRead
<1>5. TypeInv /\ NamedInv /\ TableInv /\ TreeInv /\ [Next]_vars => TreeInv'
    BY NextTree
<1>6. TypeInv /\ TableInv /\ TreeInv => TreeMatchesDisk
    BY LoadedMatches
<1> QED
    BY <1>1, <1>2, <1>3, <1>4, <1>5, <1>6, InitNamed, InitMapped, InitTypes, NextTypes, PTL DEF Spec
=============================================================================
