------------------------------ MODULE ADF_proof ------------------------------
(***************************************************************************)
(* What holds of every Amiga disk image of cADF, whatever its geometry,    *)
(* files, directories, names and hashes: no block that can be reached is   *)
(* free in the map in memory, nor between two calls in the saved one, no   *)
(* two entries share a block, each entry is where its name and its         *)
(* directory put it, and each file reads back as it was saved              *)
(* (src/source/images/adf.cpp).                                            *)
(*                                                                         *)
(* The client of these theorems is Distinct: it keeps the names of a       *)
(* directory apart, looks into a directory before it adds to it, and       *)
(* renames within a hash.  It may do everything else: leave a file         *)
(* without a content, empty one, fill the disk, create the image anew,     *)
(* load it and remove from it.  Only for the last property it is Filling:  *)
(* a file that is given a content is given one of some bytes.              *)
(*                                                                         *)
(* No property is inductive alone.  A removal follows a chain of the disk  *)
(* by the name of a node in memory and frees what it comes to; so the      *)
(* invariant IInv says what the disk is (Tree: chains that end, entries    *)
(* with blocks of their own), that nothing of it is free (Apart), how the  *)
(* nodes in memory agree with it (Nesting, Holding), and how they do while *)
(* a save or a removal is half done (Settling, Dooming).  The first        *)
(* sections are about sequences, walks along links and the disk alone;     *)
(* then there is one lemma for each action, and the theorems.  Faithful,   *)
(* the second part of the invariant, says what the files on disk read back *)
(* as and what the nodes in memory keep of them; it has its lemmas, one    *)
(* for each action, and its theorem at the end.                            *)
(***************************************************************************)
EXTENDS ADF, Walks_proof, SequenceTheorems, FiniteSetTheorems, TLAPS

\* There are fewer blocks than the number of the last one.
LEMMA BlocksShape ==
    /\ LastBlock \in Nat /\ LastBlock > 1 /\ 0 \notin Blocks
    /\ \A b \in Blocks : b \in Nat /\ b > 1
    /\ IsFiniteSet(Blocks) /\ Cardinality(Blocks) = LastBlock - 1
<1>1. LastBlock \in Nat /\ RootBlock \in Blocks /\ RootBlock + 1 \in Blocks
    BY GeometryAssumption
<1>2. LastBlock > 1 /\ 0 \notin Blocks /\ \A b \in Blocks : b \in Nat /\ b > 1
    BY <1>1 DEF Blocks
<1>3. IsFiniteSet(2 .. LastBlock) /\ Cardinality(2 .. LastBlock) = IF 2 > LastBlock THEN 0 ELSE LastBlock - 2 + 1
    <2>1. 2 \in Int /\ LastBlock \in Int
        BY <1>1
    <2> QED
        BY <2>1, FS_Interval
<1>4. ~(2 > LastBlock)
    BY <1>1, <1>2
<1> QED
    BY <1>1, <1>2, <1>3, <1>4 DEF Blocks

-----------------------------------------------------------------------------
(* Sequences in which nothing comes twice *)

\* A sequence without repetition, that something new extends.
LEMMA InjectiveAppend ==
    ASSUME NEW S, NEW c \in Seq(S), IsInjective(c), NEW s \in S, s \notin Range(c)
    PROVE  /\ Append(c, s) \in Seq(S) /\ IsInjective(Append(c, s))
           /\ Len(Append(c, s)) = Len(c) + 1
           /\ Append(c, s)[Len(c) + 1] = s
           /\ \A j \in 1 .. Len(c) : Append(c, s)[j] = c[j]
           /\ Range(Append(c, s)) = Range(c) \cup {s}
<1> DEFINE d == Append(c, s)
<1>1. c \in Seq(S) /\ Len(c) \in Nat /\ DOMAIN c = 1 .. Len(c)
    OBVIOUS
<1>2. /\ d \in Seq(S) /\ Len(d) = Len(c) + 1 /\ d[Len(c) + 1] = s
      /\ \A j \in 1 .. Len(c) : d[j] = c[j]
    BY <1>1, AppendProperties
<1> HIDE DEF d
<1>3. ASSUME NEW i \in 1 .. Len(c) + 1, NEW j \in 1 .. Len(c) + 1, d[i] = d[j] PROVE i = j
    <2>1. \A k \in 1 .. Len(c) : c[k] # s
        BY <1>1 DEF Range
    <2>2. CASE i \in 1 .. Len(c) /\ j \in 1 .. Len(c)
        BY <1>1, <1>2, <1>3, <2>2 DEF IsInjective
    <2>3. CASE i = Len(c) + 1 /\ j \in 1 .. Len(c)
        BY <1>2, <1>3, <2>1, <2>3
    <2>4. CASE j = Len(c) + 1 /\ i \in 1 .. Len(c)
        BY <1>2, <1>3, <2>1, <2>4
    <2> QED
        BY <1>1, <2>2, <2>3, <2>4
<1>4. DOMAIN d = 1 .. Len(c) + 1
    BY <1>2
<1>5. IsInjective(d)
    BY <1>3, <1>4 DEF IsInjective
<1>6. Range(d) = Range(c) \cup {s}
    <2>1. \A j \in 1 .. Len(c) + 1 : j \in 1 .. Len(c) \/ j = Len(c) + 1
        BY <1>1
    <2>2. \A x \in Range(d) : x \in Range(c) \cup {s}
        BY <1>1, <1>2, <1>4, <2>1 DEF Range
    <2>3. \A x \in Range(c) : x \in Range(d)
        <3>1. \A j \in 1 .. Len(c) : j \in 1 .. Len(c) + 1
            BY <1>1
        <3> QED
            BY <1>1, <1>2, <1>4, <3>1 DEF Range
    <2>4. s \in Range(d)
        <3>1. Len(c) + 1 \in 1 .. Len(c) + 1
            BY <1>1
        <3> QED
            BY <1>2, <1>4, <3>1 DEF Range
    <2> QED
        BY <2>2, <2>3, <2>4
<1> QED
    BY <1>2, <1>5, <1>6 DEF d

\* A sequence without repetition is as long as the number of its elements.
LEMMA InjectiveLength ==
    ASSUME NEW S, IsFiniteSet(S), NEW c \in Seq(S), IsInjective(c)
    PROVE  /\ IsFiniteSet(Range(c)) /\ Cardinality(Range(c)) = Len(c)
           /\ Len(c) <= Cardinality(S) /\ Range(c) \subseteq S
<1>1. c \in Seq(S) /\ Len(c) \in Nat /\ DOMAIN c = 1 .. Len(c)
    OBVIOUS
<1>2. \A j \in 1 .. Len(c) : c[j] \in S
    BY <1>1
<1>3. Range(c) \in SUBSET S
    BY <1>1, <1>2 DEF Range
<1>4. IsFiniteSet(Range(c)) /\ Cardinality(Range(c)) <= Cardinality(S)
    BY <1>3, FS_Subset
<1>5. c \in Injection(1 .. Len(c), Range(c)) /\ c \in Surjection(1 .. Len(c), Range(c))
    <2>1. c \in [1 .. Len(c) -> Range(c)]
        BY <1>1 DEF Range
    <2>2. \A x \in Range(c) : \E j \in 1 .. Len(c) : c[j] = x
        BY <1>1 DEF Range
    <2> QED
        BY <1>1, <2>1, <2>2 DEF Injection, Surjection, IsInjective
<1>6. Cardinality(1 .. Len(c)) = Len(c)
    <2>1. 1 \in Int /\ Len(c) \in Int
        BY <1>1
    <2>2. Cardinality(1 .. Len(c)) = IF 1 > Len(c) THEN 0 ELSE Len(c) - 1 + 1
        BY <2>1, FS_Interval
    <2> QED
        BY <1>1, <2>2
<1>7. Cardinality(1 .. Len(c)) = Cardinality(Range(c))
    BY <1>4, <1>5, FS_Injection
<1> QED
    BY <1>3, <1>4, <1>6, <1>7

\* Sequences of blocks in which none comes twice.
Paths == {c \in Seq(Blocks) : IsInjective(c)}

\* What a path is made of; it is never longer than there are blocks.
LEMMA PathShape ==
    ASSUME NEW c \in Paths
    PROVE  /\ c \in Seq(Blocks) /\ IsInjective(c) /\ Len(c) \in Nat /\ DOMAIN c = 1 .. Len(c)
           /\ Range(c) \subseteq Blocks /\ Len(c) <= LastBlock - 1
           /\ \A j \in 1 .. Len(c) : c[j] \in Blocks /\ c[j] \in Range(c)
           /\ \A x \in Range(c) : \E j \in 1 .. Len(c) : x = c[j]
           /\ c # <<>> <=> Len(c) > 0
           /\ c # <<>> => Last(c) = c[Len(c)] /\ Len(c) \in 1 .. Len(c) /\ Last(c) \in Range(c)
<1>1. c \in Seq(Blocks) /\ IsInjective(c) /\ Len(c) \in Nat /\ DOMAIN c = 1 .. Len(c)
    BY DEF Paths
<1>2. Range(c) \subseteq Blocks /\ Len(c) <= LastBlock - 1
    BY <1>1, BlocksShape, InjectiveLength
<1>3. \A j \in 1 .. Len(c) : c[j] \in Blocks /\ c[j] \in Range(c)
    BY <1>1 DEF Range
<1>4. \A x \in Range(c) : \E j \in 1 .. Len(c) : x = c[j]
    BY <1>1 DEF Range
<1>5. c # <<>> <=> Len(c) > 0
    BY <1>1, EmptySeq
<1>6. c # <<>> => Last(c) = c[Len(c)] /\ Len(c) \in 1 .. Len(c)
    BY <1>1, <1>5 DEF Last
<1> QED
    BY <1>1, <1>2, <1>3, <1>4, <1>5, <1>6

-----------------------------------------------------------------------------
(* Walks along links *)

\* Where a walk goes next, whether it does, and the walk after that step.
Target(start, link, c) == IF c = <<>> THEN start ELSE link[Last(c)]
Goes(start, link, c) == Target(start, link, c) \in DOMAIN link \ Range(c)
WalkStep(start, link, c) == IF Goes(start, link, c) THEN Append(c, Target(start, link, c)) ELSE c

\* Walk takes a step as often as there are blocks, and one step more.
LEMMA WalkSteps ==
    ASSUME NEW start, NEW link, DOMAIN link \subseteq Blocks
    PROVE  \E g : /\ g \in [0 .. LastBlock -> Paths] /\ g[0] = <<>>
                  /\ \A i \in 1 .. LastBlock : g[i] = WalkStep(start, link, g[i - 1])
                  /\ Walk(start, link) = g[LastBlock]
<1> DEFINE Eq(h) == h = [n \in 0 .. LastBlock |-> IF n = 0 THEN <<>> ELSE WalkStep(start, link, h[n - 1])]
           g == CHOOSE h : Eq(h)
           F == [c \in Paths |-> WalkStep(start, link, c)]
<1>0. LastBlock \in Nat /\ LastBlock \in 0 .. LastBlock
    BY BlocksShape
<1>1. <<>> \in Paths
    BY DEF Paths, IsInjective
<1>2. F \in [Paths -> Paths]
    <2>1. ASSUME NEW c \in Paths, Goes(start, link, c) PROVE Append(c, Target(start, link, c)) \in Paths
        <3>1. Target(start, link, c) \in Blocks /\ Target(start, link, c) \notin Range(c)
            BY <2>1 DEF Goes
        <3>2. c \in Seq(Blocks) /\ IsInjective(c)
            BY DEF Paths
        <3> QED
            BY <3>1, <3>2, InjectiveAppend DEF Paths
    <2> QED
        BY <2>1 DEF WalkStep
<1>3. \E h : Eq(h)
    <2>1. PICK h : Visits(h, F, <<>>, LastBlock, Paths)
        <3> HIDE DEF F
        <3> QED
            BY <1>0, <1>1, <1>2, Iterates, Zenon
    <2>2. \A i \in 1 .. LastBlock : h[i] = WalkStep(start, link, h[i - 1])
        <3> SUFFICES ASSUME NEW i \in 1 .. LastBlock PROVE h[i] = WalkStep(start, link, h[i - 1])
            OBVIOUS
        <3>1. i - 1 \in 0 .. LastBlock
            BY <1>0
        <3> QED
            BY <2>1, <3>1 DEF Visits
    <2>3. \A i \in 0 .. LastBlock : h[i] = IF i = 0 THEN <<>> ELSE WalkStep(start, link, h[i - 1])
        BY <1>0, <2>1, <2>2 DEF Visits
    <2>4. Eq(h)
        BY <2>1, <2>3 DEF Visits
    <2> QED
        BY <2>4
<1>4. Eq(g)
    BY <1>3
<1>5. Walk(start, link) = g[LastBlock]
    BY DEF Walk, WalkStep, Goes, Target
<1> HIDE DEF g
<1>6. g[0] = <<>> /\ \A i \in 1 .. LastBlock : g[i] = WalkStep(start, link, g[i - 1])
    BY <1>0, <1>4
<1>7. \A i \in 0 .. LastBlock : g[i] \in Paths
    <2>1. \A i \in 1 .. LastBlock : g[i - 1] \in Paths => g[i] \in Paths
        BY <1>2, <1>6
    <2> QED
        BY <1>0, <1>1, <1>6, <2>1, IteratesIn
<1>8. g \in [0 .. LastBlock -> Paths]
    BY <1>4, <1>7
<1> QED
    BY <1>5, <1>6, <1>8

\* A path that begins at start and goes along links.
Follows(c, start, link) ==
    /\ c \in Paths /\ Range(c) \subseteq DOMAIN link
    /\ c # <<>> => c[1] = start
    /\ \A j \in 1 .. Len(c) - 1 : link[c[j]] = c[j + 1]

\* A path that goes on by one step of Walk is a path along the links still.
LEMMA FollowOn ==
    ASSUME NEW start, NEW link, NEW c, DOMAIN link \subseteq Blocks,
           Follows(c, start, link), Goes(start, link, c)
    PROVE  /\ Follows(Append(c, Target(start, link, c)), start, link)
           /\ Len(Append(c, Target(start, link, c))) = Len(c) + 1
<1> DEFINE s == Target(start, link, c)
           d == Append(c, s)
<1>1. /\ c \in Paths /\ c \in Seq(Blocks) /\ IsInjective(c) /\ Len(c) \in Nat
      /\ s \in Blocks /\ s \in DOMAIN link /\ s \notin Range(c)
    BY PathShape DEF Follows, Goes
<1>2. c # <<>> <=> Len(c) > 0
    BY <1>1, PathShape
<1>3. c # <<>> => s = link[c[Len(c)]]
    BY <1>1, PathShape DEF Target
<1>4. c = <<>> => s = start
    BY DEF Target
<1> HIDE DEF s
<1>5. /\ d \in Seq(Blocks) /\ IsInjective(d) /\ Len(d) = Len(c) + 1 /\ d[Len(c) + 1] = s
      /\ \A j \in 1 .. Len(c) : d[j] = c[j]
      /\ Range(d) = Range(c) \cup {s}
    BY <1>1, InjectiveAppend
<1> HIDE DEF d
<1>6. d \in Paths /\ Range(d) \subseteq DOMAIN link
    BY <1>1, <1>5 DEF Paths, Follows
<1>7. d[1] = start
    <2>1. CASE c = <<>>
        BY <1>2, <1>4, <1>5, <1>1, <2>1
    <2>2. CASE c # <<>>
        <3>1. 1 \in 1 .. Len(c)
            BY <1>1, <1>2, <2>2
        <3> QED
            BY <1>5, <2>2, <3>1 DEF Follows
    <2> QED
        BY <2>1, <2>2
<1>8. ASSUME NEW j \in 1 .. Len(c) PROVE link[d[j]] = d[j + 1]
    <2>1. CASE j = Len(c)
        BY <1>1, <1>2, <1>3, <1>5, <2>1
    <2>2. CASE j # Len(c)
        <3>1. j \in 1 .. Len(c) - 1 /\ j + 1 \in 1 .. Len(c)
            BY <1>1, <2>2
        <3> QED
            BY <1>5, <3>1 DEF Follows
    <2> QED
        BY <2>1, <2>2
<1>9. Len(d) - 1 = Len(c)
    BY <1>1, <1>5
<1> QED
    BY <1>5, <1>6, <1>7, <1>8, <1>9 DEF Follows, d, s

\* A walk goes along links and stops where there is no link to follow to a new block.
LEMMA WalkFollows ==
    ASSUME NEW start, NEW link, DOMAIN link \subseteq Blocks
    PROVE  Follows(Walk(start, link), start, link) /\ ~Goes(start, link, Walk(start, link))
<1>0. LastBlock \in Nat /\ LastBlock \in 0 .. LastBlock
    BY BlocksShape
<1>1. PICK g : /\ g \in [0 .. LastBlock -> Paths] /\ g[0] = <<>>
               /\ \A i \in 1 .. LastBlock : g[i] = WalkStep(start, link, g[i - 1])
               /\ Walk(start, link) = g[LastBlock]
    BY WalkSteps
<1> DEFINE Good(i) == /\ Follows(g[i], start, link)
                      /\ Len(g[i]) = i \/ ~Goes(start, link, g[i])
           S == {i \in 0 .. LastBlock : Good(i)}
<1>2. 0 \in S
    <2>1. Follows(<<>>, start, link) /\ Len(<<>>) = 0
        BY DEF Follows, Paths, IsInjective, Range
    <2> QED
        BY <1>0, <1>1, <2>1
<1>3. ASSUME NEW i \in 1 .. LastBlock, i - 1 \in S PROVE i \in S
    <2>1. g[i] = WalkStep(start, link, g[i - 1]) /\ Good(i - 1)
        BY <1>1, <1>3
    <2>2. CASE Goes(start, link, g[i - 1])
        <3>1. g[i] = Append(g[i - 1], Target(start, link, g[i - 1]))
            BY <2>1, <2>2 DEF WalkStep
        <3>2. Follows(g[i], start, link) /\ Len(g[i]) = Len(g[i - 1]) + 1
            BY <2>1, <2>2, <3>1, FollowOn
        <3>3. Len(g[i - 1]) = i - 1
            BY <2>1, <2>2
        <3>4. Good(i)
            BY <3>2, <3>3
        <3> QED
            BY <3>4
    <2>3. CASE ~Goes(start, link, g[i - 1])
        <3>1. g[i] = g[i - 1]
            BY <2>1, <2>3 DEF WalkStep
        <3>2. Good(i)
            BY <2>1, <2>3, <3>1
        <3> QED
            BY <3>2
    <2> QED
        BY <2>2, <2>3
<1> HIDE DEF S
<1>4. \A i \in 0 .. LastBlock : i \in S
    BY <1>0, <1>2, <1>3, Induct
<1>5. Good(LastBlock)
    BY <1>0, <1>4 DEF S
<1>6. Len(g[LastBlock]) # LastBlock
    <2>1. g[LastBlock] \in Paths
        BY <1>0, <1>1
    <2> QED
        BY <1>0, <2>1, PathShape
<1> QED
    BY <1>1, <1>5, <1>6

\* Two paths along the same links agree as far as both go.
LEMMA FollowsAgree ==
    ASSUME NEW start, NEW link, NEW c, NEW d, Follows(c, start, link), Follows(d, start, link)
    PROVE  \A j \in 1 .. Len(c) : j <= Len(d) => c[j] = d[j]
<1>0. c \in Paths /\ d \in Paths /\ Len(c) \in Nat /\ Len(d) \in Nat
    BY PathShape DEF Follows
<1> DEFINE S == {j \in 0 .. Len(c) : j > 0 /\ j <= Len(d) => c[j] = d[j]}
<1>1. 0 \in S
    BY <1>0
<1>2. ASSUME NEW j \in 1 .. Len(c), j - 1 \in S PROVE j \in S
    <2> SUFFICES ASSUME j <= Len(d) PROVE c[j] = d[j]
        OBVIOUS
    <2>1. CASE j = 1
        <3>1. c # <<>> /\ d # <<>>
            BY <1>0, <2>1, EmptySeq
        <3> QED
            BY <2>1, <3>1 DEF Follows
    <2>2. CASE j # 1
        <3>1. j - 1 \in 1 .. Len(c) - 1 /\ j - 1 \in 1 .. Len(d) - 1 /\ j - 1 + 1 = j
            BY <1>0, <2>2
        <3>2. c[j - 1] = d[j - 1]
            BY <1>0, <1>2, <3>1
        <3>3. link[c[j - 1]] = c[j] /\ link[d[j - 1]] = d[j]
            BY <3>1 DEF Follows
        <3> QED
            BY <3>2, <3>3
    <2> QED
        BY <2>1, <2>2
<1> HIDE DEF S
<1>3. \A j \in 0 .. Len(c) : j \in S
    BY <1>0, <1>1, <1>2, Induct
<1> SUFFICES ASSUME NEW j \in 1 .. Len(c), j <= Len(d) PROVE c[j] = d[j]
    OBVIOUS
<1>4. j \in S
    BY <1>0, <1>3
<1> QED
    BY <1>0, <1>4 DEF S

\* A path that stops is no shorter than another one.
LEMMA FollowsFar ==
    ASSUME NEW start, NEW link, NEW c, NEW d, Follows(c, start, link), Follows(d, start, link),
           ~Goes(start, link, c)
    PROVE  Len(d) <= Len(c)
<1>0. c \in Paths /\ d \in Paths /\ Len(c) \in Nat /\ Len(d) \in Nat
    BY PathShape DEF Follows
<1> SUFFICES ASSUME Len(c) < Len(d) PROVE FALSE
    BY <1>0
<1>1. \A j \in 1 .. Len(c) : c[j] = d[j]
    BY <1>0, FollowsAgree
<1>2. Len(c) + 1 \in 1 .. Len(d) /\ d[Len(c) + 1] \in Range(d)
    BY <1>0, PathShape
<1>3. Target(start, link, c) = d[Len(c) + 1]
    <2>1. CASE c = <<>>
        <3>1. Len(c) = 0 /\ d # <<>>
            BY <1>0, <2>1, PathShape
        <3> QED
            BY <2>1, <3>1 DEF Follows, Target
    <2>2. CASE c # <<>>
        <3>1. Len(c) \in 1 .. Len(c) /\ Last(c) = c[Len(c)] /\ Len(c) \in 1 .. Len(d) - 1
            BY <1>0, <2>2, PathShape
        <3>2. link[d[Len(c)]] = d[Len(c) + 1] /\ d[Len(c)] = c[Len(c)]
            BY <1>1, <3>1 DEF Follows
        <3> QED
            BY <2>2, <3>1, <3>2 DEF Target
    <2> QED
        BY <2>1, <2>2
<1>4. d[Len(c) + 1] \notin Range(c)
    <2> SUFFICES ASSUME d[Len(c) + 1] \in Range(c) PROVE FALSE
        OBVIOUS
    <2>1. PICK j \in 1 .. Len(c) : d[Len(c) + 1] = c[j]
        BY <1>0, PathShape
    <2>2. j \in 1 .. Len(d) /\ j # Len(c) + 1 /\ d[j] = d[Len(c) + 1]
        BY <1>0, <1>1, <2>1
    <2>3. IsInjective(d) /\ DOMAIN d = 1 .. Len(d)
        BY <1>0, PathShape
    <2> QED
        BY <1>2, <2>2, <2>3 DEF IsInjective
<1> QED
    BY <1>2, <1>3, <1>4 DEF Goes, Follows

\* A path along links that stops is the walk.
LEMMA WalkFound ==
    ASSUME NEW start, NEW link, DOMAIN link \subseteq Blocks,
           NEW c, Follows(c, start, link), ~Goes(start, link, c)
    PROVE  Walk(start, link) = c
<1> DEFINE w == Walk(start, link)
<1>1. Follows(w, start, link) /\ ~Goes(start, link, w)
    BY WalkFollows
<1> HIDE DEF w
<1>2. c \in Seq(Blocks) /\ w \in Seq(Blocks) /\ Len(c) \in Nat /\ Len(w) \in Nat
    BY <1>1, PathShape DEF Follows
<1>3. Len(c) = Len(w)
    <2>1. Len(c) <= Len(w) /\ Len(w) <= Len(c)
        BY <1>1, FollowsFar
    <2> QED
        BY <1>2, <2>1
<1>4. \A j \in 1 .. Len(w) : w[j] = c[j]
    BY <1>1, <1>2, <1>3, FollowsAgree
<1>5. w = c
    BY <1>2, <1>3, <1>4, SeqEqual
<1> QED
    BY <1>5 DEF w

-----------------------------------------------------------------------------
(* Sequences put together *)

\* Two sequences, one after the other: the elements of both, and none twice when
\* they share none.
LEMMA ConcatShape ==
    ASSUME NEW S, NEW c \in Seq(S), NEW d \in Seq(S)
    PROVE  /\ c \o d \in Seq(S) /\ Range(c \o d) = Range(c) \cup Range(d)
           /\ IsInjective(c) /\ IsInjective(d) /\ Range(c) \cap Range(d) = {} => IsInjective(c \o d)
<1>1. /\ Len(c) \in Nat /\ Len(d) \in Nat /\ DOMAIN c = 1 .. Len(c) /\ DOMAIN d = 1 .. Len(d)
    OBVIOUS
<1> DEFINE e == c \o d
<1>2. /\ e \in Seq(S) /\ Len(e) = Len(c) + Len(d)
      /\ \A i \in 1 .. Len(c) + Len(d) : e[i] = IF i <= Len(c) THEN c[i] ELSE d[i - Len(c)]
    BY ConcatProperties
<1>3. DOMAIN e = 1 .. Len(c) + Len(d)
    BY <1>2
<1> HIDE DEF e
<1>4. \A i \in 1 .. Len(c) : i \in 1 .. Len(c) + Len(d) /\ e[i] = c[i]
    BY <1>1, <1>2
<1>5. \A i \in 1 .. Len(d) : i + Len(c) \in 1 .. Len(c) + Len(d) /\ e[i + Len(c)] = d[i]
    <2> SUFFICES ASSUME NEW i \in 1 .. Len(d)
                 PROVE i + Len(c) \in 1 .. Len(c) + Len(d) /\ e[i + Len(c)] = d[i]
        OBVIOUS
    <2>1. i + Len(c) \in 1 .. Len(c) + Len(d) /\ ~(i + Len(c) <= Len(c)) /\ i + Len(c) - Len(c) = i
        BY <1>1
    <2> QED
        BY <1>2, <2>1
<1>6. \A i \in 1 .. Len(c) + Len(d) :
          (i \in 1 .. Len(c) /\ e[i] = c[i]) \/ (i - Len(c) \in 1 .. Len(d) /\ e[i] = d[i - Len(c)])
    BY <1>1, <1>2
<1>7. Range(e) = Range(c) \cup Range(d)
    <2>1. \A x \in Range(e) : x \in Range(c) \cup Range(d)
        BY <1>1, <1>3, <1>6 DEF Range
    <2>2. \A x \in Range(c) : x \in Range(e)
        BY <1>1, <1>3, <1>4 DEF Range
    <2>3. \A x \in Range(d) : x \in Range(e)
        BY <1>1, <1>3, <1>5 DEF Range
    <2> QED
        BY <2>1, <2>2, <2>3
<1>8. ASSUME IsInjective(c), IsInjective(d), Range(c) \cap Range(d) = {} PROVE IsInjective(e)
    <2>1. ASSUME NEW i \in 1 .. Len(c) + Len(d), NEW j \in 1 .. Len(c) + Len(d), e[i] = e[j] PROVE i = j
        <3>1. \A a \in 1 .. Len(c), b \in 1 .. Len(d) : c[a] # d[b]
            BY <1>1, <1>8 DEF Range
        <3>2. CASE i \in 1 .. Len(c) /\ j \in 1 .. Len(c)
            BY <1>1, <1>4, <1>8, <2>1, <3>2 DEF IsInjective
        <3>3. CASE i - Len(c) \in 1 .. Len(d) /\ j - Len(c) \in 1 .. Len(d)
            <4>1. d[i - Len(c)] = d[j - Len(c)]
                BY <1>1, <1>2, <2>1, <3>3
            <4>2. i - Len(c) = j - Len(c)
                BY <1>1, <1>8, <3>3, <4>1 DEF IsInjective
            <4> QED
                BY <1>1, <4>2
        <3>4. CASE i \in 1 .. Len(c) /\ j - Len(c) \in 1 .. Len(d)
            BY <1>1, <1>2, <2>1, <3>1, <3>4
        <3>5. CASE j \in 1 .. Len(c) /\ i - Len(c) \in 1 .. Len(d)
            BY <1>1, <1>2, <2>1, <3>1, <3>5
        <3> QED
            BY <1>6, <3>2, <3>3, <3>4, <3>5
    <2> QED
        BY <1>3, <2>1 DEF IsInjective
<1> QED
    BY <1>2, <1>7, <1>8 DEF e

\* FlattenSeq has the elements of its sequences, and none twice when no two of them
\* share any.
LEMMA FlatShape ==
    ASSUME NEW S, NEW ss \in Seq(Seq(S))
    PROVE  /\ FlattenSeq(ss) \in Seq(S)
           /\ Range(FlattenSeq(ss)) = UNION {Range(ss[i]) : i \in 1 .. Len(ss)}
           /\ (/\ \A i \in 1 .. Len(ss) : IsInjective(ss[i])
               /\ \A i, j \in 1 .. Len(ss) : i # j => Range(ss[i]) \cap Range(ss[j]) = {})
              => IsInjective(FlattenSeq(ss))
<1>1. CASE ss = <<>>
    <2>1. FlattenSeq(ss) = <<>> /\ Len(ss) = 0
        BY <1>1, EmptySeq DEF FlattenSeq
    <2>2. Range(<<>>) = {} /\ IsInjective(<<>>)
        BY DEF Range, IsInjective
    <2>3. UNION {Range(ss[i]) : i \in 1 .. Len(ss)} = {}
        BY <2>1
    <2> QED
        BY <2>1, <2>2, <2>3
<1>2. CASE ss # <<>>
    <2> DEFINE n == Len(ss)
               Parts(k) == UNION {Range(ss[i]) : i \in 1 .. k}
               Apart == /\ \A i \in 1 .. n : IsInjective(ss[i])
                        /\ \A i, j \in 1 .. n : i # j => Range(ss[i]) \cap Range(ss[j]) = {}
    <2>1. n \in Nat /\ n > 0 /\ n - 1 \in Nat
        BY <1>2, EmptySeq
    <2>2. \A i \in 1 .. n : ss[i] \in Seq(S)
        OBVIOUS
    <2>3. PICK g : /\ g \in [1 .. n -> Seq(S)] /\ g[1] = ss[1]
                   /\ \A i \in 2 .. n : g[i] = g[i - 1] \o ss[i]
                   /\ FlattenSeq(ss) = g[n]
        BY <1>2, FlatSteps
    <2> HIDE DEF n
    <2> DEFINE T == {k \in 0 .. n - 1 : Range(g[k + 1]) = Parts(k + 1) /\ (Apart => IsInjective(g[k + 1]))}
    <2>4. 0 \in T
        <3>1. Parts(1) = Range(ss[1])
            <4>1. \A i \in 1 .. 1 : i = 1
                OBVIOUS
            <4> QED
                BY <4>1
        <3>2. Apart => IsInjective(ss[1])
            BY <2>1
        <3>3. 0 + 1 = 1 /\ 0 \in 0 .. n - 1
            BY <2>1
        <3> HIDE DEF Apart, Parts
        <3> QED
            BY <2>3, <3>1, <3>2, <3>3
    <2>5. ASSUME NEW k \in 1 .. n - 1, k - 1 \in T PROVE k \in T
        <3>1. k + 1 \in 2 .. n /\ k + 1 - 1 = k /\ k - 1 + 1 = k /\ k + 1 \in 1 .. n /\ k \in 0 .. n - 1 /\ k \in 1 .. n
            BY <2>1
        <3>2. g[k + 1] = g[k] \o ss[k + 1] /\ g[k] \in Seq(S) /\ ss[k + 1] \in Seq(S)
            <4>1. g[k] \in Seq(S)
                BY <2>3, <3>1
            <4>2. ss[k + 1] \in Seq(S)
                BY <2>2, <3>1
            <4>3. PICK i : i = k + 1
                OBVIOUS
            <4>4. i \in 2 .. n /\ i - 1 = k
                BY <3>1, <4>3
            <4>5. g[i] = g[i - 1] \o ss[i]
                BY <2>3, <4>4
            <4>6. g[k + 1] = g[k] \o ss[k + 1]
                BY <4>3, <4>4, <4>5
            <4> QED
                BY <4>1, <4>2, <4>6
        <3>3. Range(g[k]) = Parts(k) /\ (Apart => IsInjective(g[k]))
            BY <2>5, <3>1
        <3>4. Parts(k + 1) = Parts(k) \cup Range(ss[k + 1])
            <4>1. \A i \in 1 .. k + 1 : i \in 1 .. k \/ i = k + 1
                BY <3>1
            <4>2. \A i \in 1 .. k : i \in 1 .. k + 1
                BY <3>1
            <4>3. k + 1 \in 1 .. k + 1
                BY <3>1
            <4> QED
                BY <4>1, <4>2, <4>3
        <3>5. Apart => IsInjective(ss[k + 1]) /\ Parts(k) \cap Range(ss[k + 1]) = {}
            <4>1. \A i \in 1 .. k : i \in 1 .. n /\ i # k + 1
                BY <2>1, <3>1
            <4> QED
                BY <3>1, <4>1
        <3> HIDE DEF Apart, Parts
        <3>6. Range(g[k + 1]) = Range(g[k]) \cup Range(ss[k + 1])
            BY <3>2, ConcatShape
        <3>7. Apart => IsInjective(g[k + 1])
            BY <3>2, <3>3, <3>5, ConcatShape
        <3> QED
            BY <3>1, <3>3, <3>4, <3>6, <3>7
    <2> HIDE DEF T
    <2>6. \A i \in 0 .. n - 1 : i \in T
        BY <2>1, <2>4, <2>5, Induct
    <2>7. n - 1 \in T /\ n - 1 + 1 = n /\ n \in 1 .. n
        BY <2>1, <2>6
    <2> HIDE DEF Apart, Parts
    <2>8. Range(g[n]) = Parts(n) /\ (Apart => IsInjective(g[n])) /\ g[n] \in Seq(S)
        BY <2>3, <2>7 DEF T
    <2>9. Range(FlattenSeq(ss)) = Parts(n) /\ (Apart => IsInjective(FlattenSeq(ss)))
          /\ FlattenSeq(ss) \in Seq(S)
        BY <2>3, <2>8
    <2> QED
        BY <2>9 DEF Apart, Parts, n
<1> QED
    BY <1>1, <1>2

-----------------------------------------------------------------------------
(* What is on a disk *)

\* What can be in a block.
Tables == [Slots -> Pointers]
RootType == [kind : {"root"}, table : Tables]
ExtType == [kind : {"ext"}, table : Tables, ext : Pointers]
DataType == [kind : {"data"}, piece : Files \X Nat \X Nat]
EntryType == [kind : EntryKinds, id : Ids, name : Names, table : Tables, next : Pointers,
              parent : Pointers, ext : Pointers, size : Nat]
BlockType == [kind : {"blank"}] \cup RootType \cup ExtType \cup DataType \cup EntryType
Disks == [Blocks -> BlockType]

\* The links of a disk, and the paths along them.
Ent(dk) == {b \in Blocks : dk[b].kind \in EntryKinds}
NextOf(dk) == [b \in Ent(dk) |-> dk[b].next]
ExtOf(dk) == [b \in {b \in Blocks : dk[b].kind = "ext"} |-> dk[b].ext]
ChainOn(dk, d, h) == Walk(dk[d].table[h], NextOf(dk))
ExtOn(dk, b) == Walk(dk[b].ext, ExtOf(dk))

\* The entries of a directory, the directories, and all entries.
In(dk, d) == UNION {Range(ChainOn(dk, d, h)) : h \in Slots}
DirsOn(dk) == {RootBlock} \cup {b \in In(dk, RootBlock) : dk[b].kind = "dir"}
AllOn(dk) == UNION {In(dk, d) : d \in DirsOn(dk)}

\* The blocks in a table, and the blocks of an entry.
Held(table) == {table[i] : i \in Slots} \ {0}
OwnOn(dk, b) ==
    IF dk[b].kind = "dir" THEN {b}
    ELSE {b} \cup Held(dk[b].table) \cup Range(ExtOn(dk, b))
             \cup UNION {Held(dk[e].table) : e \in Range(ExtOn(dk, b))}

\* A path along all the links there are.
Proper(c, start, link) ==
    Follows(c, start, link) /\ IF c = <<>> THEN start = 0 ELSE link[Last(c)] = 0

\* The chain of a slot ends, and each of its entries belongs there.
ChainFits(dk, d, h) ==
    /\ Proper(ChainOn(dk, d, h), dk[d].table[h], NextOf(dk))
    /\ \A b \in Range(ChainOn(dk, d, h)) : dk[b].parent = d /\ HashOf[dk[b].name] = h

\* A header fits its object; directories are in the root; the extensions of a file end.
EntryFits(dk, b) ==
    /\ dk[b].kind = IF dk[b].id \in Files THEN "file" ELSE "dir"
    /\ dk[b].kind = "dir" => dk[b].parent = RootBlock
    /\ dk[b].kind = "file" => Proper(ExtOn(dk, b), dk[b].ext, ExtOf(dk))

\* The tree of a disk: names are apart within a directory, objects and blocks on the disk.
Tree(dk) ==
    /\ dk[RootBlock].kind = "root" /\ dk[RootBlock + 1].kind = "blank"
    /\ \A d \in DirsOn(dk), h \in Slots : ChainFits(dk, d, h)
    /\ \A b \in AllOn(dk) : EntryFits(dk, b)
    /\ \A d \in DirsOn(dk) : \A b, c \in In(dk, d) : dk[b].name = dk[c].name => b = c
    /\ \A b, c \in AllOn(dk) : dk[b].id = dk[c].id => b = c
    /\ \A b, c \in AllOn(dk) : b # c => OwnOn(dk, b) \cap OwnOn(dk, c) = {}

\* Nothing of the tree is free.
Apart(dk, fr) ==
    /\ fr \cap System = {}
    /\ \A b \in AllOn(dk) : OwnOn(dk, b) \cap (fr \cup System) = {}

-----------------------------------------------------------------------------
(* The nodes *)

\* What a node can be.
NodeType == [name : Names \cup {0}, dirty : BOOLEAN, block : Pointers, content : Content,
             bare : BOOLEAN, given : Content \cup {Gone}]

\* A removal of a directory leaves the nodes that are removed already in it.
Ghosts == IF doomed # <<>> /\ Last(doomed) \in Dirs
          THEN Range(nodes[Last(doomed)]) \ Range(doomed) ELSE {}
Alive(d) == Range(nodes[d]) \ Ghosts

\* On disk as it is in memory.
Settled(x) ==
    /\ node[x].block # 0 /\ disk[node[x].block].name = node[x].name
    /\ x \in Files => ~node[x].dirty

\* The shapes.
Shapes ==
    /\ free \subseteq Blocks /\ diskFree \subseteq Blocks
    /\ disk \in Disks
    /\ node \in [Ids -> NodeType]
    /\ nodes \in [Directories -> Seq(Ids)] /\ \A d \in Directories : IsInjective(nodes[d])
    /\ loaded \in [Directories -> BOOLEAN]
    /\ version \in [Ids -> Nat] /\ stored \in [Files -> Content \cup {Gone}]
    /\ pc \in {"idle", "save", "remove", "thrown", "crashed"}
    /\ todo \in Seq(Directories \X Ids) /\ doomed \in Seq(Ids)

\* Directories are in the root only, and no node is in two of them.
Nesting ==
    /\ \A d \in Dirs : Range(nodes[d]) \subseteq Files
    /\ \A d, e \in Directories : d # e => Range(nodes[d]) \cap Range(nodes[e]) = {}
    /\ \A d \in Dirs : d \notin Range(nodes[Root]) => ~loaded[d]
    /\ \A d \in Directories : ~loaded[d] => nodes[d] = <<>>
    /\ \A d \in Open : loaded[d] => BlockOf(d) # 0

\* A node has the name and the block of its entry.
NodeFits(d, x) ==
    /\ node[x].name \in Names
    /\ node[x].block = 0 => \A b \in AllOn(disk) : disk[b].id # x
    /\ node[x].block # 0 =>
          /\ node[x].block \in In(disk, BlockOf(d)) /\ disk[node[x].block].id = x
          /\ HashOf[disk[node[x].block].name] = HashOf[node[x].name]
    /\ ~node[x].dirty => Settled(x)

\* Nodes agree with the disk, and a directory looked into has nodes for all its entries.
Holding ==
    /\ \A d \in Open : \A x \in Alive(d) : NodeFits(d, x)
    /\ \A d \in Open : \A x, y \in Alive(d) : node[x].name = node[y].name => x = y
    /\ \A d \in Open : loaded[d] \/ d \in Range(doomed) =>
          \A b \in In(disk, BlockOf(d)) :
              /\ disk[b].id \in Alive(d) \cup Range(doomed)
              /\ node[disk[b].id].block = b

\* A removal under way.
Dooming ==
    /\ IsInjective(doomed)
    /\ \A g \in Ghosts : ~node[g].dirty
    /\ doomed # <<>> =>
        \/ /\ Last(doomed) \in Dirs /\ Last(doomed) \in Range(nodes[Root])
           /\ \A j \in 1 .. Len(doomed) - 1 : doomed[j] \in Range(nodes[Last(doomed)])
        \/ /\ pc = "remove" /\ Len(doomed) = 1 /\ doomed[1] \in Files /\ doomed[1] \notin InTree
           /\ \E d \in Open : BlockOf(d) # 0 /\ NodeFits(d, doomed[1]) /\ Settled(doomed[1])

\* At most one node is not on disk as it is in memory, and only while a save is coming to it.
Coming(d, x) == <<d, x>> \in Range(todo) \/ <<Root, d>> \in Range(todo)
Settling ==
    /\ pc # "save" => todo = <<>>
    /\ pc = "idle" => doomed = <<>> /\ diskFree = free
    /\ \A p \in Range(todo) : p[1] \in Open /\ p[2] \in Range(nodes[p[1]])
    /\ \A d \in Open : \A x \in Alive(d) : ~Settled(x) => doomed = <<>> /\ Coming(d, x)
    /\ \A d, e \in Open : \A x \in Alive(d), y \in Alive(e) : ~Settled(x) /\ ~Settled(y) => x = y

\* After an exception or a crash nothing more is done with the image.
Live == pc \notin {"thrown", "crashed"}
IInv ==
    /\ Shapes
    /\ pc = "thrown" => free = {}
    /\ Live => /\ Tree(disk) /\ Apart(disk, free)
               /\ Nesting /\ Holding /\ Dooming /\ Settling

-----------------------------------------------------------------------------
(* Blocks *)

\* The kind of a block, which cADF reads from its types, says what fields it has.
LEMMA KindShape ==
    ASSUME NEW r \in BlockType
    PROVE  /\ r.kind \in {"blank", "root", "dir", "file", "ext", "data"}
           /\ r.kind \in EntryKinds => r \in EntryType
           /\ r.kind = "root" => r \in RootType
           /\ r.kind = "ext" => r \in ExtType
    BY DEF BlockType, EntryType, RootType, ExtType, DataType, EntryKinds

\* What is in the blocks of a disk, and how hash links and extension links go.
LEMMA DiskShape ==
    ASSUME NEW dk \in Disks
    PROVE  /\ \A b \in Blocks : dk[b] \in BlockType
           /\ Ent(dk) \subseteq Blocks /\ DOMAIN NextOf(dk) = Ent(dk)
           /\ \A b \in Ent(dk) : NextOf(dk)[b] = dk[b].next /\ dk[b] \in EntryType /\ b # 0
           /\ DOMAIN ExtOf(dk) = {b \in Blocks : dk[b].kind = "ext"}
           /\ \A b \in Blocks : dk[b].kind = "ext" => ExtOf(dk)[b] = dk[b].ext /\ dk[b] \in ExtType
<1>1. \A b \in Blocks : dk[b] \in BlockType
    BY DEF Disks
<1>2. 0 \notin Blocks
    BY BlocksShape
<1>3. \A b \in Ent(dk) : dk[b] \in EntryType /\ b # 0
    BY <1>1, <1>2, KindShape DEF Ent
<1>4. \A b \in Blocks : dk[b].kind = "ext" => dk[b] \in ExtType
    BY <1>1, KindShape
<1> QED
    BY <1>1, <1>3, <1>4 DEF Ent, NextOf, ExtOf

-----------------------------------------------------------------------------
(* Paths along all the links there are *)

\* A path that ends with the link 0 is what Walk finds: the loops over hash links
\* and over extensions in adf.cpp see all of it and nothing else.
LEMMA ProperIs ==
    ASSUME NEW start, NEW link, NEW c, DOMAIN link \subseteq Blocks, Proper(c, start, link)
    PROVE  Walk(start, link) = c /\ c \in Paths /\ Range(c) \subseteq DOMAIN link
<1>1. Follows(c, start, link) /\ c \in Paths /\ Range(c) \subseteq DOMAIN link
    BY DEF Proper, Follows
<1>2. Target(start, link, c) = 0
    BY DEF Proper, Target
<1>3. ~Goes(start, link, c)
    BY <1>2, BlocksShape DEF Goes
<1> QED
    BY <1>1, <1>3, WalkFound

\* A path stays what it is while the links of its own blocks stay.
LEMMA ProperSame ==
    ASSUME NEW start, NEW link, NEW c, Proper(c, start, link), NEW link2,
           Range(c) \subseteq DOMAIN link2, \A b \in Range(c) : link2[b] = link[b]
    PROVE  Proper(c, start, link2)
<1>1. /\ c \in Paths /\ (c # <<>> => c[1] = start)
      /\ \A j \in 1 .. Len(c) - 1 : link[c[j]] = c[j + 1]
      /\ IF c = <<>> THEN start = 0 ELSE link[Last(c)] = 0
    BY DEF Proper, Follows
<1>2. Len(c) \in Nat /\ \A j \in 1 .. Len(c) : c[j] \in Range(c)
    BY <1>1, PathShape
<1>3. \A j \in 1 .. Len(c) - 1 : c[j] \in Range(c)
    BY <1>2
<1>4. \A j \in 1 .. Len(c) - 1 : link2[c[j]] = c[j + 1]
    BY <1>1, <1>3
<1>5. c # <<>> => Last(c) \in Range(c)
    BY <1>1, PathShape
<1>6. IF c = <<>> THEN start = 0 ELSE link2[Last(c)] = 0
    BY <1>1, <1>5
<1> QED
    BY <1>1, <1>4, <1>6 DEF Proper, Follows

\* A block is put to the end of a path.
LEMMA ProperAppend ==
    ASSUME NEW start, NEW link, NEW c, Proper(c, start, link), NEW link2, NEW b \in Blocks,
           b \notin Range(c), Range(c) \subseteq DOMAIN link2, b \in DOMAIN link2, link2[b] = 0,
           \A x \in Range(c) : x # Last(c) => link2[x] = link[x],
           c # <<>> => link2[Last(c)] = b
    PROVE  /\ Proper(Append(c, b), IF c = <<>> THEN b ELSE start, link2)
           /\ Range(Append(c, b)) = Range(c) \cup {b}
<1> DEFINE d == Append(c, b)
<1>1. /\ c \in Paths /\ (c # <<>> => c[1] = start)
      /\ \A j \in 1 .. Len(c) - 1 : link[c[j]] = c[j + 1]
    BY DEF Proper, Follows
<1>2. /\ c \in Seq(Blocks) /\ IsInjective(c) /\ Len(c) \in Nat /\ DOMAIN c = 1 .. Len(c)
      /\ \A j \in 1 .. Len(c) : c[j] \in Range(c)
      /\ (c # <<>> <=> Len(c) > 0)
      /\ (c # <<>> => Last(c) = c[Len(c)])
    BY <1>1, PathShape
<1>3. /\ d \in Seq(Blocks) /\ IsInjective(d) /\ Len(d) = Len(c) + 1 /\ d[Len(c) + 1] = b
      /\ \A j \in 1 .. Len(c) : d[j] = c[j]
      /\ Range(d) = Range(c) \cup {b}
    BY <1>2, InjectiveAppend
<1> HIDE DEF d
<1>4. d \in Paths /\ Range(d) \subseteq DOMAIN link2 /\ d # <<>>
    <2>1. Len(d) > 0
        BY <1>2, <1>3
    <2>2. d # <<>>
        BY <1>3, <2>1
    <2> QED
        BY <1>3, <2>2 DEF Paths
<1>5. d[1] = IF c = <<>> THEN b ELSE start
    <2>1. CASE c = <<>>
        BY <1>2, <1>3, <2>1
    <2>2. CASE c # <<>>
        <3>1. 1 \in 1 .. Len(c)
            BY <1>2, <2>2
        <3> QED
            BY <1>1, <1>3, <2>2, <3>1
    <2> QED
        BY <2>1, <2>2
<1>6. ASSUME NEW j \in 1 .. Len(c) PROVE link2[d[j]] = d[j + 1]
    <2>1. CASE j = Len(c)
        BY <1>2, <1>3, <2>1
    <2>2. CASE j # Len(c)
        <3>1. j \in 1 .. Len(c) - 1 /\ j + 1 \in 1 .. Len(c) /\ Len(c) \in 1 .. Len(c)
            <4>1. PICK n \in Nat : n = Len(c)
                BY <1>2
            <4>2. j \in 1 .. n - 1 /\ j + 1 \in 1 .. n /\ n \in 1 .. n
                BY <2>2, <4>1
            <4> QED
                BY <4>1, <4>2
        <3>2. c[j] # c[Len(c)]
            BY <1>2, <2>2, <3>1 DEF IsInjective
        <3>3. link2[c[j]] = c[j + 1] /\ d[j + 1] = c[j + 1] /\ d[j] = c[j]
            BY <1>1, <1>2, <1>3, <3>1, <3>2
        <3> QED
            BY <3>3
    <2> QED
        BY <2>1, <2>2
<1>7. Len(d) - 1 = Len(c)
    BY <1>2, <1>3
<1>8. link2[Last(d)] = 0
    BY <1>3, <1>7 DEF Last
<1> QED
    BY <1>3, <1>4, <1>5, <1>6, <1>7, <1>8 DEF Proper, Follows, d

\* A block is taken out of a path.
Skips(c, k, link, link2) ==
    /\ \A j \in 1 .. Len(c) : j # k => c[j] \in DOMAIN link2
    /\ \A j \in 1 .. Len(c) : j # k /\ j # k - 1 => link2[c[j]] = link[c[j]]
    /\ k > 1 => link2[c[k - 1]] = link[c[k]]
Shortened(e, c, k, start, link, link2) ==
    /\ Proper(e, IF k = 1 THEN link[c[1]] ELSE start, link2)
    /\ Range(e) = Range(c) \ {c[k]}

\* The path without one of its blocks, once the block before it, or the start,
\* is linked to the next: what filesystemRemove does to a hash chain.
LEMMA ProperWithout ==
    ASSUME NEW start, NEW link, NEW c, Proper(c, start, link), NEW k \in 1 .. Len(c), NEW link2,
           Skips(c, k, link, link2)
    PROVE  \E e \in Paths : Shortened(e, c, k, start, link, link2)
<1> USE DEF Shortened
<1>0. /\ \A j \in 1 .. Len(c) : j # k => c[j] \in DOMAIN link2
      /\ \A j \in 1 .. Len(c) : j # k /\ j # k - 1 => link2[c[j]] = link[c[j]]
      /\ k > 1 => link2[c[k - 1]] = link[c[k]]
    BY DEF Skips
<1> DEFINE m == Len(c) - 1
           at(j) == IF j < k THEN j ELSE j + 1
           e == [j \in 1 .. m |-> c[at(j)]]
<1>1. /\ c \in Paths /\ (c # <<>> => c[1] = start)
      /\ \A j \in 1 .. Len(c) - 1 : link[c[j]] = c[j + 1]
      /\ c # <<>> => link[Last(c)] = 0
    BY DEF Proper, Follows
<1>2. /\ c \in Seq(Blocks) /\ Len(c) \in Nat /\ DOMAIN c = 1 .. Len(c)
      /\ \A j \in 1 .. Len(c) : c[j] \in Blocks
      /\ \A x \in Range(c) : \E j \in 1 .. Len(c) : x = c[j]
      /\ \A i, j \in 1 .. Len(c) : c[i] = c[j] => i = j
      /\ \A j \in 1 .. Len(c) : c[j] \in Range(c)
    BY <1>1, PathShape DEF IsInjective
<1>3. c # <<>> /\ Last(c) = c[Len(c)] /\ m \in Nat /\ link[c[Len(c)]] = 0
    <2>1. Len(c) > 0
        BY <1>2
    <2>2. c # <<>>
        BY <1>1, <2>1, PathShape
    <2> QED
        BY <1>1, <1>2, <2>1, <2>2, PathShape
<1>4. /\ \A j \in 1 .. m : at(j) \in 1 .. Len(c) /\ at(j) # k
      /\ \A i, j \in 1 .. m : at(i) = at(j) => i = j
      /\ \A i \in 1 .. Len(c) : i # k => \E j \in 1 .. m : at(j) = i
    <2>1. \A j \in 1 .. m : at(j) \in 1 .. Len(c) /\ at(j) # k
        BY <1>2
    <2>2. \A i, j \in 1 .. m : at(i) = at(j) => i = j
        BY <1>2
    <2>3. ASSUME NEW i \in 1 .. Len(c), i # k PROVE \E j \in 1 .. m : at(j) = i
        <3>1. CASE i < k
            <4>1. i \in 1 .. m /\ at(i) = i
                BY <1>2, <3>1
            <4> QED
                BY <4>1
        <3>2. CASE ~(i < k)
            <4>1. i - 1 \in 1 .. m /\ at(i - 1) = i
                BY <1>2, <2>3, <3>2
            <4> QED
                BY <4>1
        <3> QED
            BY <3>1, <3>2
    <2> QED
        BY <2>1, <2>2, <2>3
<1>5. e \in Seq(Blocks) /\ Len(e) = m /\ DOMAIN e = 1 .. m /\ \A j \in 1 .. m : e[j] = c[at(j)]
    <2> HIDE DEF at, m
    <2>1. \A j \in 1 .. m : c[at(j)] \in Blocks
        BY <1>2, <1>4
    <2> QED
        BY <1>3, <2>1
<1>13. PICK n \in Nat : n = Len(c)
    BY <1>2
<1>14. n > 0 /\ m = n - 1 /\ k \in 1 .. n
    BY <1>2, <1>13
<1> HIDE DEF m
<1>15. at(m) = IF k = n THEN m ELSE n
    BY <1>13, <1>14
<1>16. at(1) = IF k = 1 THEN 2 ELSE 1
    BY <1>14
<1>17. ASSUME NEW j \in 1 .. m - 1
       PROVE  /\ at(j + 1) = IF j = k - 1 THEN at(j) + 2 ELSE at(j) + 1
              /\ at(j) # k - 1 <=> j # k - 1
              /\ at(j) \in 1 .. n - 1
              /\ j = k - 1 => at(j) = k - 1 /\ at(j + 1) = k + 1 /\ k \in 1 .. n - 1 /\ k > 1
    <2>1. j \in Nat /\ j > 0 /\ j < n - 1 /\ m \in Nat
        BY <1>13, <1>14
    <2>2. at(j + 1) = IF j = k - 1 THEN at(j) + 2 ELSE at(j) + 1
        BY <1>13, <1>14, <2>1
    <2>3. at(j) # k - 1 <=> j # k - 1
        BY <1>13, <1>14, <2>1
    <2>4. at(j) \in 1 .. n - 1
        BY <1>13, <1>14, <2>1
    <2>5. j = k - 1 => at(j) = k - 1 /\ at(j + 1) = k + 1 /\ k \in 1 .. n - 1 /\ k > 1
        BY <1>13, <1>14, <2>1
    <2> QED
        BY <2>2, <2>3, <2>4, <2>5
<1>12. /\ at(m) = IF k = Len(c) THEN m ELSE Len(c)
       /\ at(1) = IF k = 1 THEN 2 ELSE 1
       /\ \A j \in 1 .. m - 1 : at(j + 1) = IF j = k - 1 THEN at(j) + 2 ELSE at(j) + 1
       /\ \A j \in 1 .. m - 1 : at(j) # k - 1 <=> j # k - 1
       /\ \A j \in 1 .. m - 1 : at(j) \in 1 .. Len(c) - 1
       /\ \A j \in 1 .. m - 1 : j = k - 1 => at(j) = k - 1 /\ at(j + 1) = k + 1 /\ k \in 1 .. Len(c) - 1 /\ k > 1
    BY <1>13, <1>15, <1>16, <1>17
<1> HIDE DEF e, at
<1>6. e \in Paths
    <2>1. ASSUME NEW i \in 1 .. m, NEW j \in 1 .. m, e[i] = e[j] PROVE i = j
        <3>1. c[at(i)] = c[at(j)]
            BY <1>5, <2>1
        <3>2. at(i) = at(j)
            BY <1>2, <1>4, <3>1
        <3> QED
            BY <1>4, <3>2
    <2>2. IsInjective(e)
        BY <1>5, <2>1 DEF IsInjective
    <2> QED
        BY <1>5, <2>2 DEF Paths
<1>7. Range(e) = Range(c) \ {c[k]}
    <2>1. \A x \in Range(e) : x \in Range(c) \ {c[k]}
        <3> SUFFICES ASSUME NEW j \in 1 .. m PROVE e[j] \in Range(c) \ {c[k]}
            BY <1>5 DEF Range
        <3>1. at(j) \in 1 .. Len(c) /\ at(j) # k /\ e[j] = c[at(j)]
            BY <1>4, <1>5
        <3> QED
            BY <1>2, <3>1
    <2>2. \A x \in Range(c) \ {c[k]} : x \in Range(e)
        <3> SUFFICES ASSUME NEW x \in Range(c) \ {c[k]} PROVE x \in Range(e)
            OBVIOUS
        <3>1. PICK i \in 1 .. Len(c) : x = c[i]
            BY <1>2
        <3>2. PICK j \in 1 .. m : at(j) = i
            BY <1>4, <3>1
        <3> QED
            BY <1>5, <3>1, <3>2 DEF Range
    <2> QED
        BY <2>1, <2>2
<1>8. Range(e) \subseteq DOMAIN link2
    <2> SUFFICES ASSUME NEW j \in 1 .. m PROVE e[j] \in DOMAIN link2
        BY <1>5 DEF Range
    <2> QED
        BY <1>0, <1>4, <1>5
<1>9. ASSUME NEW j \in 1 .. m - 1 PROVE link2[e[j]] = e[j + 1]
    <2>0. j \in 1 .. m /\ j + 1 \in 1 .. m /\ e[j] = c[at(j)] /\ e[j + 1] = c[at(j + 1)]
        BY <1>3, <1>5
    <2>1. at(j) \in 1 .. Len(c) /\ at(j) # k /\ at(j) \in 1 .. Len(c) - 1
        BY <1>4, <1>12, <2>0
    <2>2. CASE j = k - 1
        <3>1. at(j) = k - 1 /\ at(j + 1) = k + 1 /\ k \in 1 .. Len(c) - 1 /\ k > 1
            BY <1>12, <2>2
        <3>2. link[c[k]] = c[k + 1]
            BY <1>1, <3>1
        <3> QED
            BY <1>0, <2>0, <3>1, <3>2
    <2>3. CASE j # k - 1
        <3>1. at(j + 1) = at(j) + 1 /\ at(j) # k - 1
            BY <1>12, <2>3
        <3>2. link[c[at(j)]] = c[at(j) + 1]
            BY <1>1, <2>1
        <3>3. link2[c[at(j)]] = link[c[at(j)]]
            BY <1>0, <2>1, <3>1
        <3> QED
            BY <2>0, <3>1, <3>2, <3>3
    <2> QED
        BY <2>2, <2>3
<1>10. CASE m = 0
    <2>1. Len(c) = 1 /\ k = 1 /\ e = <<>>
        <3>1. n = 1 /\ k = 1
            BY <1>10, <1>14
        <3>2. Len(e) = 0
            BY <1>5, <1>10
        <3> QED
            BY <1>5, <1>13, <3>1, <3>2, EmptySeq
    <2>2. link[c[1]] = 0
        BY <1>3, <2>1
    <2> QED
        BY <1>6, <1>7, <1>8, <1>9, <1>5, <2>1, <2>2 DEF Proper, Follows
<1>11. CASE m # 0
    <2>1. e # <<>> /\ m \in 1 .. m /\ 1 \in 1 .. m /\ Last(e) = e[m]
        BY <1>3, <1>5, <1>11 DEF Last
    <2>2. e[1] = IF k = 1 THEN link[c[1]] ELSE start
        <3>1. e[1] = c[IF k = 1 THEN 2 ELSE 1]
            BY <1>5, <1>12, <2>1
        <3>2. link[c[1]] = c[2]
            <4>1. 1 \in 1 .. n - 1 /\ 1 + 1 = 2
                BY <1>3, <1>11, <1>14
            <4> QED
                BY <1>1, <1>13, <4>1
        <3> QED
            BY <1>1, <1>3, <3>1, <3>2
    <2>3. link2[e[m]] = 0
        <3>1. e[m] = c[at(m)] /\ at(m) \in 1 .. Len(c) /\ at(m) # k
            BY <1>4, <1>5, <2>1
        <3>2. CASE k = Len(c)
            <4>1. at(m) = k - 1 /\ k > 1
                BY <1>11, <1>13, <1>14, <1>15, <3>2
            <4> QED
                BY <1>0, <1>3, <3>1, <3>2, <4>1
        <3>3. CASE k # Len(c)
            <4>1. at(m) = Len(c) /\ Len(c) # k - 1
                BY <1>13, <1>14, <1>15, <3>3
            <4> QED
                BY <1>0, <1>3, <3>1, <3>3, <4>1
        <3> QED
            BY <3>2, <3>3
    <2>4. Proper(e, IF k = 1 THEN link[c[1]] ELSE start, link2)
        BY <1>5, <1>6, <1>8, <1>9, <2>1, <2>2, <2>3 DEF Proper, Follows
    <2> QED
        BY <1>6, <1>7, <2>4
<1> QED
    BY <1>10, <1>11

-----------------------------------------------------------------------------
(* What a tree is made of *)

\* A table lists blocks of its slots.
LEMMA ListedIn ==
    ASSUME NEW table \in Tables
    PROVE  /\ Range(Listed(table)) \subseteq Blocks
           /\ Range(Listed(table)) \subseteq Held(table) /\ Held(table) \subseteq Blocks
           /\ (\A i \in Slots : table[i] = 0) => Held(table) = {}
           /\ Listed(table) \in Seq(Blocks)
<1> DEFINE full == {i \in Slots : \A j \in i .. TableSize - 1 : table[j] # 0}
           n == Cardinality(full)
<1>1. TableSize \in Nat \ {0} /\ table \in [Slots -> Blocks \cup {0}]
    BY GeometryAssumption DEF Tables, Pointers
<1>2. \A i, j \in Int : IsFiniteSet(i .. j) /\ Cardinality(i .. j) = IF i > j THEN 0 ELSE j - i + 1
    BY FS_Interval
<1>3. IsFiniteSet(Slots) /\ Cardinality(Slots) = TableSize
    <2>1. 0 \in Int /\ TableSize - 1 \in Int /\ ~(0 > TableSize - 1) /\ TableSize - 1 - 0 + 1 = TableSize
        BY <1>1
    <2> QED
        BY <1>2, <2>1 DEF Slots
<1>4. n \in Nat /\ n <= TableSize
    <2>1. full \in SUBSET Slots
        OBVIOUS
    <2>2. IsFiniteSet(full) /\ n <= TableSize
        BY <1>3, <2>1, FS_Subset
    <2> QED
        BY <2>2, FS_CardinalityType
<1>5. ASSUME NEW j \in 1 .. n PROVE TableSize - j \in Slots /\ table[TableSize - j] \in Blocks
    <2>1. TableSize - j \in Slots
        BY <1>1, <1>4 DEF Slots
    <2>2. TableSize - j \in full
        <3> SUFFICES ASSUME TableSize - j \notin full PROVE FALSE
            OBVIOUS
        <3>1. PICK m \in TableSize - j .. TableSize - 1 : table[m] = 0
            BY <2>1
        <3>2. \A i \in full : i \in TableSize - j + 1 .. TableSize - 1
            <4> SUFFICES ASSUME NEW i \in full PROVE i \in TableSize - j + 1 .. TableSize - 1
                OBVIOUS
            <4>1. i \in 0 .. TableSize - 1 /\ \A l \in i .. TableSize - 1 : table[l] # 0
                BY DEF Slots
            <4>2. m \notin i .. TableSize - 1
                BY <3>1, <4>1
            <4> HIDE DEF full, n
            <4> QED
                BY <1>1, <1>4, <3>1, <4>1, <4>2
        <3> HIDE DEF full
        <3>3. full \in SUBSET (TableSize - j + 1 .. TableSize - 1)
            BY <3>2
        <3>4. TableSize - j + 1 \in Int /\ TableSize - 1 \in Int
            BY <1>1, <1>4
        <3>5. /\ IsFiniteSet(TableSize - j + 1 .. TableSize - 1)
              /\ Cardinality(TableSize - j + 1 .. TableSize - 1)
                    = IF TableSize - j + 1 > TableSize - 1 THEN 0
                      ELSE TableSize - 1 - (TableSize - j + 1) + 1
            BY <1>2, <3>4
        <3>6. n <= Cardinality(TableSize - j + 1 .. TableSize - 1)
            BY <3>3, <3>5, FS_Subset
        <3> HIDE DEF n
        <3> QED
            BY <1>1, <1>4, <3>5, <3>6
    <2>3. TableSize - j \in TableSize - j .. TableSize - 1
        BY <1>1, <1>4
    <2>4. table[TableSize - j] # 0
        BY <2>2, <2>3
    <2> QED
        BY <1>1, <2>1, <2>4
<1>6. Listed(table) = [j \in 1 .. n |-> table[TableSize - j]]
    BY DEF Listed
<1> HIDE DEF n
<1>7. Listed(table) \in Seq(Blocks) /\ DOMAIN Listed(table) = 1 .. n
    <2>1. [j \in 1 .. n |-> table[TableSize - j]] \in [1 .. n -> Blocks]
        BY <1>5
    <2> QED
        BY <1>4, <1>6, <2>1
<1>8. \A b \in Range(Listed(table)) : \E j \in 1 .. n : b = table[TableSize - j]
    BY <1>6 DEF Range
<1>9. \A b \in Range(Listed(table)) : b \in Blocks /\ \E i \in Slots : b = table[i]
    BY <1>5, <1>8
<1>10. 0 \notin Blocks
    BY BlocksShape
<1>11. Held(table) \subseteq Blocks /\ ((\A i \in Slots : table[i] = 0) => Held(table) = {})
    BY <1>1 DEF Held
<1> QED
    BY <1>7, <1>9, <1>10, <1>11 DEF Held

\* What a tree says of its directories and entries: each is a block of the disk
\* that is neither the root nor the bitmap, and is in one chain of one directory.
LEMMA TreeShape ==
    ASSUME NEW dk \in Disks, Tree(dk)
    PROVE  /\ RootBlock \in DirsOn(dk) /\ DirsOn(dk) \subseteq Blocks
           /\ RootBlock \notin AllOn(dk) /\ RootBlock + 1 \notin AllOn(dk) /\ AllOn(dk) \subseteq Ent(dk)
           /\ \A d \in DirsOn(dk) :
                 /\ dk[d].table \in Tables /\ dk[d].kind \in {"root", "dir"}
                 /\ d # RootBlock => d \in AllOn(dk) /\ d \in In(dk, RootBlock) /\ dk[d].kind = "dir"
           /\ \A d \in DirsOn(dk), h \in Slots :
                 /\ ChainOn(dk, d, h) \in Paths
                 /\ \A x \in Range(ChainOn(dk, d, h)) : x \in In(dk, d)
           /\ \A d \in DirsOn(dk) : \A b \in In(dk, d) :
                 /\ b \in AllOn(dk) /\ b \in Ent(dk) /\ dk[b].parent = d
                 /\ HashOf[dk[b].name] \in Slots
                 /\ b \in Range(ChainOn(dk, d, HashOf[dk[b].name]))
                 /\ d # RootBlock => dk[b].kind = "file"
           /\ \A b \in AllOn(dk) :
                 /\ b \in Blocks /\ dk[b].kind \in EntryKinds /\ dk[b] \in EntryType
                 /\ dk[b].parent \in DirsOn(dk) /\ b \in In(dk, dk[b].parent)
                 /\ b \in OwnOn(dk, b)
                 /\ dk[b].kind = "dir" => b \in DirsOn(dk)
<1>1. /\ dk[RootBlock].kind = "root" /\ dk[RootBlock + 1].kind = "blank"
      /\ \A d \in DirsOn(dk), h \in Slots : ChainFits(dk, d, h)
      /\ \A b \in AllOn(dk) : EntryFits(dk, b)
    BY DEF Tree
<1>2. RootBlock \in Blocks /\ RootBlock + 1 \in Blocks /\ RootBlock \in DirsOn(dk)
    BY GeometryAssumption DEF DirsOn
<1>3. DOMAIN NextOf(dk) \subseteq Blocks /\ DOMAIN NextOf(dk) = Ent(dk)
    BY DiskShape
<1>4. ASSUME NEW d \in DirsOn(dk), NEW h \in Slots
      PROVE  /\ ChainOn(dk, d, h) \in Paths /\ Range(ChainOn(dk, d, h)) \subseteq Ent(dk)
             /\ \A b \in Range(ChainOn(dk, d, h)) : dk[b].parent = d /\ HashOf[dk[b].name] = h
    <2>1. Proper(ChainOn(dk, d, h), dk[d].table[h], NextOf(dk))
        BY <1>1 DEF ChainFits
    <2>2. \A b \in Range(ChainOn(dk, d, h)) : dk[b].parent = d /\ HashOf[dk[b].name] = h
        BY <1>1 DEF ChainFits
    <2> QED
        BY <1>3, <2>1, <2>2, ProperIs
<1>5. ASSUME NEW d \in DirsOn(dk), NEW b \in In(dk, d)
      PROVE  /\ b \in AllOn(dk) /\ b \in Ent(dk) /\ dk[b].parent = d
             /\ HashOf[dk[b].name] \in Slots
             /\ b \in Range(ChainOn(dk, d, HashOf[dk[b].name]))
    <2>1. PICK h \in Slots : b \in Range(ChainOn(dk, d, h))
        BY DEF In
    <2>2. b \in AllOn(dk)
        BY DEF AllOn
    <2> QED
        BY <1>4, <2>1, <2>2
<1>6. ASSUME NEW b \in AllOn(dk)
      PROVE  /\ b \in Ent(dk) /\ b \in Blocks /\ dk[b].kind \in EntryKinds /\ dk[b] \in EntryType
             /\ dk[b].parent \in DirsOn(dk) /\ b \in In(dk, dk[b].parent)
             /\ b \in OwnOn(dk, b)
    <2>1. PICK d \in DirsOn(dk) : b \in In(dk, d)
        BY DEF AllOn
    <2>2. b \in Ent(dk) /\ dk[b].parent = d
        BY <1>5, <2>1
    <2>3. b \in Blocks /\ dk[b].kind \in EntryKinds /\ dk[b] \in EntryType
        BY <2>2, DiskShape DEF Ent
    <2>4. b \in OwnOn(dk, b)
        BY DEF OwnOn
    <2> QED
        BY <2>1, <2>2, <2>3, <2>4
<1>7. ASSUME NEW b \in AllOn(dk), dk[b].kind = "dir" PROVE b \in DirsOn(dk)
    <2>1. dk[b].parent = RootBlock
        BY <1>1, <1>7 DEF EntryFits
    <2> QED
        BY <1>6, <1>7, <2>1 DEF DirsOn
<1>8. ASSUME NEW d \in DirsOn(dk), d # RootBlock
      PROVE  d \in In(dk, RootBlock) /\ d \in AllOn(dk) /\ dk[d].kind = "dir" /\ d \in Blocks
    <2>1. d \in In(dk, RootBlock) /\ dk[d].kind = "dir"
        BY <1>8 DEF DirsOn
    <2> QED
        BY <1>2, <1>5, <1>6, <2>1
<1>9. ASSUME NEW d \in DirsOn(dk) PROVE dk[d].table \in Tables /\ dk[d].kind \in {"root", "dir"} /\ d \in Blocks
    <2>1. d \in Blocks /\ dk[d].kind \in {"root", "dir"}
        BY <1>1, <1>2, <1>8
    <2>2. dk[d] \in BlockType
        BY <2>1, DiskShape
    <2>3. dk[d] \in RootType \/ dk[d] \in EntryType
        BY <2>1, <2>2, KindShape DEF EntryKinds
    <2> QED
        BY <2>1, <2>3 DEF RootType, EntryType
<1>10. ASSUME NEW d \in DirsOn(dk), d # RootBlock, NEW b \in In(dk, d) PROVE dk[b].kind = "file"
    <2>1. dk[b].parent = d /\ b \in AllOn(dk)
        BY <1>5
    <2>2. dk[b].kind # "dir"
        BY <1>1, <1>10, <2>1 DEF EntryFits
    <2> QED
        BY <1>6, <2>1, <2>2 DEF EntryKinds
<1>11. RootBlock \notin AllOn(dk) /\ RootBlock + 1 \notin AllOn(dk)
    BY <1>1, <1>6 DEF EntryKinds
<1>12. ASSUME NEW d \in DirsOn(dk), NEW h \in Slots, NEW x \in Range(ChainOn(dk, d, h)) PROVE x \in In(dk, d)
    BY DEF In
<1> QED
    BY <1>2, <1>4, <1>5, <1>6, <1>7, <1>8, <1>9, <1>10, <1>11, <1>12

\* The blocks of an entry are the same when its header's table and its extensions are.
LEMMA OwnFrame ==
    ASSUME NEW dk \in Disks, NEW dk2 \in Disks, NEW c \in Blocks, dk[c].kind \in EntryKinds,
           dk2[c].kind = dk[c].kind,
           dk[c].kind = "file" =>
              /\ dk2[c].table = dk[c].table /\ dk2[c].ext = dk[c].ext
              /\ Proper(ExtOn(dk, c), dk[c].ext, ExtOf(dk))
              /\ \A e \in Range(ExtOn(dk, c)) : dk2[e] = dk[e]
    PROVE  /\ OwnOn(dk2, c) = OwnOn(dk, c)
           /\ dk[c].kind = "file" => /\ ExtOn(dk2, c) = ExtOn(dk, c)
                                     /\ Proper(ExtOn(dk2, c), dk2[c].ext, ExtOf(dk2))
<1>1. CASE dk[c].kind = "dir"
    BY <1>1 DEF OwnOn
<1>2. CASE dk[c].kind = "file"
    <2> DEFINE x == ExtOn(dk, c)
    <2>1. /\ dk2[c].table = dk[c].table /\ dk2[c].ext = dk[c].ext
          /\ Proper(x, dk[c].ext, ExtOf(dk))
          /\ \A e \in Range(x) : dk2[e] = dk[e]
        BY <1>2
    <2> HIDE DEF x
    <2>2. /\ DOMAIN ExtOf(dk) = {b \in Blocks : dk[b].kind = "ext"}
          /\ DOMAIN ExtOf(dk2) = {b \in Blocks : dk2[b].kind = "ext"}
          /\ \A b \in Blocks : dk[b].kind = "ext" => ExtOf(dk)[b] = dk[b].ext
          /\ \A b \in Blocks : dk2[b].kind = "ext" => ExtOf(dk2)[b] = dk2[b].ext
        BY DiskShape
    <2>3. Range(x) \subseteq DOMAIN ExtOf(dk)
        BY <2>1, <2>2, ProperIs
    <2>4. \A e \in Range(x) : e \in DOMAIN ExtOf(dk2) /\ ExtOf(dk2)[e] = ExtOf(dk)[e]
        BY <2>1, <2>2, <2>3
    <2>5. Proper(x, dk2[c].ext, ExtOf(dk2))
        BY <2>1, <2>4, ProperSame
    <2>6. ExtOn(dk2, c) = x
        BY <2>2, <2>5, ProperIs DEF ExtOn
    <2>7. \A e \in Range(x) : Held(dk2[e].table) = Held(dk[e].table)
        BY <2>1
    <2>8. UNION {Held(dk2[e].table) : e \in Range(x)} = UNION {Held(dk[e].table) : e \in Range(x)}
        BY <2>7
    <2>9. dk2[c].kind = "file" /\ dk2[c].kind # "dir" /\ dk[c].kind # "dir"
        BY <1>2
    <2>10. OwnOn(dk2, c) = {c} \cup Held(dk2[c].table) \cup Range(x)
                              \cup UNION {Held(dk2[e].table) : e \in Range(x)}
        BY <2>6, <2>9 DEF OwnOn
    <2>11. OwnOn(dk, c) = {c} \cup Held(dk[c].table) \cup Range(x)
                              \cup UNION {Held(dk[e].table) : e \in Range(x)}
        BY <2>9 DEF OwnOn, x
    <2>12. OwnOn(dk2, c) = OwnOn(dk, c)
        BY <2>1, <2>8, <2>10, <2>11
    <2> QED
        BY <2>5, <2>6, <2>12 DEF x
<1> QED
    BY <1>1, <1>2 DEF EntryKinds

-----------------------------------------------------------------------------
(* An entry is written again *)

\* An entry is written over with a header in the same place of the same chain,
\* and with blocks nobody had (filesystemSaveFile of a file that has a block,
\* setBlock with a new name): the tree stays, and the other entries keep theirs.
LEMMA Rewriting ==
    ASSUME NEW dk \in Disks, NEW dk2 \in Disks, Tree(dk), NEW b \in AllOn(dk), NEW A,
           A \cap System = {}, \A c \in AllOn(dk) : OwnOn(dk, c) \cap A = {},
           \A c \in Blocks : c # b /\ c \notin A => dk2[c] = dk[c],
           dk2[b].kind = dk[b].kind, dk2[b].id = dk[b].id,
           dk2[b].next = dk[b].next, dk2[b].parent = dk[b].parent,
           HashOf[dk2[b].name] = HashOf[dk[b].name],
           dk[b].kind = "dir" => dk2[b].table = dk[b].table,
           \A c \in In(dk, dk[b].parent) : c # b => dk[c].name # dk2[b].name,
           dk[b].kind = "file" => Proper(ExtOn(dk2, b), dk2[b].ext, ExtOf(dk2)),
           OwnOn(dk2, b) \subseteq OwnOn(dk, b) \cup A
    PROVE  /\ Tree(dk2) /\ DirsOn(dk2) = DirsOn(dk) /\ AllOn(dk2) = AllOn(dk)
           /\ \A d \in DirsOn(dk) : In(dk2, d) = In(dk, d)
           /\ \A c \in AllOn(dk) : c # b => OwnOn(dk2, c) = OwnOn(dk, c) /\ dk2[c] = dk[c]
<1>1. /\ RootBlock \in DirsOn(dk)
      /\ RootBlock \notin AllOn(dk) /\ RootBlock + 1 \notin AllOn(dk)
      /\ \A d \in DirsOn(dk) : d # RootBlock => d \in AllOn(dk) /\ dk[d].kind = "dir"
      /\ \A d \in DirsOn(dk) : d \in Blocks
      /\ \A d \in DirsOn(dk), h \in Slots : \A x \in Range(ChainOn(dk, d, h)) : x \in In(dk, d)
    BY TreeShape
<1>2. \A d \in DirsOn(dk) : \A x \in In(dk, d) :
        x \in AllOn(dk) /\ dk[x].parent = d
    BY TreeShape
<1>3. \A x \in AllOn(dk) :
          /\ x \in Blocks /\ x \in Ent(dk) /\ dk[x].kind \in EntryKinds /\ x \in OwnOn(dk, x)
          /\ dk[x].parent \in DirsOn(dk) /\ x \in In(dk, dk[x].parent)
    BY TreeShape
<1>4. /\ dk[RootBlock].kind = "root" /\ dk[RootBlock + 1].kind = "blank"
      /\ \A d \in DirsOn(dk), h \in Slots : ChainFits(dk, d, h)
      /\ \A x \in AllOn(dk) : EntryFits(dk, x)
      /\ \A d \in DirsOn(dk) : \A x, y \in In(dk, d) : dk[x].name = dk[y].name => x = y
      /\ \A x, y \in AllOn(dk) : dk[x].id = dk[y].id => x = y
      /\ \A x, y \in AllOn(dk) : x # y => OwnOn(dk, x) \cap OwnOn(dk, y) = {}
    BY DEF Tree
<1>5. RootBlock \in Blocks /\ RootBlock + 1 \in Blocks /\ RootBlock \notin A /\ RootBlock + 1 \notin A
    BY GeometryAssumption DEF System
<1>6. dk2[RootBlock] = dk[RootBlock] /\ dk2[RootBlock + 1] = dk[RootBlock + 1]
    BY <1>1, <1>5
<1>7. \A x \in AllOn(dk) : x # b => dk2[x] = dk[x]
    BY <1>3
<1>8. \A x \in AllOn(dk) : /\ dk2[x].kind = dk[x].kind /\ dk2[x].id = dk[x].id
                           /\ dk2[x].next = dk[x].next /\ dk2[x].parent = dk[x].parent
                           /\ HashOf[dk2[x].name] = HashOf[dk[x].name]
    BY <1>7
<1>9. \A d \in DirsOn(dk) : dk2[d].table = dk[d].table
    BY <1>1, <1>6, <1>7
<1>10. /\ DOMAIN NextOf(dk2) \subseteq Blocks /\ DOMAIN NextOf(dk2) = Ent(dk2)
       /\ \A x \in Ent(dk2) : NextOf(dk2)[x] = dk2[x].next
       /\ \A x \in Ent(dk) : NextOf(dk)[x] = dk[x].next
    BY DiskShape
<1>11. \A x \in AllOn(dk) : x \in Ent(dk2) /\ NextOf(dk2)[x] = NextOf(dk)[x]
    BY <1>3, <1>8, <1>10 DEF Ent
<1>12. ASSUME NEW d \in DirsOn(dk), NEW h \in Slots
       PROVE  /\ ChainOn(dk2, d, h) = ChainOn(dk, d, h)
              /\ Proper(ChainOn(dk2, d, h), dk2[d].table[h], NextOf(dk2))
    <2>1. Proper(ChainOn(dk, d, h), dk[d].table[h], NextOf(dk))
        BY <1>4 DEF ChainFits
    <2>2. \A x \in Range(ChainOn(dk, d, h)) : x \in AllOn(dk)
        BY <1>1, <1>2
    <2>3. Range(ChainOn(dk, d, h)) \subseteq DOMAIN NextOf(dk2)
        BY <1>10, <1>11, <2>2
    <2>4. Proper(ChainOn(dk, d, h), dk2[d].table[h], NextOf(dk2))
        BY <1>9, <1>11, <2>1, <2>2, <2>3, ProperSame
    <2>5. ChainOn(dk2, d, h) = ChainOn(dk, d, h)
        BY <1>10, <2>4, ProperIs DEF ChainOn
    <2> QED
        BY <2>4, <2>5
<1>13. ASSUME NEW d \in DirsOn(dk) PROVE In(dk2, d) = In(dk, d)
    BY <1>12 DEF In
<1>14. DirsOn(dk2) = DirsOn(dk)
    <2>1. In(dk2, RootBlock) = In(dk, RootBlock)
        BY <1>1, <1>13
    <2>2. \A x \in In(dk, RootBlock) : dk2[x].kind = dk[x].kind
        BY <1>1, <1>2, <1>8
    <2> QED
        BY <2>1, <2>2 DEF DirsOn
<1>15. AllOn(dk2) = AllOn(dk)
    BY <1>13, <1>14 DEF AllOn
<1>16. ASSUME NEW c \in AllOn(dk), c # b
       PROVE  /\ OwnOn(dk2, c) = OwnOn(dk, c)
              /\ dk[c].kind = "file" => Proper(ExtOn(dk2, c), dk2[c].ext, ExtOf(dk2))
    <2>1. dk2[c] = dk[c] /\ c \in Blocks /\ dk[c].kind \in EntryKinds
        BY <1>3, <1>7, <1>16
    <2>2. ASSUME dk[c].kind = "file"
          PROVE  /\ Proper(ExtOn(dk, c), dk[c].ext, ExtOf(dk))
                 /\ \A e \in Range(ExtOn(dk, c)) : dk2[e] = dk[e]
        <3>1. Proper(ExtOn(dk, c), dk[c].ext, ExtOf(dk))
            BY <1>4, <2>2 DEF EntryFits
        <3>2. \A e \in Range(ExtOn(dk, c)) : e \in OwnOn(dk, c)
            BY <2>2 DEF OwnOn
        <3>3. OwnOn(dk, c) \cap OwnOn(dk, b) = {} /\ OwnOn(dk, c) \cap A = {} /\ b \in OwnOn(dk, b)
            BY <1>3, <1>4, <1>16
        <3>4. \A e \in Range(ExtOn(dk, c)) : e \in Blocks
            <4>1. DOMAIN ExtOf(dk) \subseteq Blocks
                BY DiskShape
            <4> QED
                BY <3>1, <4>1, ProperIs
        <3>5. \A e \in Range(ExtOn(dk, c)) : dk2[e] = dk[e]
            BY <3>2, <3>3, <3>4
        <3> QED
            BY <3>1, <3>5
    <2> QED
        BY <2>1, <2>2, OwnFrame
<1>17. \A c \in AllOn(dk) : EntryFits(dk2, c)
    <2> SUFFICES ASSUME NEW c \in AllOn(dk) PROVE EntryFits(dk2, c)
        OBVIOUS
    <2>1. EntryFits(dk, c)
        BY <1>4
    <2>2. dk[c].kind = "file" => Proper(ExtOn(dk2, c), dk2[c].ext, ExtOf(dk2))
        BY <1>16
    <2> QED
        BY <1>8, <2>1, <2>2 DEF EntryFits
<1>18. \A d \in DirsOn(dk), h \in Slots : ChainFits(dk2, d, h)
    <2> SUFFICES ASSUME NEW d \in DirsOn(dk), NEW h \in Slots PROVE ChainFits(dk2, d, h)
        OBVIOUS
    <2>1. \A x \in Range(ChainOn(dk, d, h)) : dk2[x].parent = d /\ HashOf[dk2[x].name] = h
        <3>1. \A x \in Range(ChainOn(dk, d, h)) : x \in AllOn(dk) /\ dk[x].parent = d /\ HashOf[dk[x].name] = h
            BY <1>1, <1>2, <1>4 DEF ChainFits
        <3> QED
            BY <1>8, <3>1
    <2> QED
        BY <1>12, <2>1 DEF ChainFits
<1>19. \A d \in DirsOn(dk) : \A x, y \in In(dk, d) : dk2[x].name = dk2[y].name => x = y
    <2> SUFFICES ASSUME NEW d \in DirsOn(dk), NEW x \in In(dk, d), NEW y \in In(dk, d),
                        dk2[x].name = dk2[y].name, x # y
                 PROVE  FALSE
        OBVIOUS
    <2>1. x \in AllOn(dk) /\ y \in AllOn(dk) /\ dk[x].parent = d /\ dk[y].parent = d
        BY <1>2
    <2>2. CASE x = b
        BY <1>7, <2>1, <2>2
    <2>3. CASE y = b
        BY <1>7, <2>1, <2>3
    <2>4. CASE x # b /\ y # b
        BY <1>4, <1>7, <2>1, <2>4
    <2> QED
        BY <2>2, <2>3, <2>4
<1>20. \A x, y \in AllOn(dk) : dk2[x].id = dk2[y].id => x = y
    BY <1>4, <1>8
<1>21. \A x, y \in AllOn(dk) : x # y => OwnOn(dk2, x) \cap OwnOn(dk2, y) = {}
    <2> SUFFICES ASSUME NEW x \in AllOn(dk), NEW y \in AllOn(dk), x # y
                 PROVE  OwnOn(dk2, x) \cap OwnOn(dk2, y) = {}
        OBVIOUS
    <2>1. \A z \in AllOn(dk) : OwnOn(dk2, z) \subseteq OwnOn(dk, z) \cup (IF z = b THEN A ELSE {})
        BY <1>16
    <2>2. OwnOn(dk, x) \cap OwnOn(dk, y) = {} /\ OwnOn(dk, x) \cap A = {} /\ OwnOn(dk, y) \cap A = {}
        BY <1>4
    <2> QED
        BY <2>1, <2>2
<1>22. Tree(dk2)
    BY <1>4, <1>6, <1>13, <1>14, <1>15, <1>17, <1>18, <1>19, <1>20, <1>21 DEF Tree
<1> QED
    BY <1>7, <1>13, <1>14, <1>15, <1>16, <1>22

-----------------------------------------------------------------------------
(* An entry is made *)

\* The block from which the chain of a slot is made longer.
LinkAt(dk, d, h) == IF ChainOn(dk, d, h) = <<>> THEN d ELSE Last(ChainOn(dk, d, h))
WithLink(dk, d, h, b) ==
    IF ChainOn(dk, d, h) = <<>> THEN [dk EXCEPT ![d].table[h] = b]
    ELSE [dk EXCEPT ![Last(ChainOn(dk, d, h))].next = b]

\* What linking a block changes.
LEMMA LinkShape ==
    ASSUME NEW dk \in Disks, Tree(dk), NEW d \in DirsOn(dk), NEW h \in Slots, NEW b \in Pointers
    PROVE  /\ WithLink(dk, d, h, b) \in Disks
           /\ LinkAt(dk, d, h) \in Blocks
           /\ \A x \in Blocks : x # LinkAt(dk, d, h) => WithLink(dk, d, h, b)[x] = dk[x]
           /\ ChainOn(dk, d, h) = <<>> =>
                 WithLink(dk, d, h, b)[d] = [dk[d] EXCEPT !.table = [dk[d].table EXCEPT ![h] = b]]
           /\ ChainOn(dk, d, h) # <<>> =>
                 /\ LinkAt(dk, d, h) \in Range(ChainOn(dk, d, h))
                 /\ WithLink(dk, d, h, b)[LinkAt(dk, d, h)] = [dk[LinkAt(dk, d, h)] EXCEPT !.next = b]
<1> DEFINE c == ChainOn(dk, d, h)
           dk2 == WithLink(dk, d, h, b)
<1>1. d \in Blocks /\ dk[d].table \in Tables /\ dk[d].kind \in {"root", "dir"} /\ c \in Paths
      /\ \A x \in Range(c) : x \in Ent(dk)
    BY TreeShape
<1>2. \A x \in Blocks : dk[x] \in BlockType
    BY DiskShape
<1>3. dk = [x \in Blocks |-> dk[x]]
    BY DEF Disks
<1> HIDE DEF c
<1>4. CASE c = <<>>
    <2> DEFINE r == [dk[d] EXCEPT !.table = [dk[d].table EXCEPT ![h] = b]]
    <2>1. [dk[d].table EXCEPT ![h] = b] \in Tables
        BY <1>1 DEF Tables
    <2>2. r \in BlockType
        <3>1. dk[d] \in RootType \/ dk[d] \in EntryType
            BY <1>1, <1>2, KindShape DEF EntryKinds
        <3>2. r \in RootType \/ r \in EntryType
            BY <2>1, <3>1 DEF RootType, EntryType
        <3> QED
            BY <3>2 DEF BlockType
    <2>3. dk2 = [dk EXCEPT ![d].table[h] = b]
        BY <1>4 DEF WithLink, c
    <2>4. dk2 = [dk EXCEPT ![d] = r]
        BY <2>3
    <2> HIDE DEF r, dk2
    <2>5. dk2 \in Disks /\ dk2[d] = r /\ \A x \in Blocks : x # d => dk2[x] = dk[x]
        BY <1>1, <2>2, <2>4 DEF Disks
    <2> QED
        BY <1>1, <1>4, <2>5 DEF LinkAt, c, dk2, r
<1>5. CASE c # <<>>
    <2>1. Last(c) \in Range(c) /\ Last(c) \in Ent(dk)
        BY <1>1, <1>5, PathShape
    <2>2. Last(c) \in Blocks /\ dk[Last(c)] \in EntryType
        BY <2>1, DiskShape
    <2> DEFINE r == [dk[Last(c)] EXCEPT !.next = b]
    <2>3. r \in BlockType
        BY <2>2 DEF BlockType, EntryType
    <2>4. dk2 = [dk EXCEPT ![Last(c)] = r]
        BY <1>5 DEF WithLink, c
    <2> HIDE DEF r, dk2
    <2>5. dk2 \in Disks /\ dk2[Last(c)] = r /\ \A x \in Blocks : x # Last(c) => dk2[x] = dk[x]
        BY <2>2, <2>3, <2>4 DEF Disks
    <2>6. LinkAt(dk, d, h) = Last(c)
        BY <1>5 DEF LinkAt, c
    <2>7. ChainOn(dk, d, h) # <<>>
        BY <1>5 DEF c
    <2> QED
        BY <2>1, <2>2, <2>5, <2>6, <2>7 DEF c, dk2, r
<1> QED
    BY <1>4, <1>5 DEF c

\* A block nobody had becomes the last entry of a chain (blockUse and the link
\* written to it): the tree has this entry more, and the others are what they were.
LEMMA Entering ==
    ASSUME NEW dk \in Disks, NEW dk2 \in Disks, Tree(dk), NEW p \in DirsOn(dk), NEW h \in Slots,
           NEW b \in Blocks, b \notin System, \A c \in AllOn(dk) : b \notin OwnOn(dk, c),
           \A x \in Blocks : x # b => dk2[x] = WithLink(dk, p, h, b)[x],
           dk2[b].kind = IF dk2[b].id \in Files THEN "file" ELSE "dir",
           dk2[b].kind = "dir" => p = RootBlock,
           dk2[b].next = 0, dk2[b].parent = p, dk2[b].ext = 0, dk2[b].table = NoTable,
           HashOf[dk2[b].name] = h,
           \A c \in AllOn(dk) : dk[c].id # dk2[b].id,
           \A c \in In(dk, p) : dk[c].name # dk2[b].name
    PROVE  /\ Tree(dk2) /\ AllOn(dk2) = AllOn(dk) \cup {b}
           /\ DirsOn(dk2) = DirsOn(dk) \cup (IF dk2[b].kind = "dir" THEN {b} ELSE {})
           /\ In(dk2, p) = In(dk, p) \cup {b}
           /\ \A d \in DirsOn(dk) : d # p => In(dk2, d) = In(dk, d)
           /\ dk2[b].kind = "dir" => In(dk2, b) = {}
           /\ OwnOn(dk2, b) = {b}
           /\ \A c \in AllOn(dk) : /\ OwnOn(dk2, c) = OwnOn(dk, c)
                                   /\ dk2[c].name = dk[c].name /\ dk2[c].id = dk[c].id
<1> DEFINE chain == ChainOn(dk, p, h)
           L == LinkAt(dk, p, h)
<1>1. /\ RootBlock \in DirsOn(dk)
      /\ RootBlock \notin AllOn(dk) /\ RootBlock + 1 \notin AllOn(dk)
      /\ \A d \in DirsOn(dk) : d # RootBlock => d \in AllOn(dk) /\ dk[d].kind = "dir"
      /\ \A d \in DirsOn(dk) : d \in Blocks /\ dk[d].table \in Tables /\ dk[d].kind \in {"root", "dir"}
      /\ \A d \in DirsOn(dk), g \in Slots :
            /\ ChainOn(dk, d, g) \in Paths
            /\ \A x \in Range(ChainOn(dk, d, g)) : x \in In(dk, d)
    BY TreeShape
<1>2. \A d \in DirsOn(dk) : \A x \in In(dk, d) :
        x \in AllOn(dk) /\ dk[x].parent = d
    BY TreeShape
<1>3. \A x \in AllOn(dk) :
          /\ x \in Blocks /\ x \in Ent(dk) /\ dk[x].kind \in EntryKinds /\ x \in OwnOn(dk, x)
          /\ dk[x].parent \in DirsOn(dk) /\ x \in In(dk, dk[x].parent) /\ dk[x] \in EntryType
    BY TreeShape
<1>4. /\ dk[RootBlock].kind = "root" /\ dk[RootBlock + 1].kind = "blank"
      /\ \A d \in DirsOn(dk), g \in Slots : ChainFits(dk, d, g)
      /\ \A x \in AllOn(dk) : EntryFits(dk, x)
      /\ \A d \in DirsOn(dk) : \A x, y \in In(dk, d) : dk[x].name = dk[y].name => x = y
      /\ \A x, y \in AllOn(dk) : dk[x].id = dk[y].id => x = y
      /\ \A x, y \in AllOn(dk) : x # y => OwnOn(dk, x) \cap OwnOn(dk, y) = {}
    BY DEF Tree
<1>5. RootBlock \in Blocks /\ RootBlock + 1 \in Blocks /\ b # RootBlock /\ b # RootBlock + 1
    BY GeometryAssumption DEF System
<1>6. b \notin AllOn(dk) /\ b \notin DirsOn(dk) /\ b # p
    BY <1>1, <1>3, <1>5
<1>7. /\ L \in Blocks /\ \A x \in Blocks : x # L => WithLink(dk, p, h, b)[x] = dk[x]
      /\ (chain = <<>> => /\ L = p
            /\ WithLink(dk, p, h, b)[p] = [dk[p] EXCEPT !.table = [dk[p].table EXCEPT ![h] = b]])
      /\ (chain # <<>> => /\ L \in Range(chain)
            /\ WithLink(dk, p, h, b)[L] = [dk[L] EXCEPT !.next = b])
    <2>1. b \in Pointers
        BY DEF Pointers
    <2>2. chain = <<>> => L = p
        BY DEF LinkAt
    <2> QED
        BY <2>1, <2>2, LinkShape
<1>8. chain \in Paths /\ (chain # <<>> => L = Last(chain) /\ L \in AllOn(dk) /\ L # b /\ L # RootBlock /\ L # RootBlock + 1)
    <2>1. chain # <<>> => L \in AllOn(dk)
        BY <1>1, <1>2, <1>7
    <2> QED
        BY <1>1, <1>6, <2>1 DEF LinkAt
<1> HIDE DEF chain, L
<1>9. \A x \in Blocks : x # b /\ x # L => dk2[x] = dk[x]
    BY <1>7
<1>10. chain = <<>> => L = p /\ dk2[p] = [dk[p] EXCEPT !.table = [dk[p].table EXCEPT ![h] = b]]
    BY <1>1, <1>6, <1>7
<1>11. chain # <<>> => dk2[L] = [dk[L] EXCEPT !.next = b]
    BY <1>7, <1>8
<1>12. \A x \in AllOn(dk) : /\ dk2[x].kind = dk[x].kind /\ dk2[x].id = dk[x].id
                            /\ dk2[x].name = dk[x].name /\ dk2[x].parent = dk[x].parent
                            /\ dk2[x].ext = dk[x].ext
                            /\ dk[x].kind = "file" => dk2[x].table = dk[x].table
                            /\ x # L \/ chain = <<>> => dk2[x].next = dk[x].next
    <2> SUFFICES ASSUME NEW x \in AllOn(dk)
                 PROVE  /\ dk2[x].kind = dk[x].kind /\ dk2[x].id = dk[x].id
                        /\ dk2[x].name = dk[x].name /\ dk2[x].parent = dk[x].parent
                        /\ dk2[x].ext = dk[x].ext
                        /\ dk[x].kind = "file" => dk2[x].table = dk[x].table
                        /\ x # L \/ chain = <<>> => dk2[x].next = dk[x].next
        OBVIOUS
    <2>1. x \in Blocks /\ dk[x] \in EntryType /\ x # b
        BY <1>3, <1>6
    <2>2. CASE x # L
        BY <1>9, <2>1, <2>2
    <2>3. CASE x = L /\ chain # <<>>
        BY <1>11, <2>1, <2>3 DEF EntryType
    <2>4. CASE x = L /\ chain = <<>>
        <3>1. x = p /\ dk[x].kind # "file"
            BY <1>1, <1>10, <2>4
        <3> QED
            BY <1>10, <2>1, <2>4, <3>1 DEF EntryType
    <2> QED
        BY <2>2, <2>3, <2>4
<1>13. ASSUME NEW d \in DirsOn(dk), NEW g \in Slots
       PROVE  dk2[d].table[g] = IF d = p /\ g = h /\ chain = <<>> THEN b ELSE dk[d].table[g]
    <2>1. d \in Blocks /\ d # b /\ dk[d].table \in Tables
        BY <1>1, <1>6
    <2>2. CASE d # L
        BY <1>9, <1>10, <2>1, <2>2
    <2>3. CASE d = L /\ chain # <<>>
        <3>1. dk[d] \in EntryType
            BY <1>3, <1>8, <2>3
        <3> QED
            BY <1>11, <2>3, <3>1 DEF EntryType
    <2>4. CASE d = L /\ chain = <<>>
        <3>1. d = p /\ dk2[p] = [dk[p] EXCEPT !.table = [dk[p].table EXCEPT ![h] = b]]
            BY <1>10, <2>4
        <3>2. dk[p] \in RootType \/ dk[p] \in EntryType
            <4>1. p \in Blocks /\ dk[p].kind \in {"root", "dir"}
                BY <1>1
            <4> QED
                BY <4>1, DiskShape, KindShape DEF EntryKinds
        <3>3. dk2[p].table = [dk[p].table EXCEPT ![h] = b]
            BY <3>1, <3>2 DEF RootType, EntryType
        <3> QED
            BY <2>1, <2>4, <3>1, <3>3 DEF Tables
    <2> QED
        BY <2>2, <2>3, <2>4
<1>14. dk2[RootBlock].kind = "root" /\ dk2[RootBlock + 1].kind = "blank"
    <2>1. RootBlock + 1 # L
        <3>1. p # RootBlock + 1
            BY <1>1, <1>4
        <3> QED
            BY <1>8, <1>10, <3>1
    <2>2. CASE RootBlock # L
        BY <1>4, <1>5, <1>9, <2>1, <2>2
    <2>3. CASE RootBlock = L
        <3>1. chain = <<>> /\ dk2[RootBlock] = [dk[RootBlock] EXCEPT !.table = [dk[RootBlock].table EXCEPT ![h] = b]]
            BY <1>8, <1>10, <2>3
        <3>2. dk[RootBlock] \in RootType
            BY <1>4, <1>5, DiskShape, KindShape
        <3> QED
            BY <1>4, <1>5, <1>9, <2>1, <3>1, <3>2 DEF RootType
    <2> QED
        BY <2>2, <2>3
<1>15. /\ DOMAIN NextOf(dk2) \subseteq Blocks /\ DOMAIN NextOf(dk2) = Ent(dk2)
       /\ \A x \in Ent(dk2) : NextOf(dk2)[x] = dk2[x].next
       /\ \A x \in Ent(dk) : NextOf(dk)[x] = dk[x].next
    BY DiskShape
<1>16. /\ b \in Ent(dk2) /\ NextOf(dk2)[b] = 0
       /\ \A x \in AllOn(dk) : /\ x \in Ent(dk2)
                               /\ x # L \/ chain = <<>> => NextOf(dk2)[x] = NextOf(dk)[x]
    <2>1. b \in Ent(dk2)
        BY DEF Ent, EntryKinds
    <2>2. \A x \in AllOn(dk) : x \in Ent(dk2)
        BY <1>3, <1>12 DEF Ent
    <2> QED
        BY <1>3, <1>12, <1>15, <2>1, <2>2
<1>17. ASSUME NEW d \in DirsOn(dk), NEW g \in Slots, d # p \/ g # h
       PROVE  /\ ChainOn(dk2, d, g) = ChainOn(dk, d, g)
              /\ Proper(ChainOn(dk2, d, g), dk2[d].table[g], NextOf(dk2))
    <2>1. ChainFits(dk, d, g)
        BY <1>4
    <2>2. \A x \in Range(ChainOn(dk, d, g)) : x \in AllOn(dk) /\ (x # L \/ chain = <<>>)
        <3> SUFFICES ASSUME NEW x \in Range(ChainOn(dk, d, g)) PROVE x \in AllOn(dk) /\ (x # L \/ chain = <<>>)
            OBVIOUS
        <3>1. x \in AllOn(dk) /\ dk[x].parent = d /\ HashOf[dk[x].name] = g
            BY <1>1, <1>2, <2>1 DEF ChainFits
        <3>2. chain # <<>> => dk[L].parent = p /\ HashOf[dk[L].name] = h
            <4>1. ChainFits(dk, p, h)
                BY <1>4
            <4> QED
                BY <1>7, <4>1 DEF ChainFits, chain
        <3> QED
            BY <1>17, <3>1, <3>2
    <2>3. Proper(ChainOn(dk, d, g), dk[d].table[g], NextOf(dk))
        BY <2>1 DEF ChainFits
    <2>4. dk2[d].table[g] = dk[d].table[g]
        BY <1>13, <1>17
    <2>5. Range(ChainOn(dk, d, g)) \subseteq DOMAIN NextOf(dk2)
        BY <1>15, <1>16, <2>2
    <2>6. Proper(ChainOn(dk, d, g), dk2[d].table[g], NextOf(dk2))
        BY <1>16, <2>2, <2>3, <2>4, <2>5, ProperSame
    <2>7. ChainOn(dk2, d, g) = ChainOn(dk, d, g)
        BY <1>15, <2>6, ProperIs DEF ChainOn
    <2> QED
        BY <2>6, <2>7
<1>18. /\ Range(ChainOn(dk2, p, h)) = Range(chain) \cup {b}
       /\ Proper(ChainOn(dk2, p, h), dk2[p].table[h], NextOf(dk2))
    <2>1. Proper(chain, dk[p].table[h], NextOf(dk))
        BY <1>4 DEF ChainFits, chain
    <2>2. \A x \in Range(chain) : x \in AllOn(dk)
        BY <1>1, <1>2 DEF chain
    <2>3. /\ b \notin Range(chain) /\ Range(chain) \subseteq DOMAIN NextOf(dk2) /\ b \in DOMAIN NextOf(dk2)
          /\ \A x \in Range(chain) : x # Last(chain) => NextOf(dk2)[x] = NextOf(dk)[x]
        <3>1. \A x \in Range(chain) : x # Last(chain) => NextOf(dk2)[x] = NextOf(dk)[x]
            BY <1>8, <1>16, <2>2
        <3> QED
            BY <1>6, <1>15, <1>16, <2>2, <3>1
    <2>4. chain # <<>> => NextOf(dk2)[Last(chain)] = b
        <3> SUFFICES ASSUME chain # <<>> PROVE NextOf(dk2)[Last(chain)] = b
            OBVIOUS
        <3>1. L = Last(chain) /\ L \in AllOn(dk)
            BY <1>8
        <3>2. dk[L] \in EntryType /\ L \in Ent(dk2)
            BY <1>3, <1>16, <3>1
        <3>3. dk2[L].next = b
            BY <1>11, <3>2 DEF EntryType
        <3> QED
            BY <1>15, <3>1, <3>2, <3>3
    <2>5. /\ Proper(Append(chain, b), IF chain = <<>> THEN b ELSE dk[p].table[h], NextOf(dk2))
          /\ Range(Append(chain, b)) = Range(chain) \cup {b}
        BY <1>16, <2>1, <2>3, <2>4, ProperAppend
    <2>6. dk2[p].table[h] = IF chain = <<>> THEN b ELSE dk[p].table[h]
        BY <1>13
    <2>7. Proper(Append(chain, b), dk2[p].table[h], NextOf(dk2))
        BY <2>5, <2>6
    <2>8. ChainOn(dk2, p, h) = Append(chain, b)
        <3>1. PICK e : e = Append(chain, b)
            OBVIOUS
        <3>2. Proper(e, dk2[p].table[h], NextOf(dk2))
            BY <2>7, <3>1
        <3>3. Walk(dk2[p].table[h], NextOf(dk2)) = e
            BY <1>15, <3>2, ProperIs
        <3> QED
            BY <3>1, <3>3 DEF ChainOn
    <2> QED
        BY <2>5, <2>7, <2>8
<1>19. ASSUME dk2[b].kind = "dir", NEW g \in Slots
       PROVE  /\ ChainOn(dk2, b, g) = <<>> /\ Range(ChainOn(dk2, b, g)) = {}
              /\ Proper(ChainOn(dk2, b, g), dk2[b].table[g], NextOf(dk2))
    <2>1. dk2[b].table[g] = 0
        BY DEF NoTable
    <2>2. Proper(<<>>, dk2[b].table[g], NextOf(dk2)) /\ Range(<<>>) = {}
        <3>1. <<>> \in Paths /\ Range(<<>>) = {} /\ Len(<<>>) = 0
            BY DEF Paths, IsInjective, Range
        <3> QED
            BY <2>1, <3>1 DEF Proper, Follows
    <2>3. ChainOn(dk2, b, g) = <<>>
        BY <1>15, <2>2, ProperIs DEF ChainOn
    <2> QED
        BY <2>2, <2>3
<1>20. \A d \in DirsOn(dk) : d # p => In(dk2, d) = In(dk, d)
    BY <1>17 DEF In
<1>21. In(dk2, p) = In(dk, p) \cup {b}
    <2>1. \A g \in Slots : g # h => ChainOn(dk2, p, g) = ChainOn(dk, p, g)
        BY <1>17
    <2> QED
        BY <1>18, <2>1 DEF In, chain
<1>22. dk2[b].kind = "dir" => In(dk2, b) = {}
    BY <1>19 DEF In
<1>23. DirsOn(dk2) = DirsOn(dk) \cup (IF dk2[b].kind = "dir" THEN {b} ELSE {})
    <2>1. In(dk2, RootBlock) = In(dk, RootBlock) \cup (IF p = RootBlock THEN {b} ELSE {})
        BY <1>1, <1>20, <1>21
    <2>2. \A x \in In(dk, RootBlock) : dk2[x].kind = dk[x].kind /\ x # b
        BY <1>1, <1>2, <1>6, <1>12
    <2> QED
        BY <2>1, <2>2 DEF DirsOn
<1>24. AllOn(dk2) = AllOn(dk) \cup {b}
    <2>1. \A x \in AllOn(dk2) : x \in AllOn(dk) \cup {b}
        <3> SUFFICES ASSUME NEW d \in DirsOn(dk2), NEW x \in In(dk2, d) PROVE x \in AllOn(dk) \cup {b}
            BY DEF AllOn
        <3>1. CASE d \in DirsOn(dk)
            BY <1>20, <1>21, <1>2, <3>1
        <3>2. CASE d \notin DirsOn(dk)
            BY <1>22, <1>23, <3>2
        <3> QED
            BY <3>1, <3>2
    <2>2. \A x \in AllOn(dk) : x \in AllOn(dk2)
        <3> SUFFICES ASSUME NEW d \in DirsOn(dk), NEW x \in In(dk, d) PROVE x \in AllOn(dk2)
            BY DEF AllOn
        <3>1. d \in DirsOn(dk2) /\ x \in In(dk2, d)
            BY <1>20, <1>21, <1>23
        <3> QED
            BY <3>1 DEF AllOn
    <2>3. b \in AllOn(dk2)
        <3>1. p \in DirsOn(dk2) /\ b \in In(dk2, p)
            BY <1>21, <1>23
        <3> QED
            BY <3>1 DEF AllOn
    <2> QED
        BY <2>1, <2>2, <2>3
<1>25. ASSUME NEW c \in AllOn(dk)
       PROVE  /\ OwnOn(dk2, c) = OwnOn(dk, c)
              /\ dk[c].kind = "file" => Proper(ExtOn(dk2, c), dk2[c].ext, ExtOf(dk2))
    <2>1. c \in Blocks /\ dk[c].kind \in EntryKinds /\ dk2[c].kind = dk[c].kind
        BY <1>3, <1>12
    <2>2. ASSUME dk[c].kind = "file"
          PROVE  /\ dk2[c].table = dk[c].table /\ dk2[c].ext = dk[c].ext
                 /\ Proper(ExtOn(dk, c), dk[c].ext, ExtOf(dk))
                 /\ \A e \in Range(ExtOn(dk, c)) : dk2[e] = dk[e]
        <3>1. Proper(ExtOn(dk, c), dk[c].ext, ExtOf(dk))
            BY <1>4, <2>2 DEF EntryFits
        <3>2. \A e \in Range(ExtOn(dk, c)) : e \in OwnOn(dk, c)
            BY <2>2 DEF OwnOn
        <3>3. \A e \in Range(ExtOn(dk, c)) : e \in Blocks /\ dk[e].kind = "ext"
            <4>1. DOMAIN ExtOf(dk) = {x \in Blocks : dk[x].kind = "ext"}
                BY DiskShape
            <4>2. Range(ExtOn(dk, c)) \subseteq DOMAIN ExtOf(dk)
                BY <3>1, <4>1, ProperIs
            <4> QED
                BY <4>1, <4>2
        <3>4. dk[L].kind # "ext"
            <4>1. L \in AllOn(dk) \/ L \in DirsOn(dk)
                BY <1>8, <1>10
            <4> QED
                BY <1>1, <1>3, <4>1 DEF EntryKinds
        <3>5. \A e \in Range(ExtOn(dk, c)) : e # b /\ e # L
            BY <3>2, <3>3, <3>4
        <3>6. \A e \in Range(ExtOn(dk, c)) : dk2[e] = dk[e]
            BY <1>9, <3>3, <3>5
        <3> QED
            BY <1>12, <2>2, <3>1, <3>6
    <2> QED
        BY <2>1, <2>2, OwnFrame
<1>26. OwnOn(dk2, b) = {b} /\ (dk2[b].kind = "file" => Proper(ExtOn(dk2, b), dk2[b].ext, ExtOf(dk2)))
    <2>1. Proper(<<>>, dk2[b].ext, ExtOf(dk2)) /\ Range(<<>>) = {}
        <3>1. <<>> \in Paths /\ Range(<<>>) = {} /\ Len(<<>>) = 0
            BY DEF Paths, IsInjective, Range
        <3> QED
            BY <3>1 DEF Proper, Follows
    <2>2. DOMAIN ExtOf(dk2) \subseteq Blocks
        BY DiskShape
    <2>3. ExtOn(dk2, b) = <<>>
        BY <2>1, <2>2, ProperIs DEF ExtOn
    <2>4. Held(dk2[b].table) = {}
        <3>1. NoTable \in Tables /\ \A i \in Slots : NoTable[i] = 0
            BY DEF NoTable, Tables, Pointers
        <3> QED
            BY <3>1, ListedIn
    <2>5. OwnOn(dk2, b) = {b}
        BY <2>1, <2>3, <2>4 DEF OwnOn
    <2> QED
        BY <2>1, <2>3, <2>5
<1>27. \A x \in AllOn(dk2) : EntryFits(dk2, x)
    <2>1. ASSUME NEW x \in AllOn(dk) PROVE EntryFits(dk2, x)
        <3>1. EntryFits(dk, x)
            BY <1>4
        <3>2. dk[x].kind = "file" => Proper(ExtOn(dk2, x), dk2[x].ext, ExtOf(dk2))
            BY <1>25
        <3> QED
            BY <1>12, <3>1, <3>2 DEF EntryFits
    <2>2. EntryFits(dk2, b)
        BY <1>26 DEF EntryFits
    <2> QED
        BY <1>24, <2>1, <2>2
<1>28. \A d \in DirsOn(dk2), g \in Slots : ChainFits(dk2, d, g)
    <2> SUFFICES ASSUME NEW d \in DirsOn(dk2), NEW g \in Slots PROVE ChainFits(dk2, d, g)
        OBVIOUS
    <2>1. CASE d \notin DirsOn(dk)
        <3>1. d = b /\ dk2[b].kind = "dir"
            BY <1>23, <2>1
        <3> QED
            BY <1>19, <3>1 DEF ChainFits
    <2>2. CASE d \in DirsOn(dk)
        <3>0. ChainFits(dk, d, g)
            BY <1>4, <2>2
        <3>1. \A x \in Range(ChainOn(dk, d, g)) : dk2[x].parent = d /\ HashOf[dk2[x].name] = g
            <4>1. \A x \in Range(ChainOn(dk, d, g)) : x \in AllOn(dk)
                BY <1>1, <1>2, <2>2
            <4> QED
                BY <1>12, <3>0, <4>1 DEF ChainFits
        <3>2. CASE d # p \/ g # h
            BY <1>17, <2>2, <3>1, <3>2 DEF ChainFits
        <3>3. CASE d = p /\ g = h
            BY <1>18, <3>1, <3>3 DEF ChainFits, chain
        <3> QED
            BY <3>2, <3>3
    <2> QED
        BY <2>1, <2>2
<1>29. \A d \in DirsOn(dk2) : \A x, y \in In(dk2, d) : dk2[x].name = dk2[y].name => x = y
    <2> SUFFICES ASSUME NEW d \in DirsOn(dk2), NEW x \in In(dk2, d), NEW y \in In(dk2, d),
                        dk2[x].name = dk2[y].name
                 PROVE  x = y
        OBVIOUS
    <2>1. d \in DirsOn(dk)
        BY <1>22, <1>23
    <2>2. \A z \in In(dk, d) : dk2[z].name = dk[z].name
        BY <1>2, <1>12, <2>1
    <2>3. CASE d # p
        BY <1>4, <1>20, <2>1, <2>2, <2>3
    <2>4. CASE d = p
        <3>1. \A z \in In(dk, p) : dk2[z].name = dk[z].name /\ dk[z].name # dk2[b].name
            BY <2>2, <2>4
        <3> QED
            BY <1>4, <1>21, <2>1, <2>4, <3>1
    <2> QED
        BY <2>3, <2>4
<1>30. \A x, y \in AllOn(dk2) : dk2[x].id = dk2[y].id => x = y
    <2>1. \A x \in AllOn(dk) : dk2[x].id = dk[x].id /\ dk[x].id # dk2[b].id
        BY <1>12
    <2> QED
        BY <1>4, <1>24, <2>1
<1>31. \A x, y \in AllOn(dk2) : x # y => OwnOn(dk2, x) \cap OwnOn(dk2, y) = {}
    <2>1. \A x \in AllOn(dk) : OwnOn(dk2, x) = OwnOn(dk, x) /\ b \notin OwnOn(dk, x)
        BY <1>25
    <2> QED
        BY <1>4, <1>24, <1>26, <2>1
<1>32. Tree(dk2)
    BY <1>14, <1>27, <1>28, <1>29, <1>30, <1>31 DEF Tree
<1> QED
    BY <1>12, <1>20, <1>21, <1>22, <1>23, <1>24, <1>25, <1>26, <1>32

-----------------------------------------------------------------------------
(* An entry is taken out *)

\* The disk without the k-th entry of a chain in that chain.
Bypassed(dk, d, h, k) ==
    LET chain == ChainOn(dk, d, h) IN
    IF k = 1 THEN [dk EXCEPT ![d].table[h] = dk[chain[1]].next]
    ELSE [dk EXCEPT ![chain[k - 1]].next = dk[chain[k]].next]

\* A disk that has lost an entry of a directory, and nothing else.
Without(dk2, dk, p, b) ==
    /\ dk2 \in Disks /\ Tree(dk2) /\ b \in AllOn(dk) /\ AllOn(dk2) = AllOn(dk) \ {b}
    /\ DirsOn(dk2) = DirsOn(dk) \ {b}
    /\ In(dk2, p) = In(dk, p) \ {b} /\ b \in In(dk, p)
    /\ \A d \in DirsOn(dk) : d # p => In(dk2, d) = In(dk, d)
    /\ \A c \in AllOn(dk) : c # b => OwnOn(dk2, c) = OwnOn(dk, c)
    /\ \A c \in AllOn(dk) : dk2[c].name = dk[c].name /\ dk2[c].id = dk[c].id

\* An entry that is no directory with entries is taken out of its chain.
LEMMA Unlinking ==
    ASSUME NEW dk \in Disks, Tree(dk), NEW p \in DirsOn(dk), NEW h \in Slots,
           NEW k \in 1 .. Len(ChainOn(dk, p, h)),
           LET b == ChainOn(dk, p, h)[k] IN dk[b].kind = "dir" => In(dk, b) = {}
    PROVE  Without(Bypassed(dk, p, h, k), dk, p, ChainOn(dk, p, h)[k])
<1> SUFFICES ASSUME NEW b, b = ChainOn(dk, p, h)[k], dk[b].kind = "dir" => In(dk, b) = {},
                    NEW dk2, dk2 = Bypassed(dk, p, h, k)
             PROVE  Without(dk2, dk, p, b)
    OBVIOUS
<1> DEFINE chain == ChainOn(dk, p, h)
           L == IF k = 1 THEN p ELSE chain[k - 1]
           N == dk[b].next
<1>1. /\ RootBlock \in DirsOn(dk)
      /\ RootBlock \notin AllOn(dk) /\ RootBlock + 1 \notin AllOn(dk)
      /\ \A d \in DirsOn(dk) : d # RootBlock => d \in AllOn(dk) /\ dk[d].kind = "dir"
      /\ \A d \in DirsOn(dk) : d \in Blocks /\ dk[d].table \in Tables /\ dk[d].kind \in {"root", "dir"}
      /\ \A d \in DirsOn(dk), g \in Slots :
            /\ ChainOn(dk, d, g) \in Paths
            /\ \A x \in Range(ChainOn(dk, d, g)) : x \in In(dk, d)
    BY TreeShape
<1>2. \A d \in DirsOn(dk) : \A x \in In(dk, d) :
        x \in AllOn(dk) /\ dk[x].parent = d
    BY TreeShape
<1>3. \A x \in AllOn(dk) :
          /\ x \in Blocks /\ x \in Ent(dk) /\ dk[x].kind \in EntryKinds /\ x \in OwnOn(dk, x)
          /\ dk[x].parent \in DirsOn(dk) /\ x \in In(dk, dk[x].parent) /\ dk[x] \in EntryType
    BY TreeShape
<1>4. /\ dk[RootBlock].kind = "root" /\ dk[RootBlock + 1].kind = "blank"
      /\ \A d \in DirsOn(dk), g \in Slots : ChainFits(dk, d, g)
      /\ \A x \in AllOn(dk) : EntryFits(dk, x)
      /\ \A d \in DirsOn(dk) : \A x, y \in In(dk, d) : dk[x].name = dk[y].name => x = y
      /\ \A x, y \in AllOn(dk) : dk[x].id = dk[y].id => x = y
      /\ \A x, y \in AllOn(dk) : x # y => OwnOn(dk, x) \cap OwnOn(dk, y) = {}
    BY DEF Tree
<1>5. RootBlock \in Blocks /\ RootBlock + 1 \in Blocks
    BY GeometryAssumption
<1>6. /\ chain \in Paths /\ Len(chain) \in Nat /\ DOMAIN chain = 1 .. Len(chain)
      /\ \A j \in 1 .. Len(chain) : chain[j] \in Range(chain)
      /\ \A i, j \in 1 .. Len(chain) : chain[i] = chain[j] => i = j
      /\ \A x \in Range(chain) : x \in AllOn(dk) /\ x \in In(dk, p)
      /\ ChainFits(dk, p, h)
    <2>1. chain \in Paths /\ \A x \in Range(chain) : x \in In(dk, p)
        BY <1>1
    <2>2. \A x \in Range(chain) : x \in AllOn(dk)
        BY <1>2, <2>1
    <2>3. ChainFits(dk, p, h)
        BY <1>4
    <2> HIDE DEF chain
    <2> QED
        BY <2>1, <2>2, <2>3, PathShape DEF IsInjective
<1>7. /\ b \in Range(chain) /\ b \in AllOn(dk) /\ b \in In(dk, p) /\ dk[b] \in EntryType /\ N \in Pointers
      /\ dk[b].parent = p /\ HashOf[dk[b].name] = h /\ p # b
    <2>1. b \in Range(chain) /\ b \in AllOn(dk) /\ b \in In(dk, p)
        BY <1>6
    <2>2. dk[b] \in EntryType /\ N \in Pointers
        BY <1>3, <2>1 DEF EntryType
    <2>3. dk[b].parent = p /\ HashOf[dk[b].name] = h
        BY <1>6, <2>1 DEF ChainFits
    <2>4. p # b
        <3> SUFFICES ASSUME p = b PROVE FALSE
            OBVIOUS
        <3>1. dk[b].kind = "dir"
            BY <1>1, <2>1
        <3>2. In(dk, p) = {}
            BY <3>1
        <3> QED
            BY <2>1, <3>2
    <2> QED
        BY <2>1, <2>2, <2>3, <2>4
<1>8. /\ k = 1 => dk2 = [dk EXCEPT ![p] = [dk[p] EXCEPT !.table = [dk[p].table EXCEPT ![h] = N]]]
      /\ k # 1 => dk2 = [dk EXCEPT ![chain[k - 1]] = [dk[chain[k - 1]] EXCEPT !.next = N]]
    BY DEF Bypassed
<1>9. k # 1 => L \in Range(chain) /\ L \in AllOn(dk) /\ L \in Blocks /\ L # b /\ k - 1 \in 1 .. Len(chain)
    <2>1. k # 1 => k - 1 \in 1 .. Len(chain) /\ k - 1 # k
        BY <1>6
    <2>2. k # 1 => chain[k - 1] \in Range(chain) /\ chain[k - 1] # b
        BY <1>6, <2>1
    <2> QED
        BY <1>3, <1>6, <2>1, <2>2
<1>10. k = 1 => L = p /\ L \in Blocks
    BY <1>1
<1> HIDE DEF N
<1>11. dk2 \in Disks
    <2>1. CASE k = 1
        <3>1. p \in Blocks /\ dk[p] \in RootType \cup EntryType /\ dk[p].table \in Tables
            <4>1. p \in Blocks /\ dk[p].kind \in {"root", "dir"} /\ dk[p].table \in Tables
                BY <1>1
            <4> QED
                BY <4>1, DiskShape, KindShape DEF EntryKinds
        <3>2. [dk[p].table EXCEPT ![h] = N] \in Tables
            BY <1>7, <3>1 DEF Tables
        <3>3. [dk[p] EXCEPT !.table = [dk[p].table EXCEPT ![h] = N]] \in RootType \cup EntryType
            BY <3>1, <3>2 DEF RootType, EntryType
        <3>4. [dk[p] EXCEPT !.table = [dk[p].table EXCEPT ![h] = N]] \in BlockType
            BY <3>3 DEF BlockType
        <3> QED
            BY <1>8, <2>1, <3>1, <3>4 DEF Disks
    <2>2. CASE k # 1
        <3>1. dk[L] \in EntryType
            BY <1>3, <1>9, <2>2
        <3>2. [dk[L] EXCEPT !.next = N] \in BlockType
            BY <1>7, <3>1 DEF EntryType, BlockType
        <3> QED
            BY <1>8, <1>9, <2>2, <3>2 DEF Disks
    <2> QED
        BY <2>1, <2>2
<1>12. \A x \in Blocks : x # L => dk2[x] = dk[x]
    BY <1>8 DEF Disks
<1>13. k = 1 => dk2[p] = [dk[p] EXCEPT !.table = [dk[p].table EXCEPT ![h] = N]]
    BY <1>1, <1>8 DEF Disks
<1>14. k # 1 => dk2[L] = [dk[L] EXCEPT !.next = N]
    BY <1>8, <1>9 DEF Disks
<1> HIDE DEF chain, L
<1>15. \A x \in AllOn(dk) : /\ dk2[x].kind = dk[x].kind /\ dk2[x].id = dk[x].id
                            /\ dk2[x].name = dk[x].name /\ dk2[x].parent = dk[x].parent
                            /\ dk2[x].ext = dk[x].ext
                            /\ dk[x].kind = "file" => dk2[x].table = dk[x].table
                            /\ x # L \/ k = 1 => dk2[x].next = dk[x].next
    <2> SUFFICES ASSUME NEW x \in AllOn(dk)
                 PROVE  /\ dk2[x].kind = dk[x].kind /\ dk2[x].id = dk[x].id
                        /\ dk2[x].name = dk[x].name /\ dk2[x].parent = dk[x].parent
                        /\ dk2[x].ext = dk[x].ext
                        /\ dk[x].kind = "file" => dk2[x].table = dk[x].table
                        /\ x # L \/ k = 1 => dk2[x].next = dk[x].next
        OBVIOUS
    <2>1. x \in Blocks /\ dk[x] \in EntryType
        BY <1>3
    <2>2. CASE x # L
        BY <1>12, <2>1, <2>2
    <2>3. CASE x = L /\ k # 1
        BY <1>14, <2>1, <2>3 DEF EntryType
    <2>4. CASE x = L /\ k = 1
        <3>1. x = p /\ dk[x].kind # "file"
            BY <1>1, <1>10, <2>4
        <3> QED
            BY <1>13, <2>1, <2>4, <3>1 DEF EntryType
    <2> QED
        BY <2>2, <2>3, <2>4
<1>16. ASSUME NEW d \in DirsOn(dk), NEW g \in Slots
       PROVE  dk2[d].table[g] = IF d = p /\ g = h /\ k = 1 THEN N ELSE dk[d].table[g]
    <2>1. d \in Blocks /\ dk[d].table \in Tables
        BY <1>1
    <2>2. CASE d # L
        BY <1>10, <1>12, <2>1, <2>2
    <2>3. CASE d = L /\ k # 1
        <3>1. dk[d] \in EntryType
            BY <1>3, <1>9, <2>3
        <3> QED
            BY <1>14, <2>3, <3>1 DEF EntryType
    <2>4. CASE d = L /\ k = 1
        <3>1. d = p /\ dk2[p] = [dk[p] EXCEPT !.table = [dk[p].table EXCEPT ![h] = N]]
            BY <1>10, <1>13, <2>4
        <3>2. dk[p] \in RootType \/ dk[p] \in EntryType
            <4>1. p \in Blocks /\ dk[p].kind \in {"root", "dir"}
                BY <1>1
            <4> QED
                BY <4>1, DiskShape, KindShape DEF EntryKinds
        <3>3. dk2[p].table = [dk[p].table EXCEPT ![h] = N]
            BY <3>1, <3>2 DEF RootType, EntryType
        <3> QED
            BY <2>1, <2>4, <3>1, <3>3 DEF Tables
    <2> QED
        BY <2>2, <2>3, <2>4
<1>17. dk2[RootBlock].kind = "root" /\ dk2[RootBlock + 1].kind = "blank"
    <2>1. RootBlock + 1 # L
        <3>1. p # RootBlock + 1
            BY <1>1, <1>4
        <3> QED
            BY <1>1, <1>9, <1>10, <3>1
    <2>2. CASE RootBlock # L
        BY <1>4, <1>5, <1>12, <2>1, <2>2
    <2>3. CASE RootBlock = L
        <3>1. k = 1 /\ dk2[RootBlock] = [dk[RootBlock] EXCEPT !.table = [dk[RootBlock].table EXCEPT ![h] = N]]
            BY <1>1, <1>9, <1>10, <1>13, <2>3
        <3>2. dk[RootBlock] \in RootType
            BY <1>4, <1>5, DiskShape, KindShape
        <3> QED
            BY <1>4, <1>5, <1>12, <2>1, <3>1, <3>2 DEF RootType
    <2> QED
        BY <2>2, <2>3
<1>18. /\ DOMAIN NextOf(dk2) \subseteq Blocks /\ DOMAIN NextOf(dk2) = Ent(dk2)
       /\ \A x \in Ent(dk2) : NextOf(dk2)[x] = dk2[x].next
       /\ \A x \in Ent(dk) : NextOf(dk)[x] = dk[x].next
    BY <1>11, DiskShape
<1>19. \A x \in AllOn(dk) : /\ x \in Ent(dk2)
                            /\ x # L \/ k = 1 => NextOf(dk2)[x] = NextOf(dk)[x]
    <2>1. \A x \in AllOn(dk) : x \in Ent(dk2)
        BY <1>3, <1>15 DEF Ent
    <2> QED
        BY <1>3, <1>15, <1>18, <2>1
<1>20. ASSUME NEW d \in DirsOn(dk), NEW g \in Slots, d # p \/ g # h
       PROVE  /\ ChainOn(dk2, d, g) = ChainOn(dk, d, g)
              /\ Proper(ChainOn(dk2, d, g), dk2[d].table[g], NextOf(dk2))
              /\ b \notin Range(ChainOn(dk, d, g))
    <2>1. ChainFits(dk, d, g)
        BY <1>4
    <2>2. \A x \in Range(ChainOn(dk, d, g)) : x \in AllOn(dk) /\ (x # L \/ k = 1) /\ x # b
        <3> SUFFICES ASSUME NEW x \in Range(ChainOn(dk, d, g)) PROVE x \in AllOn(dk) /\ (x # L \/ k = 1) /\ x # b
            OBVIOUS
        <3>1. x \in AllOn(dk) /\ dk[x].parent = d /\ HashOf[dk[x].name] = g
            BY <1>1, <1>2, <2>1 DEF ChainFits
        <3>2. k # 1 => dk[L].parent = p /\ HashOf[dk[L].name] = h
            BY <1>6, <1>9 DEF ChainFits, chain
        <3> QED
            BY <1>7, <1>20, <3>1, <3>2
    <2>3. Proper(ChainOn(dk, d, g), dk[d].table[g], NextOf(dk))
        BY <2>1 DEF ChainFits
    <2>4. dk2[d].table[g] = dk[d].table[g]
        BY <1>16, <1>20
    <2>5. Range(ChainOn(dk, d, g)) \subseteq DOMAIN NextOf(dk2)
        BY <1>18, <1>19, <2>2
    <2>6. Proper(ChainOn(dk, d, g), dk2[d].table[g], NextOf(dk2))
        BY <1>19, <2>2, <2>3, <2>4, <2>5, ProperSame
    <2>7. ChainOn(dk2, d, g) = ChainOn(dk, d, g)
        BY <1>18, <2>6, ProperIs DEF ChainOn
    <2> QED
        BY <2>2, <2>6, <2>7
<1>21. /\ Range(ChainOn(dk2, p, h)) = Range(chain) \ {b}
       /\ Proper(ChainOn(dk2, p, h), dk2[p].table[h], NextOf(dk2))
    <2>1. Proper(chain, dk[p].table[h], NextOf(dk))
        BY <1>6 DEF ChainFits, chain
    <2>2. \A j \in 1 .. Len(chain) : j # k => chain[j] \in DOMAIN NextOf(dk2)
        BY <1>6, <1>18, <1>19
    <2>3. \A j \in 1 .. Len(chain) : j # k /\ j # k - 1 => NextOf(dk2)[chain[j]] = NextOf(dk)[chain[j]]
        <3> SUFFICES ASSUME NEW j \in 1 .. Len(chain), j # k - 1
                     PROVE  NextOf(dk2)[chain[j]] = NextOf(dk)[chain[j]]
            OBVIOUS
        <3>1. k # 1 => chain[j] # L
            BY <1>6, <1>9 DEF L
        <3> QED
            BY <1>6, <1>19, <3>1
    <2>4. NextOf(dk)[b] = N /\ chain[k] = b
        BY <1>3, <1>7, <1>18 DEF N, chain
    <2>5. k > 1 => NextOf(dk2)[chain[k - 1]] = NextOf(dk)[chain[k]]
        <3> SUFFICES ASSUME k > 1 PROVE NextOf(dk2)[L] = N
            BY <2>4 DEF L
        <3>1. k # 1 /\ L \in AllOn(dk)
            BY <1>9
        <3>2. dk[L] \in EntryType /\ L \in Ent(dk2)
            BY <1>3, <1>19, <3>1
        <3>3. dk2[L].next = N
            BY <1>14, <3>1, <3>2 DEF EntryType
        <3> QED
            BY <1>18, <3>2, <3>3
    <2>6. k \in 1 .. Len(chain)
        BY DEF chain
    <2>7. PICK e \in Paths : Shortened(e, chain, k, dk[p].table[h], NextOf(dk), NextOf(dk2))
        <3>1. Skips(chain, k, NextOf(dk), NextOf(dk2))
            BY <2>2, <2>3, <2>5 DEF Skips
        <3> QED
            BY <2>1, <2>6, <3>1, ProperWithout, Zenon
    <2>8. dk2[p].table[h] = IF k = 1 THEN NextOf(dk)[chain[1]] ELSE dk[p].table[h]
        BY <1>16, <2>4
    <2>9. Proper(e, dk2[p].table[h], NextOf(dk2))
        BY <2>7, <2>8 DEF Shortened
    <2>10. ChainOn(dk2, p, h) = e
        BY <1>18, <2>9, ProperIs DEF ChainOn
    <2> QED
        BY <2>4, <2>7, <2>9, <2>10 DEF Shortened
<1>22. ASSUME NEW d \in DirsOn(dk), d # p PROVE In(dk2, d) = In(dk, d) /\ b \notin In(dk, d)
    BY <1>20, <1>22 DEF In
<1>23. In(dk2, p) = In(dk, p) \ {b}
    <2>1. \A g \in Slots : g # h => ChainOn(dk2, p, g) = ChainOn(dk, p, g) /\ b \notin Range(ChainOn(dk, p, g))
        BY <1>20
    <2>2. \A x : x \in In(dk2, p) <=> \E g \in Slots : x \in Range(ChainOn(dk2, p, g))
        BY DEF In
    <2>3. \A x : x \in In(dk, p) <=> \E g \in Slots : x \in Range(ChainOn(dk, p, g))
        BY DEF In
    <2> QED
        BY <1>21, <2>1, <2>2, <2>3 DEF chain
<1>24. DirsOn(dk2) = DirsOn(dk) \ {b}
    <2>1. In(dk2, RootBlock) = In(dk, RootBlock) \ {b}
        BY <1>1, <1>22, <1>23
    <2>2. \A x \in In(dk, RootBlock) : dk2[x].kind = dk[x].kind
        BY <1>1, <1>2, <1>15
    <2>3. b # RootBlock
        BY <1>1, <1>7
    <2> QED
        BY <2>1, <2>2, <2>3 DEF DirsOn
<1>25. AllOn(dk2) = AllOn(dk) \ {b}
    <2>1. \A x \in AllOn(dk2) : x \in AllOn(dk) \ {b}
        <3> SUFFICES ASSUME NEW d \in DirsOn(dk2), NEW x \in In(dk2, d) PROVE x \in AllOn(dk) \ {b}
            BY DEF AllOn
        <3>1. d \in DirsOn(dk)
            BY <1>24
        <3> QED
            BY <1>2, <1>22, <1>23, <3>1
    <2>2. \A x \in AllOn(dk) : x # b => x \in AllOn(dk2)
        <3> SUFFICES ASSUME NEW d \in DirsOn(dk), NEW x \in In(dk, d), x # b PROVE x \in AllOn(dk2)
            BY DEF AllOn
        <3>0. d # b
            <4> SUFFICES ASSUME d = b PROVE FALSE
                OBVIOUS
            <4>1. dk[b].kind = "dir"
                BY <1>1, <1>7
            <4>2. In(dk, d) = {}
                BY <4>1
            <4> QED
                BY <4>2
        <3>1. d \in DirsOn(dk2) /\ x \in In(dk2, d)
            BY <1>22, <1>23, <1>24, <3>0
        <3> QED
            BY <3>1 DEF AllOn
    <2> QED
        BY <2>1, <2>2
<1>26. ASSUME NEW c \in AllOn(dk)
       PROVE  /\ OwnOn(dk2, c) = OwnOn(dk, c)
              /\ dk[c].kind = "file" => Proper(ExtOn(dk2, c), dk2[c].ext, ExtOf(dk2))
    <2>1. c \in Blocks /\ dk[c].kind \in EntryKinds /\ dk2[c].kind = dk[c].kind
        BY <1>3, <1>15
    <2>2. ASSUME dk[c].kind = "file"
          PROVE  /\ dk2[c].table = dk[c].table /\ dk2[c].ext = dk[c].ext
                 /\ Proper(ExtOn(dk, c), dk[c].ext, ExtOf(dk))
                 /\ \A e \in Range(ExtOn(dk, c)) : dk2[e] = dk[e]
        <3>1. Proper(ExtOn(dk, c), dk[c].ext, ExtOf(dk))
            BY <1>4, <2>2 DEF EntryFits
        <3>3. \A e \in Range(ExtOn(dk, c)) : e \in Blocks /\ dk[e].kind = "ext"
            <4>1. DOMAIN ExtOf(dk) = {x \in Blocks : dk[x].kind = "ext"}
                BY DiskShape
            <4>2. Range(ExtOn(dk, c)) \subseteq DOMAIN ExtOf(dk)
                BY <3>1, <4>1, ProperIs
            <4> QED
                BY <4>1, <4>2
        <3>4. dk[L].kind # "ext"
            <4>1. L \in AllOn(dk) \/ L \in DirsOn(dk)
                BY <1>9, <1>10
            <4> QED
                BY <1>1, <1>3, <4>1 DEF EntryKinds
        <3>5. \A e \in Range(ExtOn(dk, c)) : e # L
            BY <3>3, <3>4
        <3>6. \A e \in Range(ExtOn(dk, c)) : dk2[e] = dk[e]
            BY <1>12, <3>3, <3>5
        <3> QED
            BY <1>15, <2>2, <3>1, <3>6
    <2> QED
        BY <1>11, <2>1, <2>2, OwnFrame
<1>27. \A x \in AllOn(dk2) : EntryFits(dk2, x)
    <2> SUFFICES ASSUME NEW x \in AllOn(dk) PROVE EntryFits(dk2, x)
        BY <1>25
    <2>1. EntryFits(dk, x)
        BY <1>4
    <2>2. dk[x].kind = "file" => Proper(ExtOn(dk2, x), dk2[x].ext, ExtOf(dk2))
        BY <1>26
    <2> QED
        BY <1>15, <2>1, <2>2 DEF EntryFits
<1>28. \A d \in DirsOn(dk2), g \in Slots : ChainFits(dk2, d, g)
    <2> SUFFICES ASSUME NEW d \in DirsOn(dk), NEW g \in Slots PROVE ChainFits(dk2, d, g)
        BY <1>24
    <2>0. ChainFits(dk, d, g)
        BY <1>4
    <2>1. \A x \in Range(ChainOn(dk, d, g)) : dk2[x].parent = d /\ HashOf[dk2[x].name] = g
        <3>1. \A x \in Range(ChainOn(dk, d, g)) : x \in AllOn(dk)
            BY <1>1, <1>2
        <3> QED
            BY <1>15, <2>0, <3>1 DEF ChainFits
    <2>2. CASE d # p \/ g # h
        BY <1>20, <2>1, <2>2 DEF ChainFits
    <2>3. CASE d = p /\ g = h
        BY <1>21, <2>1, <2>3 DEF ChainFits, chain
    <2> QED
        BY <2>2, <2>3
<1>29. \A d \in DirsOn(dk2) : \A x, y \in In(dk2, d) : dk2[x].name = dk2[y].name => x = y
    <2> SUFFICES ASSUME NEW d \in DirsOn(dk), NEW x \in In(dk2, d), NEW y \in In(dk2, d),
                        dk2[x].name = dk2[y].name
                 PROVE  x = y
        BY <1>24
    <2>1. x \in In(dk, d) /\ y \in In(dk, d)
        BY <1>22, <1>23
    <2>2. dk2[x].name = dk[x].name /\ dk2[y].name = dk[y].name
        BY <1>2, <1>15, <2>1
    <2> QED
        BY <1>4, <2>1, <2>2
<1>30. \A x, y \in AllOn(dk2) : dk2[x].id = dk2[y].id => x = y
    BY <1>4, <1>15, <1>25
<1>31. \A x, y \in AllOn(dk2) : x # y => OwnOn(dk2, x) \cap OwnOn(dk2, y) = {}
    BY <1>4, <1>25, <1>26
<1>32. Tree(dk2)
    BY <1>17, <1>27, <1>28, <1>29, <1>30, <1>31 DEF Tree
<1> QED
    BY <1>7, <1>11, <1>15, <1>22, <1>23, <1>24, <1>25, <1>26, <1>32 DEF Without

-----------------------------------------------------------------------------
(* Blocks are taken *)

\* Lowest takes different blocks of a set, as many as asked for.
LEMMA LowestShape ==
    ASSUME NEW S \in SUBSET Blocks, NEW n \in Nat, n <= Cardinality(S)
    PROVE  /\ DOMAIN Lowest(S, n) = 1 .. n
           /\ \A j \in 1 .. n : Lowest(S, n)[j] \in S
           /\ \A i, j \in 1 .. n : Lowest(S, n)[i] = Lowest(S, n)[j] => i = j
           /\ Lowest(S, n) \in [1 .. n -> Blocks] /\ Range(Lowest(S, n)) \subseteq S
<1> DEFINE below == [x \in S |-> {c \in S : c < x}]
<1>1. IsFiniteSet(S) /\ \A x \in S : x \in Nat
    BY BlocksShape, FS_Subset
<1>2. below \in [S -> SUBSET S]
    OBVIOUS
<1>3. \A x \in S : x \notin below[x]
    BY <1>1
<1>4. \A x, y \in S : x \in below[y] => below[x] \subseteq below[y]
    BY <1>1
<1>5. \A x, y \in S : x # y => x \in below[y] \/ y \in below[x]
    BY <1>1
<1>6. \A x \in S : below[x] = {c \in S : c < x}
    OBVIOUS
<1> HIDE DEF below
<1>7. /\ Cardinality(S) \in Nat
      /\ \A k \in 0 .. Cardinality(S) - 1 : \E x \in S : Cardinality(below[x]) = k
      /\ \A x, y \in S : Cardinality(below[x]) = Cardinality(below[y]) => x = y
    BY <1>1, <1>2, <1>3, <1>4, <1>5, Ranks
<1> DEFINE a == Lowest(S, n)
<1>8. ASSUME NEW j \in 1 .. n PROVE a[j] \in S /\ Cardinality(below[a[j]]) = j - 1
    <2>1. j - 1 \in 0 .. Cardinality(S) - 1
        BY <1>7
    <2>2. PICK x \in S : Cardinality(below[x]) = j - 1
        BY <1>7, <2>1
    <2>3. Cardinality({c \in S : c < x}) = j - 1
        BY <1>6, <2>2
    <2>4. a[j] = CHOOSE b \in S : Cardinality({c \in S : c < b}) = j - 1
        BY DEF Lowest
    <2>5. a[j] \in S /\ Cardinality({c \in S : c < a[j]}) = j - 1
        BY <2>3, <2>4
    <2> QED
        BY <1>6, <2>5
<1>9. a = [j \in 1 .. n |-> a[j]]
    <2> DEFINE F(j) == CHOOSE b \in S : Cardinality({c \in S : c < b}) = j - 1
    <2>1. a = [j \in 1 .. n |-> F(j)]
        BY DEF Lowest
    <2> HIDE DEF F, a
    <2> QED
        BY <2>1
<1> HIDE DEF a
<1>10. \A i, j \in 1 .. n : a[i] = a[j] => i = j
    <2> SUFFICES ASSUME NEW i \in 1 .. n, NEW j \in 1 .. n, a[i] = a[j] PROVE i = j
        OBVIOUS
    <2>1. Cardinality(below[a[i]]) = i - 1 /\ Cardinality(below[a[j]]) = j - 1
        BY <1>8
    <2>2. i - 1 = j - 1
        BY <2>1
    <2> QED
        BY <2>2
<1>11. DOMAIN a = 1 .. n
    BY <1>9
<1>12. Range(a) \subseteq S
    BY <1>8, <1>11 DEF Range
<1>13. a \in [1 .. n -> Blocks]
    <2>1. \A j \in 1 .. n : a[j] \in Blocks
        BY <1>8
    <2> QED
        BY <1>9, <2>1
<1> QED
    BY <1>8, <1>10, <1>11, <1>12, <1>13 DEF a

\* blockSingleUnused finds a free block when there is one.
LEMMA NewBlockShape ==
    ASSUME free \subseteq Blocks, free # {}
    PROVE  NewBlock \in free
<1>1. IsFiniteSet(free) /\ Cardinality(free) \in Nat
    BY BlocksShape, FS_Subset, FS_CardinalityType
<1>2. Cardinality(free) # 0
    BY <1>1, FS_EmptySet
<1>3. 1 <= Cardinality(free) /\ 1 \in 1 .. 1
    BY <1>1, <1>2
<1> QED
    BY <1>3, LowestShape DEF NewBlock

\* Multiples keep the order.
LEMMA Multiples ==
    ASSUME NEW w \in Nat \ {0}, NEW i \in Nat, NEW j \in Nat
    PROVE  /\ i * w \in Nat /\ (i <= j => i * w <= j * w) /\ (i < j => i * w + w <= j * w)
<1>1. i * w \in Nat
    OBVIOUS
<1>2. ASSUME i <= j PROVE i * w <= j * w
    <2>1. PICK k \in Nat : j = i + k
        <3>1. j - i \in Nat /\ j = i + (j - i)
            BY <1>2
        <3> QED
            BY <3>1
    <2>2. j * w = i * w + k * w /\ k * w \in Nat /\ i * w \in Nat
        BY <2>1
    <2> QED
        BY <2>2
<1>3. ASSUME i < j PROVE i * w + w <= j * w
    <2>1. PICK k \in Nat : j = i + 1 + k
        <3>1. j - i - 1 \in Nat /\ j = i + 1 + (j - i - 1)
            BY <1>3
        <3> QED
            BY <3>1
    <2>2. j * w = i * w + w + k * w /\ k * w \in Nat /\ i * w \in Nat
        BY <2>1
    <2> QED
        BY <2>2
<1> QED
    BY <1>1, <1>2, <1>3

\* The pieces and the extensions of a file take different blocks.
LEMMA PieceOrder ==
    ASSUME NEW n \in Nat, n > 0
    PROVE  /\ MoreTables(n) \in Nat /\ Needed(n) \in Nat
           /\ \A j \in 1 .. n : DataAt(j) \in 1 .. Needed(n)
           /\ \A k \in 1 .. MoreTables(n) : ExtAt(k) \in 1 .. Needed(n)
           /\ \A j \in 1 .. n, k \in 1 .. MoreTables(n) : DataAt(j) # ExtAt(k)
           /\ \A k, l \in 1 .. MoreTables(n) : ExtAt(k) = ExtAt(l) => k = l
           /\ \A i, j \in 1 .. n : DataAt(i) = DataAt(j) => i = j
<1> DEFINE T == TableSize
           W == T + 2
           M == MoreTables(n)
<1>1. T \in Nat \ {0} /\ W \in Nat \ {0}
    BY GeometryAssumption
<1>2. \A i \in Nat : i \div T \in Nat /\ (i \div T) * T <= i /\ i < (i \div T) * T + T
    <2> SUFFICES ASSUME NEW i \in Nat
                 PROVE  i \div T \in Nat /\ (i \div T) * T <= i /\ i < (i \div T) * T + T
        OBVIOUS
    <2>1. i \div T \in Int /\ i % T \in 0 .. T - 1 /\ i = T * (i \div T) + (i % T)
        BY <1>1
    <2>2. i \div T \in Nat
        BY <1>1
    <2> QED
        BY <1>1, <2>1, <2>2
<1>3. M = (n - 1) \div T /\ n - 1 \in Nat
    BY DEF MoreTables
<1>4. M \in Nat /\ M * T <= n - 1 /\ M * W = M * T + 2 * M /\ n - 1 < M * T + T
    BY <1>1, <1>2, <1>3
<1>5. Needed(n) = n + 2 * M
    BY DEF Needed
<1> HIDE DEF M
<1>6. ASSUME NEW j \in 1 .. n
      PROVE  \E q \in Nat : /\ DataAt(j) = j + 2 * q /\ q <= M
                            /\ q * W <= DataAt(j) - 1 /\ DataAt(j) < q * W + W
    <2>1. PICK q : q = (j - 1) \div T
        OBVIOUS
    <2>2. j - 1 \in Nat /\ j \in Nat
        OBVIOUS
    <2>3. q \in Nat /\ q * T <= j - 1 /\ j - 1 < q * T + T
        BY <1>2, <2>1, <2>2
    <2>4. DataAt(j) = j + 2 * q
        BY <2>1 DEF DataAt
    <2>5. q * W = q * T + 2 * q /\ q * T \in Nat
        BY <1>1, <2>3
    <2>6. q <= M
        <3> SUFFICES ASSUME M < q PROVE FALSE
            BY <1>4, <2>3
        <3>1. M * T + T <= q * T
            BY <1>1, <1>4, <2>3, Multiples
        <3>2. M * T \in Nat /\ q * T \in Nat
            BY <1>1, <1>4, <2>3
        <3> QED
            BY <1>1, <1>4, <2>2, <2>3, <3>1, <3>2
    <2>7. q * W <= DataAt(j) - 1 /\ DataAt(j) < q * W + W
        BY <1>1, <2>2, <2>3, <2>4, <2>5
    <2> QED
        BY <2>3, <2>4, <2>6, <2>7
<1>7. \A j \in 1 .. n : DataAt(j) \in 1 .. Needed(n)
    <2> SUFFICES ASSUME NEW j \in 1 .. n PROVE DataAt(j) \in 1 .. Needed(n)
        OBVIOUS
    <2>1. PICK q \in Nat : DataAt(j) = j + 2 * q /\ q <= M
        BY <1>6
    <2> QED
        BY <1>4, <1>5, <2>1
<1>8. \A k \in 1 .. M : ExtAt(k) = k * W /\ k * W \in Nat /\ W <= k * W /\ k * W <= M * W
    <2> SUFFICES ASSUME NEW k \in 1 .. M PROVE ExtAt(k) = k * W /\ k * W \in Nat /\ W <= k * W /\ k * W <= M * W
        OBVIOUS
    <2>1. k \in Nat /\ 0 < k /\ k <= M /\ 0 \in Nat /\ 0 * W = 0
        BY <1>1, <1>4
    <2>2. 0 * W + W <= k * W /\ k * W \in Nat /\ k * W <= M * W
        BY <1>1, <1>4, <2>1, Multiples
    <2> QED
        BY <1>1, <2>1, <2>2 DEF ExtAt
<1>9. \A k \in 1 .. M : ExtAt(k) \in 1 .. Needed(n)
    <2> SUFFICES ASSUME NEW k \in 1 .. M PROVE ExtAt(k) \in 1 .. Needed(n)
        OBVIOUS
    <2>1. ExtAt(k) \in Nat /\ W <= ExtAt(k) /\ ExtAt(k) <= M * W
        BY <1>8
    <2>2. M * T \in Nat
        BY <1>1, <1>4
    <2> QED
        BY <1>1, <1>4, <1>5, <2>1, <2>2
<1>10. \A j \in 1 .. n, k \in 1 .. M : DataAt(j) # ExtAt(k)
    <2> SUFFICES ASSUME NEW j \in 1 .. n, NEW k \in 1 .. M, DataAt(j) = ExtAt(k) PROVE FALSE
        OBVIOUS
    <2>1. PICK q \in Nat : q * W <= DataAt(j) - 1 /\ DataAt(j) < q * W + W
        BY <1>6
    <2>2. k \in Nat /\ ExtAt(k) = k * W /\ k * W \in Nat /\ q * W \in Nat
        BY <1>1, <1>4, <1>8, <2>1
    <2>3. k <= q => k * W <= q * W
        BY <1>1, <2>1, <2>2, Multiples
    <2>4. q < k => q * W + W <= k * W
        BY <1>1, <2>1, <2>2, Multiples
    <2> HIDE DEF W
    <2> QED
        BY <1>1, <2>1, <2>2, <2>3, <2>4
<1>11. \A k, l \in 1 .. M : ExtAt(k) = ExtAt(l) => k = l
    <2> SUFFICES ASSUME NEW k \in 1 .. M, NEW l \in 1 .. M, ExtAt(k) = ExtAt(l) PROVE k = l
        OBVIOUS
    <2>1. k \in Nat /\ l \in Nat /\ k * W = l * W /\ k * W \in Nat /\ l * W \in Nat
        BY <1>4, <1>8
    <2>2. (k < l => k * W + W <= l * W) /\ (l < k => l * W + W <= k * W)
        BY <1>1, <2>1, Multiples
    <2> HIDE DEF W
    <2> QED
        BY <1>1, <2>1, <2>2
<1>12. Needed(n) \in Nat
    BY <1>4, <1>5
<1>13. \A i, j \in 1 .. n : i < j => DataAt(i) < DataAt(j)
    <2> SUFFICES ASSUME NEW i \in 1 .. n, NEW j \in 1 .. n, i < j PROVE DataAt(i) < DataAt(j)
        OBVIOUS
    <2>1. PICK p : p = (i - 1) \div T
        OBVIOUS
    <2>2. PICK q : q = (j - 1) \div T
        OBVIOUS
    <2>3. i - 1 \in Nat /\ j - 1 \in Nat /\ i - 1 < j - 1
        OBVIOUS
    <2>4. p \in Nat /\ p * T <= i - 1 /\ q \in Nat /\ j - 1 < q * T + T
        BY <1>2, <2>1, <2>2, <2>3
    <2>5. p <= q
        <3> SUFFICES ASSUME q < p PROVE FALSE
            BY <2>4
        <3>1. q * T + T <= p * T /\ p * T \in Nat /\ q * T \in Nat
            BY <1>1, <2>4, Multiples
        <3> HIDE DEF T
        <3> QED
            BY <1>1, <2>3, <2>4, <3>1
    <2>6. DataAt(i) = i + 2 * p /\ DataAt(j) = j + 2 * q
        BY <2>1, <2>2 DEF DataAt
    <2> QED
        BY <2>4, <2>5, <2>6
<1>14. \A i, j \in 1 .. n : DataAt(i) = DataAt(j) => i = j
    <2> SUFFICES ASSUME NEW i \in 1 .. n, NEW j \in 1 .. n, DataAt(i) = DataAt(j) PROVE i = j
        OBVIOUS
    <2>1. ~(i < j) /\ ~(j < i)
        <3>1. DataAt(i) \in Nat /\ DataAt(j) \in Nat
            BY <1>7
        <3> QED
            BY <1>13, <3>1
    <2> QED
        BY <2>1
<1> QED
    BY <1>4, <1>7, <1>9, <1>10, <1>11, <1>12, <1>14 DEF M

\* The piece of a slot of a table.
LEMMA TablePiece ==
    ASSUME NEW n \in Nat, NEW k \in Nat, NEW i \in Slots, (k + 1) * TableSize - i <= n
    PROVE  (k + 1) * TableSize - i \in 1 .. n
<1>1. TableSize \in Nat \ {0} /\ i \in 0 .. TableSize - 1
    BY GeometryAssumption DEF Slots
<1>2. PICK q \in Nat : q = k * TableSize
    BY <1>1
<1>3. (k + 1) * TableSize = k * TableSize + TableSize
    BY <1>1
<1>4. PICK p : p = (k + 1) * TableSize
    OBVIOUS
<1>5. p = q + TableSize
    BY <1>2, <1>3, <1>4
<1>6. p - i <= n
    BY <1>4
<1>7. p - i \in 1 .. n
    BY <1>1, <1>2, <1>5, <1>6
<1> QED
    BY <1>4, <1>7

\* Blocks taken one after the other.
Taking(a, m) == a \in [1 .. m -> Blocks] /\ \A i, j \in 1 .. m : a[i] = a[j] => i = j

\* A disk on which the header leads to some of the blocks taken, and all others
\* are what they were.
Leads(dk, before, header, block, A) ==
    /\ dk \in Disks
    /\ \A x \in Blocks : x # block /\ x \notin A => dk[x] = before[x]
    /\ \A f \in {"kind", "id", "name", "next", "parent"} : dk[block][f] = header[f]
    /\ Proper(ExtOn(dk, block), dk[block].ext, ExtOf(dk))
    /\ OwnOn(dk, block) \subseteq {block} \cup A

\* A disk on which a file's tables list the blocks of its pieces.
Bears(dk, block, a, content) ==
    /\ dk[block].kind = "file" /\ dk[block].size = Len(content)
    /\ dk[block].table = TableFor(a, 0, Len(content))
    /\ Len(ExtOn(dk, block)) = MoreTables(Len(content))
    /\ \A k \in 1 .. MoreTables(Len(content)) :
          dk[ExtOn(dk, block)[k]].table = TableFor(a, k, Len(content))
    /\ \A j \in 1 .. Len(content) : dk[a[DataAt(j)]] = Data(content[j])

\* What is written of a file.
LEMMA WrittenShape ==
    ASSUME NEW before \in Disks, NEW header \in EntryType, header.kind = "file", NEW block \in Blocks,
           NEW content \in Content, content # <<>>,
           NEW a, Taking(a, Needed(Len(content))), block \notin Range(a)
    PROVE  /\ Leads(Written(before, header, block, a, content), before, header, block, Range(a))
           /\ Bears(Written(before, header, block, a, content), block, a, content)
<1> DEFINE n == Len(content)
           M == MoreTables(n)
           dk == Written(before, header, block, a, content)
           data == {DataAt(j) : j \in 1 .. n}
           exts == {ExtAt(k) : k \in 1 .. M}
           at(b) == CHOOSE p \in data \cup exts : a[p] = b
           pieceAt(p) == content[CHOOSE j \in 1 .. n : DataAt(j) = p]
           tableAt(p) == CHOOSE k \in 1 .. M : ExtAt(k) = p
           new(b) == IF b = block
                     THEN [header EXCEPT !.table = TableFor(a, 0, n), !.ext = NextTable(a, 0, n), !.size = n]
                     ELSE IF b \in {a[p] : p \in data} THEN Data(pieceAt(at(b)))
                     ELSE IF b \in {a[p] : p \in exts}
                     THEN Extension(TableFor(a, tableAt(at(b)), n), NextTable(a, tableAt(at(b)), n))
                     ELSE before[b]
<1>1. n \in Nat /\ n > 0 /\ content \in Seq(Files \X Nat \X Nat) /\ \A j \in 1 .. n : content[j] \in Files \X Nat \X Nat
    BY EmptySeq DEF Content
<1>2. dk = [b \in Blocks |-> new(b)]
    BY DEF Written
<1> HIDE DEF n
<1>3. /\ M \in Nat /\ Needed(n) \in Nat
      /\ \A j \in 1 .. n : DataAt(j) \in 1 .. Needed(n)
      /\ \A k \in 1 .. M : ExtAt(k) \in 1 .. Needed(n)
      /\ \A j \in 1 .. n, k \in 1 .. M : DataAt(j) # ExtAt(k)
      /\ \A k, l \in 1 .. M : ExtAt(k) = ExtAt(l) => k = l
      /\ \A i, j \in 1 .. n : DataAt(i) = DataAt(j) => i = j
    BY <1>1, PieceOrder
<1>4. /\ a \in [1 .. Needed(n) -> Blocks] /\ DOMAIN a = 1 .. Needed(n)
      /\ \A i, j \in 1 .. Needed(n) : a[i] = a[j] => i = j
      /\ \A i \in 1 .. Needed(n) : a[i] \in Blocks /\ a[i] \in Range(a) /\ a[i] # block
    BY DEF n, Range, Taking
<1> HIDE DEF M
<1>5. \A p \in data \cup exts : p \in 1 .. Needed(n)
    BY <1>3
<1>6. ASSUME NEW p \in data \cup exts PROVE at(a[p]) = p
    <2>1. \A q \in data \cup exts : a[q] = a[p] => q = p
        BY <1>4, <1>5
    <2> HIDE DEF data, exts
    <2> QED
        BY <2>1
<1>7. ASSUME NEW k \in Nat PROVE TableFor(a, k, n) \in Tables /\ Held(TableFor(a, k, n)) \subseteq Range(a)
    <2>1. ASSUME NEW i \in Slots, (k + 1) * TableSize - i <= n
          PROVE  (k + 1) * TableSize - i \in 1 .. n
        BY <1>1, <2>1, TablePiece
    <2>2. ASSUME NEW i \in Slots
          PROVE  TableFor(a, k, n)[i] = 0 \/ (TableFor(a, k, n)[i] \in Blocks /\ TableFor(a, k, n)[i] \in Range(a))
        <3>1. TableFor(a, k, n)[i] = IF (k + 1) * TableSize - i <= n THEN a[DataAt((k + 1) * TableSize - i)] ELSE 0
            BY DEF TableFor
        <3>2. CASE (k + 1) * TableSize - i <= n
            BY <1>3, <1>4, <2>1, <3>1, <3>2
        <3>3. CASE ~((k + 1) * TableSize - i <= n)
            BY <3>1, <3>3
        <3> QED
            BY <3>2, <3>3
    <2>3. TableFor(a, k, n) = [i \in Slots |-> TableFor(a, k, n)[i]]
        BY DEF TableFor
    <2>4. TableFor(a, k, n) \in Tables
        BY <2>2, <2>3 DEF Tables, Pointers
    <2> HIDE DEF data, exts
    <2> QED
        BY <2>2, <2>4 DEF Held
<1>8. ASSUME NEW k \in Nat PROVE NextTable(a, k, n) \in Pointers
    <2>1. CASE k < MoreTables(n)
        <3>1. k + 1 \in 1 .. M
            BY <1>3, <2>1 DEF M
        <3> QED
            BY <1>3, <1>4, <2>1, <3>1 DEF NextTable, Pointers
    <2>2. CASE ~(k < MoreTables(n))
        BY <2>2 DEF NextTable, Pointers
    <2> QED
        BY <2>1, <2>2
<1>9. dk[block] = [header EXCEPT !.table = TableFor(a, 0, n), !.ext = NextTable(a, 0, n), !.size = n]
    BY <1>2
<1>10. ASSUME NEW j \in 1 .. n
       PROVE  dk[a[DataAt(j)]] \in DataType /\ dk[a[DataAt(j)]] = Data(content[j])
    <2>1. DataAt(j) \in data /\ a[DataAt(j)] \in Blocks /\ a[DataAt(j)] # block
        BY <1>3, <1>4
    <2>2. dk[a[DataAt(j)]] = Data(pieceAt(at(a[DataAt(j)])))
        BY <1>2, <2>1
    <2>3. at(a[DataAt(j)]) = DataAt(j)
        BY <1>6, <2>1
    <2>4. pieceAt(DataAt(j)) = content[j] /\ content[j] \in Files \X Nat \X Nat
        <3>1. (CHOOSE i \in 1 .. n : DataAt(i) = DataAt(j)) = j
            BY <1>3
        <3>2. pieceAt(DataAt(j)) = content[CHOOSE i \in 1 .. n : DataAt(i) = DataAt(j)]
            OBVIOUS
        <3>3. content[j] \in Files \X Nat \X Nat
            BY <1>1
        <3> HIDE DEF pieceAt
        <3> QED
            BY <3>1, <3>2, <3>3
    <2>5. Data(pieceAt(DataAt(j))) \in DataType
        BY <2>4 DEF Data, DataType
    <2> HIDE DEF at, pieceAt, dk
    <2> QED
        BY <2>2, <2>3, <2>4, <2>5, Zenon
<1>11. ASSUME NEW k \in 1 .. M
       PROVE  dk[a[ExtAt(k)]] = Extension(TableFor(a, k, n), NextTable(a, k, n))
    <2>1. ExtAt(k) \in exts /\ a[ExtAt(k)] \in Blocks /\ a[ExtAt(k)] # block /\ a[ExtAt(k)] \in {a[p] : p \in exts}
        BY <1>3, <1>4
    <2>2. a[ExtAt(k)] \notin {a[p] : p \in data}
        <3> SUFFICES ASSUME NEW j \in 1 .. n, a[ExtAt(k)] = a[DataAt(j)] PROVE FALSE
            OBVIOUS
        <3> QED
            BY <1>3, <1>4
    <2>3. at(a[ExtAt(k)]) = ExtAt(k)
        BY <1>6, <2>1
    <2>4. tableAt(ExtAt(k)) = k
        BY <1>3
    <2>5. dk[a[ExtAt(k)]] = Extension(TableFor(a, tableAt(at(a[ExtAt(k)])), n), NextTable(a, tableAt(at(a[ExtAt(k)])), n))
        <3> HIDE DEF at, tableAt, data, exts, pieceAt
        <3> QED
            BY <1>2, <2>1, <2>2
    <2> QED
        BY <2>3, <2>4, <2>5
<1>12. \A x \in Blocks : x # block /\ x \notin Range(a) => dk[x] = before[x]
    <2> SUFFICES ASSUME NEW x \in Blocks, x # block, x \notin Range(a) PROVE dk[x] = before[x]
        OBVIOUS
    <2>1. x \notin {a[p] : p \in data} /\ x \notin {a[p] : p \in exts}
        BY <1>4, <1>5
    <2> HIDE DEF at, tableAt, data, exts, pieceAt
    <2> QED
        BY <1>2, <2>1
<1> HIDE DEF at, tableAt, pieceAt
<1>13. ASSUME NEW x \in Blocks PROVE dk[x] \in BlockType
    <2>1. CASE x = block
        <3>1. TableFor(a, 0, n) \in Tables /\ NextTable(a, 0, n) \in Pointers
            BY <1>7, <1>8
        <3> QED
            BY <1>1, <1>9, <2>1, <3>1 DEF EntryType, BlockType
    <2>2. CASE x # block /\ x \in {a[p] : p \in data}
        <3>1. PICK j \in 1 .. n : x = a[DataAt(j)]
            BY <2>2
        <3> QED
            BY <1>10, <3>1 DEF BlockType
    <2>3. CASE x # block /\ x \in {a[p] : p \in exts}
        <3>1. PICK k \in 1 .. M : x = a[ExtAt(k)]
            BY <2>3
        <3>2. k \in Nat
            BY <1>3
        <3>3. TableFor(a, k, n) \in Tables /\ NextTable(a, k, n) \in Pointers
            BY <1>7, <1>8, <3>2
        <3>4. dk[x] = Extension(TableFor(a, k, n), NextTable(a, k, n))
            BY <1>11, <3>1
        <3> QED
            BY <3>3, <3>4 DEF Extension, ExtType, BlockType
    <2>4. CASE x # block /\ x \notin {a[p] : p \in data} /\ x \notin {a[p] : p \in exts}
        <3>1. dk[x] = before[x]
            BY <1>2, <2>4
        <3> QED
            BY <3>1 DEF Disks
    <2> QED
        BY <2>1, <2>2, <2>3, <2>4
<1>14. dk \in Disks
    BY <1>2, <1>13 DEF Disks
<1> HIDE DEF dk, data, exts
<1>15. PICK e : e = [k \in 1 .. M |-> a[ExtAt(k)]]
    OBVIOUS
<1>16. e \in Paths /\ Len(e) = M /\ DOMAIN e = 1 .. M /\ \A k \in 1 .. M : e[k] = a[ExtAt(k)]
    <2>1. \A k \in 1 .. M : a[ExtAt(k)] \in Blocks
        BY <1>3, <1>4
    <2>2. e \in Seq(Blocks) /\ Len(e) = M /\ DOMAIN e = 1 .. M
        BY <1>3, <1>15, <2>1
    <2>3. \A k \in 1 .. M : e[k] = a[ExtAt(k)]
        BY <1>15
    <2>4. \A k, l \in 1 .. M : e[k] = e[l] => k = l
        BY <1>3, <1>4, <2>3
    <2> QED
        BY <2>2, <2>3, <2>4 DEF Paths, IsInjective
<1>17. /\ DOMAIN ExtOf(dk) \subseteq Blocks
       /\ DOMAIN ExtOf(dk) = {b \in Blocks : dk[b].kind = "ext"}
       /\ \A b \in Blocks : dk[b].kind = "ext" => ExtOf(dk)[b] = dk[b].ext
    BY <1>14, DiskShape
<1>18. \A k \in 1 .. M : /\ e[k] \in DOMAIN ExtOf(dk) /\ ExtOf(dk)[e[k]] = NextTable(a, k, n)
                         /\ dk[e[k]].table = TableFor(a, k, n) /\ e[k] \in Range(a)
    <2> SUFFICES ASSUME NEW k \in 1 .. M
                 PROVE  /\ e[k] \in DOMAIN ExtOf(dk) /\ ExtOf(dk)[e[k]] = NextTable(a, k, n)
                        /\ dk[e[k]].table = TableFor(a, k, n) /\ e[k] \in Range(a)
        OBVIOUS
    <2>1. e[k] = a[ExtAt(k)] /\ e[k] \in Blocks /\ e[k] \in Range(a)
        BY <1>3, <1>4, <1>16
    <2>2. dk[e[k]] = Extension(TableFor(a, k, n), NextTable(a, k, n))
        BY <1>11, <2>1
    <2>3. dk[e[k]].kind = "ext" /\ dk[e[k]].ext = NextTable(a, k, n) /\ dk[e[k]].table = TableFor(a, k, n)
        BY <2>2 DEF Extension
    <2> QED
        BY <1>17, <2>1, <2>3
<1>19. dk[block].ext = NextTable(a, 0, n) /\ dk[block].table = TableFor(a, 0, n) /\ dk[block].kind = "file"
    BY <1>9 DEF EntryType
<1>20. Proper(e, dk[block].ext, ExtOf(dk))
    <2>1. Range(e) \subseteq DOMAIN ExtOf(dk)
        BY <1>16, <1>18 DEF Range
    <2>2. \A k \in 1 .. M - 1 : ExtOf(dk)[e[k]] = e[k + 1]
        <3> SUFFICES ASSUME NEW k \in 1 .. M - 1 PROVE ExtOf(dk)[e[k]] = e[k + 1]
            OBVIOUS
        <3>1. k \in 1 .. M /\ k + 1 \in 1 .. M /\ k < M
            BY <1>3
        <3>2. NextTable(a, k, n) = a[ExtAt(k + 1)]
            BY <3>1 DEF NextTable, M
        <3> QED
            BY <1>16, <1>18, <3>1, <3>2
    <2>3. CASE M = 0
        <3>1. e = <<>>
            BY <1>16, <2>3, PathShape
        <3>2. NextTable(a, 0, n) = 0
            BY <2>3 DEF NextTable, M
        <3> QED
            BY <1>16, <1>19, <2>1, <2>2, <3>1, <3>2 DEF Proper, Follows
    <2>4. CASE M # 0
        <3>1. e # <<>> /\ 1 \in 1 .. M /\ M \in 1 .. M /\ Last(e) = e[M]
            BY <1>3, <1>16, <2>4, PathShape
        <3>2. NextTable(a, 0, n) = e[1]
            <4>1. 0 < M
                BY <1>3, <2>4
            <4> QED
                BY <1>16, <3>1, <4>1 DEF NextTable, M
        <3>3. ExtOf(dk)[e[M]] = 0
            <4>1. NextTable(a, M, n) = 0
                BY <1>3 DEF NextTable, M
            <4> QED
                BY <1>18, <3>1, <4>1
        <3> QED
            BY <1>16, <1>19, <2>1, <2>2, <3>1, <3>2, <3>3 DEF Proper, Follows
    <2> QED
        BY <2>3, <2>4
<1>21. ExtOn(dk, block) = e
    BY <1>17, <1>20, ProperIs DEF ExtOn
<1>22. OwnOn(dk, block) \subseteq {block} \cup Range(a)
    <2>1. Held(dk[block].table) \subseteq Range(a)
        BY <1>7, <1>19
    <2>2. \A x \in Range(e) : \E k \in 1 .. M : x = e[k]
        BY <1>16 DEF Range
    <2>3. \A x \in Range(e) : x \in Range(a) /\ Held(dk[x].table) \subseteq Range(a)
        <3> SUFFICES ASSUME NEW k \in 1 .. M PROVE e[k] \in Range(a) /\ Held(dk[e[k]].table) \subseteq Range(a)
            BY <2>2
        <3>1. k \in Nat
            BY <1>3
        <3> QED
            BY <1>7, <1>18, <3>1
    <2>4. OwnOn(dk, block) = {block} \cup Held(dk[block].table) \cup Range(e)
                                \cup UNION {Held(dk[x].table) : x \in Range(e)}
        BY <1>19, <1>21 DEF OwnOn
    <2>5. Range(e) \subseteq Range(a)
        BY <2>3
    <2>6. UNION {Held(dk[x].table) : x \in Range(e)} \subseteq Range(a)
        BY <2>3
    <2> QED
        BY <2>1, <2>4, <2>5, <2>6
<1>23. dk[block] \in EntryType /\ \A f \in {"kind", "id", "name", "next", "parent"} : dk[block][f] = header[f]
    <2>1. TableFor(a, 0, n) \in Tables /\ NextTable(a, 0, n) \in Pointers
        BY <1>7, <1>8
    <2> QED
        BY <1>1, <1>9, <2>1 DEF EntryType
<1> QED
    <2>1. Leads(dk, before, header, block, Range(a))
        BY <1>12, <1>14, <1>20, <1>21, <1>22, <1>23 DEF Leads
    <2>2. dk[block].size = n
        BY <1>9 DEF EntryType
    <2>3. Bears(dk, block, a, content)
        BY <1>10, <1>16, <1>18, <1>19, <1>21, <2>2 DEF Bears, n, M
    <2> QED
        BY <2>1, <2>3 DEF dk

-----------------------------------------------------------------------------
(* How the code reads a disk *)

\* The client keeps names apart, looks before it adds, and renames within a hash.
Distinct == {"twin", "blind", "rehash"} \cap Ops = {}

\* How the actions read the disk is how this module describes a disk.
LEMMA Reading ==
    ASSUME disk \in Disks
    PROVE  /\ \A d, h : HashChain(d, h) = ChainOn(disk, d, h)
           /\ \A b : Extensions(b) = ExtOn(disk, b)
           /\ \A b : IsEntry(b) <=> b \in Ent(disk)
<1>1. Nexts = NextOf(disk) /\ Exts = ExtOf(disk)
    BY DEF Nexts, Exts, NextOf, ExtOf, Ent
<1>2. \A d, h : HashChain(d, h) = ChainOn(disk, d, h)
    BY <1>1 DEF HashChain, ChainOn
<1>3. \A b : Extensions(b) = ExtOn(disk, b)
    BY <1>1 DEF Extensions, ExtOn
<1>4. \A b : IsEntry(b) <=> b \in Ent(disk)
    BY DEF IsEntry, Ent
<1> QED
    BY <1>2, <1>3, <1>4

\* entriesLoad finds the entries of a directory, each once.
LEMMA EntriesFound ==
    ASSUME disk \in Disks, Tree(disk), NEW d \in DirsOn(disk)
    PROVE  /\ EntriesOf(d) \in Seq(Blocks) /\ IsInjective(EntriesOf(d))
           /\ Range(EntriesOf(d)) = In(disk, d)
           /\ EntriesOf(d) = <<>> <=> In(disk, d) = {}
<1> DEFINE ss == [i \in 1 .. TableSize |-> HashChain(d, i - 1)]
<1>1. TableSize \in Nat \ {0} /\ Slots = 0 .. TableSize - 1
    BY GeometryAssumption DEF Slots
<1>2. \A h \in Slots : /\ ChainOn(disk, d, h) \in Paths
                       /\ \A x \in Range(ChainOn(disk, d, h)) : HashOf[disk[x].name] = h
    BY TreeShape DEF Tree, ChainFits
<1>3. ASSUME NEW i \in 1 .. TableSize
      PROVE  /\ i - 1 \in Slots /\ ss[i] = ChainOn(disk, d, i - 1)
             /\ ss[i] \in Seq(Blocks) /\ IsInjective(ss[i])
    <2>1. i - 1 \in Slots
        BY <1>1
    <2>2. ss[i] = ChainOn(disk, d, i - 1)
        BY Reading
    <2> QED
        BY <1>2, <2>1, <2>2, PathShape
<1>4. ss \in Seq(Seq(Blocks)) /\ Len(ss) = TableSize
    BY <1>1, <1>3
<1>5. EntriesOf(d) = FlattenSeq(ss)
    BY DEF EntriesOf
<1> HIDE DEF ss
<1>6. \A i, j \in 1 .. TableSize : i # j => Range(ss[i]) \cap Range(ss[j]) = {}
    <2> SUFFICES ASSUME NEW i \in 1 .. TableSize, NEW j \in 1 .. TableSize, NEW x,
                        x \in Range(ss[i]), x \in Range(ss[j])
                 PROVE  i = j
        OBVIOUS
    <2>1. HashOf[disk[x].name] = i - 1 /\ HashOf[disk[x].name] = j - 1
        BY <1>2, <1>3
    <2>2. i - 1 = j - 1 /\ i \in Nat /\ j \in Nat
        BY <1>1, <2>1
    <2> QED
        BY <2>2
<1>7. /\ FlattenSeq(ss) \in Seq(Blocks) /\ IsInjective(FlattenSeq(ss))
      /\ Range(FlattenSeq(ss)) = UNION {Range(ss[i]) : i \in 1 .. Len(ss)}
    BY <1>3, <1>4, <1>6, FlatShape
<1>8. UNION {Range(ss[i]) : i \in 1 .. Len(ss)} = In(disk, d)
    <2>1. \A x \in In(disk, d) : x \in UNION {Range(ss[i]) : i \in 1 .. Len(ss)}
        <3> SUFFICES ASSUME NEW h \in Slots, NEW x \in Range(ChainOn(disk, d, h))
                     PROVE  \E i \in 1 .. TableSize : x \in Range(ss[i])
            BY <1>4 DEF In
        <3>1. PICK i : i = h + 1
            OBVIOUS
        <3>2. i \in 1 .. TableSize /\ i - 1 = h
            BY <1>1, <3>1
        <3>3. ss[i] = ChainOn(disk, d, h)
            BY <1>3, <3>2
        <3> QED
            BY <3>2, <3>3
    <2>2. \A i \in 1 .. TableSize : Range(ss[i]) \subseteq In(disk, d)
        BY <1>3 DEF In
    <2> QED
        BY <1>4, <2>1, <2>2
<1>9. Range(EntriesOf(d)) = In(disk, d) /\ EntriesOf(d) \in Seq(Blocks)
    BY <1>5, <1>7, <1>8
<1>10. EntriesOf(d) = <<>> <=> Range(EntriesOf(d)) = {}
    <2> PICK c \in Seq(Blocks) : c = EntriesOf(d)
        BY <1>9
    <2>1. c = <<>> => Range(c) = {}
        BY DEF Range
    <2>2. c # <<>> => 1 \in DOMAIN c
        BY EmptySeq
    <2> QED
        BY <2>1, <2>2 DEF Range
<1> QED
    BY <1>5, <1>7, <1>9, <1>10

\* What is freed with an entry is its own: a file's, or an empty directory's.
LEMMA BlocksFound ==
    ASSUME disk \in Disks, Tree(disk), NEW b \in AllOn(disk),
           disk[b].kind = "dir" => In(disk, b) = {}
    PROVE  BlocksOf(b) \subseteq OwnOn(disk, b) /\ b \in BlocksOf(b)
<1>1. /\ b \in Blocks /\ disk[b].kind \in EntryKinds /\ disk[b] \in EntryType /\ b \in OwnOn(disk, b)
      /\ disk[b].kind = "dir" => b \in DirsOn(disk)
    BY TreeShape
<1>2. disk[b].table \in Tables
    BY <1>1 DEF EntryType
<1>3. b \in BlocksOf(b)
    BY DEF BlocksOf
<1>4. CASE disk[b].kind = "dir"
    <2>1. \A i \in Slots : disk[b].table[i] = 0
        <3> SUFFICES ASSUME NEW i \in Slots PROVE disk[b].table[i] = 0
            OBVIOUS
        <3>1. Proper(ChainOn(disk, b, i), disk[b].table[i], NextOf(disk)) /\ ChainOn(disk, b, i) \in Paths
            BY <1>1, <1>4, TreeShape DEF Tree, ChainFits
        <3>2. Range(ChainOn(disk, b, i)) = {}
            BY <1>4 DEF In
        <3>3. ChainOn(disk, b, i) = <<>>
            BY <3>1, <3>2, PathShape
        <3> QED
            BY <3>1, <3>3 DEF Proper
    <2>2. Range(Listed(disk[b].table)) \subseteq {}
        BY <1>2, <2>1, ListedIn
    <2> QED
        BY <1>1, <1>3, <1>4, <2>2 DEF BlocksOf
<1>5. CASE disk[b].kind = "file"
    <2>1. PICK x \in Paths : x = ExtOn(disk, b) /\ x = Extensions(b) /\ Range(x) \subseteq DOMAIN ExtOf(disk)
        <3>1. Proper(ExtOn(disk, b), disk[b].ext, ExtOf(disk)) /\ DOMAIN ExtOf(disk) \subseteq Blocks
            BY <1>5, DiskShape DEF Tree, EntryFits
        <3>2. ExtOn(disk, b) = Extensions(b)
            BY Reading
        <3>3. ExtOn(disk, b) \in Paths /\ Range(ExtOn(disk, b)) \subseteq DOMAIN ExtOf(disk)
            BY <3>1, ProperIs
        <3> QED
            BY <3>2, <3>3
    <2>2. Len(x) \in Nat /\ \A k \in 1 .. Len(x) : x[k] \in Range(x)
        BY PathShape
    <2>3. \A e \in Range(x) : disk[e].table \in Tables
        <3>1. \A e \in Range(x) : e \in Blocks /\ disk[e].kind = "ext"
            BY <2>1, DiskShape
        <3> QED
            BY <3>1, DiskShape DEF ExtType
    <2> DEFINE ss == [k \in 1 .. Len(x) |-> Listed(disk[x[k]].table)]
    <2>4. ss \in Seq(Seq(Blocks)) /\ Len(ss) = Len(x) /\ \A k \in 1 .. Len(x) : ss[k] = Listed(disk[x[k]].table)
        <3>1. \A k \in 1 .. Len(x) : Listed(disk[x[k]].table) \in Seq(Blocks)
            BY <2>2, <2>3, ListedIn
        <3> QED
            BY <2>2, <3>1
    <2>5. DataBlocks(b) = Listed(disk[b].table) \o FlattenSeq(ss)
        BY <2>1 DEF DataBlocks
    <2> HIDE DEF ss
    <2>6. FlattenSeq(ss) \in Seq(Blocks) /\ Range(FlattenSeq(ss)) = UNION {Range(ss[i]) : i \in 1 .. Len(x)}
        BY <2>4, FlatShape
    <2>7. Listed(disk[b].table) \in Seq(Blocks)
        BY <1>2, ListedIn
    <2>8. Range(DataBlocks(b)) = Range(Listed(disk[b].table)) \cup Range(FlattenSeq(ss))
        BY <2>5, <2>6, <2>7, ConcatShape
    <2>9. \A e \in Range(x) : Range(Listed(disk[e].table)) \subseteq Held(disk[e].table)
        BY <2>3, ListedIn
    <2>10. Range(FlattenSeq(ss)) \subseteq UNION {Held(disk[e].table) : e \in Range(x)}
        <3> SUFFICES ASSUME NEW y \in Range(FlattenSeq(ss)) PROVE \E e \in Range(x) : y \in Held(disk[e].table)
            OBVIOUS
        <3>1. PICK i \in 1 .. Len(x) : y \in Range(ss[i])
            BY <2>6
        <3>2. x[i] \in Range(x) /\ ss[i] = Listed(disk[x[i]].table)
            BY <2>2, <2>4
        <3> QED
            BY <2>9, <3>1, <3>2
    <2>11. Range(Listed(disk[b].table)) \subseteq Held(disk[b].table)
        BY <1>2, ListedIn
    <2>12. OwnOn(disk, b) = {b} \cup Held(disk[b].table) \cup Range(x)
                               \cup UNION {Held(disk[e].table) : e \in Range(x)}
        BY <1>5, <2>1 DEF OwnOn
    <2>13. BlocksOf(b) = {b} \cup Range(Listed(disk[b].table)) \cup Range(x) \cup Range(DataBlocks(b))
        BY <1>5, <2>1 DEF BlocksOf
    <2> QED
        BY <1>3, <2>8, <2>10, <2>11, <2>12, <2>13
<1> QED
    BY <1>1, <1>4, <1>5 DEF EntryKinds

\* The directories and entries the properties are about are those of the tree,
\* and what they call owned belongs to the entry in the tree.
LEMMA Reached ==
    ASSUME disk \in Disks, Tree(disk)
    PROVE  /\ DirBlocks = DirsOn(disk) /\ Entries = AllOn(disk)
           /\ \A b \in Entries : Owned(b) \subseteq OwnOn(disk, b)
<1>1. \A d \in DirsOn(disk) : Range(EntriesOf(d)) = In(disk, d)
    BY EntriesFound
<1>2. DirBlocks = DirsOn(disk)
    <2>1. RootBlock \in DirsOn(disk)
        BY TreeShape
    <2> QED
        BY <1>1, <2>1 DEF DirBlocks, TopEntries, DirsOn
<1>3. Entries = AllOn(disk)
    BY <1>1, <1>2 DEF Entries, AllOn
<1>4. ASSUME NEW b \in AllOn(disk) PROVE Owned(b) \subseteq OwnOn(disk, b)
    <2>1. CASE disk[b].kind = "dir"
        BY <2>1 DEF Owned, OwnOn
    <2>2. CASE disk[b].kind # "dir"
        BY <2>2, BlocksFound DEF Owned
    <2> QED
        BY <2>1, <2>2
<1> QED
    BY <1>2, <1>3, <1>4

-----------------------------------------------------------------------------
(* What the invariant says *)

\* The invariant has the types of the state in it.
LEMMA IInvTypes == IInv => TypeOK
<1> SUFFICES ASSUME IInv PROVE TypeOK
    OBVIOUS
<1>1. Shapes
    BY DEF IInv
<1>2. free \subseteq Blocks /\ diskFree \subseteq Blocks /\ loaded \in [Directories -> BOOLEAN]
      /\ pc \in {"idle", "save", "remove", "thrown", "crashed"}
    BY <1>1 DEF Shapes
<1>3. ASSUME NEW d \in Directories PROVE IsInjective(nodes[d]) /\ Range(nodes[d]) \subseteq Ids
    <2>1. nodes[d] \in Seq(Ids) /\ IsInjective(nodes[d])
        BY <1>1 DEF Shapes
    <2>2. \A k \in DOMAIN nodes[d] : nodes[d][k] \in Ids
        BY <2>1
    <2> QED
        BY <2>1, <2>2 DEF Range
<1>4. ASSUME NEW x \in Ids
      PROVE  /\ node[x].name \in Names \cup {0} /\ node[x].dirty \in BOOLEAN
             /\ node[x].block \in Pointers /\ node[x].content \in Content
    BY <1>1 DEF Shapes, NodeType
<1>5. ASSUME NEW b \in Blocks
      PROVE  /\ disk[b].kind \in {"blank", "root", "dir", "file", "ext", "data"}
             /\ disk[b].kind \in {"root", "dir", "file", "ext"} => disk[b].table \in [Slots -> Pointers]
             /\ IsEntry(b) => /\ disk[b].next \in Pointers /\ disk[b].parent \in Pointers
                              /\ disk[b].name \in Names
    <2>1. disk[b] \in BlockType
        BY <1>1 DEF Shapes, Disks
    <2>2. /\ disk[b].kind \in {"blank", "root", "dir", "file", "ext", "data"}
          /\ disk[b].kind \in EntryKinds => disk[b] \in EntryType
          /\ disk[b].kind = "root" => disk[b] \in RootType
          /\ disk[b].kind = "ext" => disk[b] \in ExtType
        BY <2>1, KindShape
    <2>3. disk[b].kind \in EntryKinds =>
              /\ disk[b].table \in Tables /\ disk[b].next \in Pointers /\ disk[b].parent \in Pointers
              /\ disk[b].name \in Names
        BY <2>2 DEF EntryType
    <2>4. disk[b].kind \in {"root", "ext"} => disk[b].table \in Tables
        BY <2>2 DEF RootType, ExtType
    <2> QED
        BY <2>2, <2>3, <2>4 DEF IsEntry, EntryKinds, Tables
<1> QED
    BY <1>2, <1>3, <1>4, <1>5 DEF TypeOK

\* What the invariant says of the disk is what the properties say.
LEMMA IInvMeans == IInv => MapCovers /\ FreeMeansUnused /\ NoCrossLinks /\ Placed
<1> SUFFICES ASSUME IInv PROVE MapCovers /\ FreeMeansUnused /\ NoCrossLinks /\ Placed
    OBVIOUS
<1>1. disk \in Disks /\ pc \in {"idle", "save", "remove", "thrown", "crashed"}
    BY DEF IInv, Shapes
<1>2. ASSUME Live PROVE free \cap InUse = {} /\ NoCrossLinks /\ Placed
    <2>1. Tree(disk) /\ Apart(disk, free)
        BY <1>2 DEF IInv
    <2>2. /\ DirBlocks = DirsOn(disk) /\ Entries = AllOn(disk)
          /\ \A b \in Entries : Owned(b) \subseteq OwnOn(disk, b)
        BY <1>1, <2>1, Reached
    <2>3. /\ \A b \in Entries : OwnOn(disk, b) \cap (free \cup System) = {}
          /\ \A b, c \in Entries : b # c => OwnOn(disk, b) \cap OwnOn(disk, c) = {}
        BY <2>1, <2>2 DEF Apart, Tree
    <2>4. free \cap InUse = {}
        <3>1. free \cap System = {}
            BY <2>1 DEF Apart
        <3> QED
            BY <2>2, <2>3, <3>1 DEF InUse
    <2>5. NoCrossLinks
        BY <2>2, <2>3 DEF NoCrossLinks
    <2>6. ASSUME NEW d \in DirsOn(disk), NEW h \in Slots
          PROVE  \A b \in Range(HashChain(d, h)) : HashOf[disk[b].name] = h /\ disk[b].parent = d
        <3>1. HashChain(d, h) = ChainOn(disk, d, h)
            BY <1>1, Reading
        <3>2. \A b \in Range(ChainOn(disk, d, h)) : HashOf[disk[b].name] = h /\ disk[b].parent = d
            BY <2>1 DEF Tree, ChainFits
        <3> QED
            BY <3>1, <3>2
    <2>7. Placed
        BY <2>2, <2>6 DEF Placed
    <2> QED
        BY <2>4, <2>5, <2>7
<1>3. CASE Live
    <2>1. pc = "idle" => diskFree = free
        BY <1>3 DEF IInv, Settling
    <2> QED
        BY <1>2, <1>3, <2>1 DEF MapCovers, FreeMeansUnused
<1>4. CASE ~Live
    <2>1. pc = "thrown" => free = {}
        BY DEF IInv
    <2> QED
        BY <1>1, <1>4, <2>1 DEF Live, MapCovers, FreeMeansUnused, NoCrossLinks, Placed
<1> QED
    BY <1>3, <1>4

-----------------------------------------------------------------------------
(* Between two steps *)

\* What the nodes are at any step: directories are in the root, and the nodes of
\* a directory are there only when it was looked into and has a block.
LEMMA Standing ==
    ASSUME IInv, Live
    PROVE  /\ Root \in Open /\ Root \notin Ids /\ Open \subseteq Directories /\ Files \cap Dirs = {}
           /\ \A d \in Directories : /\ nodes[d] \in Seq(Ids) /\ IsInjective(nodes[d])
                                     /\ Range(nodes[d]) \subseteq Ids
           /\ Ghosts \subseteq Files
           /\ \A d \in Open : d # Root => d \in Dirs /\ d \in Range(nodes[Root]) /\ d \in Alive(Root)
           /\ \A d \in Directories : nodes[d] # <<>> => d \in Open /\ loaded[d] /\ BlockOf(d) # 0
           /\ \A d \in Directories : \A x \in Range(nodes[d]) : d \in Open /\ loaded[d] /\ BlockOf(d) # 0
<1>1. Shapes /\ Nesting /\ Holding /\ Dooming /\ Settling /\ Tree(disk)
    BY DEF IInv
<1>2. Root \in Open /\ Root \notin Ids /\ Open \subseteq Directories /\ Files \cap Dirs = {}
    BY NodesAssumption DEF Open, Ids, Directories
<1>3. ASSUME NEW d \in Directories
      PROVE  /\ nodes[d] \in Seq(Ids) /\ IsInjective(nodes[d])
             /\ Range(nodes[d]) \subseteq Ids
    <2>1. nodes[d] \in Seq(Ids) /\ IsInjective(nodes[d])
        BY <1>1 DEF Shapes
    <2>2. \A k \in DOMAIN nodes[d] : nodes[d][k] \in Ids
        BY <2>1
    <2> QED
        BY <2>1, <2>2 DEF Range
<1>4. Ghosts \subseteq Files
    <2>1. \A d \in Dirs : Range(nodes[d]) \subseteq Files
        BY <1>1 DEF Nesting
    <2> QED
        BY <2>1 DEF Ghosts
<1>5. \A d \in Open : d # Root => d \in Dirs /\ d \in Range(nodes[Root]) /\ d \in Alive(Root)
    BY <1>2, <1>4 DEF Open, Alive
<1>6. ASSUME NEW d \in Directories, nodes[d] # <<>> PROVE d \in Open /\ loaded[d] /\ BlockOf(d) # 0
    <2>1. loaded[d]
        BY <1>1, <1>6 DEF Nesting
    <2>2. d \in Open
        <3>1. CASE d = Root
            BY <1>2, <3>1
        <3>2. CASE d # Root
            <4>1. d \in Dirs
                BY <3>2 DEF Directories
            <4>2. d \in Range(nodes[Root])
                BY <1>1, <2>1, <4>1 DEF Nesting
            <4> QED
                BY <4>1, <4>2 DEF Open
        <3> QED
            BY <3>1, <3>2
    <2> QED
        BY <1>1, <2>1, <2>2 DEF Nesting
<1>7. \A d \in Directories : \A x \in Range(nodes[d]) : nodes[d] # <<>>
    <2>1. Range(<<>>) = {}
        BY DEF Range
    <2> QED
        BY <2>1
<1> QED
    BY <1>2, <1>3, <1>4, <1>5, <1>6, <1>7

\* The directories the client can look into have blocks of their own.
LEMMA OpenBlocks ==
    ASSUME IInv, Live, NEW d \in Open, BlockOf(d) # 0
    PROVE  /\ BlockOf(d) \in DirsOn(disk)
           /\ d # Root => /\ BlockOf(d) = node[d].block /\ BlockOf(d) \in AllOn(disk)
                          /\ disk[BlockOf(d)].id = d /\ BlockOf(d) # RootBlock
                          /\ BlockOf(d) \in In(disk, RootBlock)
           /\ \A e \in Open : BlockOf(e) = BlockOf(d) => e = d
<1>1. Holding /\ Tree(disk) /\ disk \in Disks
    BY DEF IInv, Shapes
<1>2. RootBlock \in DirsOn(disk) /\ RootBlock \notin AllOn(disk)
    BY <1>1, TreeShape
<1>3. ASSUME NEW e \in Open, BlockOf(e) # 0, e # Root
      PROVE  /\ BlockOf(e) = node[e].block /\ BlockOf(e) \in AllOn(disk)
             /\ disk[BlockOf(e)].id = e /\ BlockOf(e) # RootBlock
             /\ BlockOf(e) \in In(disk, RootBlock) /\ BlockOf(e) \in DirsOn(disk)
    <2>1. e \in Dirs /\ e \in Alive(Root) /\ Root \in Open /\ e \notin Files
        BY <1>3, Standing
    <2>2. BlockOf(e) = node[e].block /\ BlockOf(Root) = RootBlock
        BY <1>3 DEF BlockOf
    <2>3. NodeFits(Root, e)
        BY <1>1, <2>1 DEF Holding
    <2>4. node[e].block \in In(disk, RootBlock) /\ disk[node[e].block].id = e
        BY <1>3, <2>2, <2>3 DEF NodeFits
    <2>5. node[e].block \in AllOn(disk)
        BY <1>1, <1>2, <2>4, TreeShape
    <2>6. disk[node[e].block].kind = "dir"
        BY <1>1, <2>1, <2>4, <2>5 DEF Tree, EntryFits
    <2>7. node[e].block \in DirsOn(disk)
        BY <2>4, <2>6 DEF DirsOn
    <2> QED
        BY <1>2, <2>2, <2>4, <2>5, <2>7
<1>4. BlockOf(d) \in DirsOn(disk)
    <2>1. CASE d = Root
        BY <1>2, <2>1 DEF BlockOf
    <2> QED
        BY <1>3, <2>1
<1>5. ASSUME NEW e \in Open, BlockOf(e) = BlockOf(d) PROVE e = d
    <2>1. BlockOf(Root) = RootBlock /\ RootBlock # 0
        BY GeometryAssumption, BlocksShape DEF BlockOf
    <2>2. CASE e = Root \/ d = Root
        BY <1>3, <1>5, <2>1, <2>2
    <2>3. CASE e # Root /\ d # Root
        BY <1>3, <1>5, <2>3
    <2> QED
        BY <2>2, <2>3
<1> QED
    BY <1>3, <1>4, <1>5

\* A node is where its directory says.
LEMMA NodeAt ==
    ASSUME IInv, Live, NEW d \in Open, NEW x \in Alive(d)
    PROVE  /\ x \in Ids /\ NodeFits(d, x) /\ loaded[d] /\ BlockOf(d) # 0 /\ BlockOf(d) \in DirsOn(disk)
           /\ node[x].name \in Names
           /\ node[x].block # 0 =>
                 /\ node[x].block \in In(disk, BlockOf(d)) /\ node[x].block \in AllOn(disk)
                 /\ disk[node[x].block].id = x /\ disk[node[x].block].parent = BlockOf(d)
                 /\ HashOf[disk[node[x].block].name] = HashOf[node[x].name]
                 /\ \A b \in AllOn(disk) : disk[b].id = x => b = node[x].block
<1>1. Holding /\ Tree(disk) /\ disk \in Disks
    BY DEF IInv, Shapes
<1>2. d \in Directories /\ x \in Range(nodes[d])
    BY Standing DEF Alive
<1>3. x \in Ids /\ loaded[d] /\ BlockOf(d) # 0
    BY <1>2, Standing
<1>4. BlockOf(d) \in DirsOn(disk)
    BY <1>3, OpenBlocks
<1>5. NodeFits(d, x)
    BY <1>1 DEF Holding
<1>6. ASSUME node[x].block # 0
      PROVE  /\ node[x].block \in In(disk, BlockOf(d)) /\ node[x].block \in AllOn(disk)
             /\ disk[node[x].block].id = x /\ disk[node[x].block].parent = BlockOf(d)
             /\ HashOf[disk[node[x].block].name] = HashOf[node[x].name]
             /\ \A b \in AllOn(disk) : disk[b].id = x => b = node[x].block
    <2>1. /\ node[x].block \in In(disk, BlockOf(d)) /\ disk[node[x].block].id = x
          /\ HashOf[disk[node[x].block].name] = HashOf[node[x].name]
        BY <1>5, <1>6 DEF NodeFits
    <2>2. node[x].block \in AllOn(disk) /\ disk[node[x].block].parent = BlockOf(d)
        BY <1>1, <1>4, <2>1, TreeShape
    <2>3. \A b \in AllOn(disk) : disk[b].id = x => b = node[x].block
        BY <1>1, <2>1, <2>2 DEF Tree
    <2> QED
        BY <2>1, <2>2, <2>3
<1> QED
    BY <1>3, <1>4, <1>5, <1>6 DEF NodeFits

\* No save is coming: every node is on disk as it is in memory.
LEMMA AllSettled ==
    ASSUME IInv, Live, pc # "save" \/ todo = <<>> \/ doomed # <<>>
    PROVE  \A d \in Open : \A x \in Alive(d) : Settled(x)
<1>1. Settling /\ todo \in Seq(Directories \X Ids)
    BY DEF IInv, Shapes
<1> SUFFICES ASSUME NEW d \in Open, NEW x \in Alive(d), ~Settled(x) PROVE FALSE
    OBVIOUS
<1>2. doomed = <<>> /\ Coming(d, x)
    BY <1>1 DEF Settling
<1>3. todo = <<>>
    BY <1>1, <1>2 DEF Settling
<1>4. Range(todo) = {}
    BY <1>3 DEF Range
<1> QED
    BY <1>2, <1>4 DEF Coming

-----------------------------------------------------------------------------
(* An image created or loaded *)

\* A disk with an empty root, as filesystemCreate writes it, is a tree with
\* no entries.
LEMMA EmptyTree ==
    ASSUME NEW dk \in Disks, dk[RootBlock] = EmptyRoot, dk[RootBlock + 1] = Blank
    PROVE  Tree(dk) /\ AllOn(dk) = {}
<1>1. \A h \in Slots : ChainOn(dk, RootBlock, h) = <<>> /\ dk[RootBlock].table[h] = 0
    <2> SUFFICES ASSUME NEW h \in Slots
                 PROVE  ChainOn(dk, RootBlock, h) = <<>> /\ dk[RootBlock].table[h] = 0
        OBVIOUS
    <2>1. dk[RootBlock].table[h] = 0
        BY DEF EmptyRoot, NoTable
    <2>2. Proper(<<>>, 0, NextOf(dk))
        <3>1. <<>> \in Paths /\ Range(<<>>) = {} /\ Len(<<>>) = 0
            BY DEF Paths, IsInjective, Range
        <3> QED
            BY <3>1 DEF Proper, Follows
    <2>3. DOMAIN NextOf(dk) \subseteq Blocks
        BY DiskShape
    <2> QED
        BY <2>1, <2>2, <2>3, ProperIs DEF ChainOn
<1>2. Range(<<>>) = {}
    BY DEF Range
<1>3. In(dk, RootBlock) = {}
    BY <1>1, <1>2 DEF In
<1>4. DirsOn(dk) = {RootBlock}
    BY <1>3 DEF DirsOn
<1>5. AllOn(dk) = {}
    BY <1>3, <1>4 DEF AllOn
<1>6. \A h \in Slots : ChainFits(dk, RootBlock, h)
    <2> SUFFICES ASSUME NEW h \in Slots PROVE ChainFits(dk, RootBlock, h)
        OBVIOUS
    <2>1. <<>> \in Paths /\ Range(<<>>) = {} /\ Len(<<>>) = 0
        BY DEF Paths, IsInjective, Range
    <2>2. Proper(<<>>, 0, NextOf(dk))
        BY <2>1 DEF Proper, Follows
    <2> QED
        BY <1>1, <2>1, <2>2 DEF ChainFits
<1>7. dk[RootBlock].kind = "root" /\ dk[RootBlock + 1].kind = "blank"
    BY DEF EmptyRoot, Blank
<1> QED
    BY <1>3, <1>4, <1>5, <1>6, <1>7 DEF Tree

\* An image that was just created or loaded.
Clear ==
    /\ nodes = NoNodes /\ loaded = NotLoaded /\ node = [x \in Ids |-> NoNode]
    /\ pc = "idle" /\ todo = <<>> /\ doomed = <<>> /\ diskFree = free

\* Without nodes in memory, nothing has to agree with the disk.
LEMMA ClearFits ==
    Clear => /\ nodes \in [Directories -> Seq(Ids)] /\ \A d \in Directories : IsInjective(nodes[d])
             /\ loaded \in [Directories -> BOOLEAN] /\ node \in [Ids -> NodeType]
             /\ todo \in Seq(Directories \X Ids) /\ doomed \in Seq(Ids)
             /\ Nesting /\ Holding /\ Dooming /\ Settling
<1> SUFFICES ASSUME Clear
             PROVE  /\ nodes \in [Directories -> Seq(Ids)] /\ \A d \in Directories : IsInjective(nodes[d])
                    /\ loaded \in [Directories -> BOOLEAN] /\ node \in [Ids -> NodeType]
                    /\ todo \in Seq(Directories \X Ids) /\ doomed \in Seq(Ids)
                    /\ Nesting /\ Holding /\ Dooming /\ Settling
    OBVIOUS
<1>1. \A S : <<>> \in Seq(S) /\ Range(<<>>) = {} /\ IsInjective(<<>>)
    BY DEF Range, IsInjective
<1>2. \A d \in Directories : nodes[d] = <<>> /\ loaded[d] = FALSE
    BY DEF Clear, NoNodes, NotLoaded
<1>3. nodes \in [Directories -> Seq(Ids)] /\ \A d \in Directories : IsInjective(nodes[d])
    <2>1. nodes = [d \in Directories |-> <<>>]
        BY DEF Clear, NoNodes
    <2> QED
        BY <1>1, <2>1
<1>4. loaded \in [Directories -> BOOLEAN]
    BY DEF Clear, NotLoaded
<1>5. node \in [Ids -> NodeType]
    <2>1. <<>> \in Content
        BY <1>1 DEF Content
    <2>2. NoNode \in NodeType
        BY <2>1 DEF NoNode, NodeType, Pointers
    <2> QED
        BY <2>2 DEF Clear
<1>6. Root \in Directories /\ Dirs \subseteq Directories /\ Open \subseteq Directories
    BY DEF Directories, Open
<1>7. \A d \in Directories : Range(nodes[d]) = {} /\ Alive(d) = {}
    BY <1>1, <1>2 DEF Alive
<1>8. Ghosts = {} /\ doomed = <<>> /\ todo = <<>> /\ pc = "idle" /\ diskFree = free
    BY DEF Ghosts, Clear
<1>9. Nesting
    <2>1. \A d \in Directories : ~loaded[d]
        BY <1>2
    <2> QED
        BY <1>2, <1>6, <1>7, <2>1 DEF Nesting
<1>10. Holding
    BY <1>1, <1>2, <1>6, <1>7, <1>8 DEF Holding
<1>11. Dooming
    BY <1>1, <1>8 DEF Dooming
<1>12. Settling
    BY <1>1, <1>6, <1>7, <1>8 DEF Settling
<1> QED
    BY <1>1, <1>3, <1>4, <1>5, <1>8, <1>9, <1>10, <1>11, <1>12

\* The same, after a step.
LEMMA ClearFitsNext ==
    Clear' => /\ (nodes \in [Directories -> Seq(Ids)])' /\ (\A d \in Directories : IsInjective(nodes[d]))'
              /\ (loaded \in [Directories -> BOOLEAN])' /\ (node \in [Ids -> NodeType])'
              /\ (todo \in Seq(Directories \X Ids))' /\ (doomed \in Seq(Ids))'
              /\ Nesting' /\ Holding' /\ Dooming' /\ Settling'
    BY ClearFits, PTL

\* An image just created.
LEMMA InitHolds == Init => IInv
<1> SUFFICES ASSUME Init PROVE IInv
    OBVIOUS
<1>1. Clear
    BY DEF Init, Clear
<1>2. EmptyRoot \in BlockType /\ Blank \in BlockType
    <2>1. NoTable \in Tables
        BY DEF NoTable, Tables, Pointers
    <2> QED
        BY <2>1 DEF EmptyRoot, Blank, BlockType, RootType
<1>3. disk \in Disks /\ disk[RootBlock] = EmptyRoot /\ disk[RootBlock + 1] = Blank
    <2>1. RootBlock \in Nat /\ RootBlock \in Blocks /\ RootBlock + 1 \in Blocks
        BY GeometryAssumption, BlocksShape
    <2>2. RootBlock + 1 # RootBlock
        BY <2>1
    <2>3. disk = [b \in Blocks |-> IF b = RootBlock THEN EmptyRoot ELSE Blank]
        BY DEF Init
    <2> QED
        BY <1>2, <2>1, <2>2, <2>3 DEF Disks
<1>4. Tree(disk) /\ AllOn(disk) = {}
    BY <1>3, EmptyTree
<1>5. Apart(disk, free)
    BY <1>4 DEF Init, Apart
<1>6. Shapes
    BY <1>1, <1>3, ClearFits DEF Init, Shapes
<1> QED
    BY <1>1, <1>4, <1>5, <1>6, ClearFits DEF IInv, Clear

\* filesystemCreate on an image in use writes an empty root and a new map.
LEMMA FormatHolds ==
    ASSUME IInv, Format PROVE IInv'
<1>1. Shapes /\ pc = "idle" /\ Live
    BY DEF IInv, Format, Live
<1>2. Clear'
    <2>1. todo = <<>> /\ doomed = <<>>
        BY <1>1 DEF IInv, Settling
    <2> QED
        BY <2>1 DEF Format, Clear
<1>3. EmptyRoot \in BlockType /\ Blank \in BlockType
    <2>1. NoTable \in Tables
        BY DEF NoTable, Tables, Pointers
    <2> QED
        BY <2>1 DEF EmptyRoot, Blank, BlockType, RootType
<1>4. disk' \in Disks /\ disk'[RootBlock] = EmptyRoot /\ disk'[RootBlock + 1] = Blank
    <2>1. RootBlock \in Nat /\ RootBlock \in Blocks /\ RootBlock + 1 \in Blocks
        BY GeometryAssumption, BlocksShape
    <2>2. RootBlock + 1 # RootBlock
        BY <2>1
    <2>3. disk' = [disk EXCEPT ![RootBlock] = EmptyRoot, ![RootBlock + 1] = Blank] /\ disk \in [Blocks -> BlockType]
        BY <1>1 DEF Format, Formatted, Shapes, Disks
    <2> QED
        BY <1>3, <2>1, <2>2, <2>3 DEF Disks
<1>5. Tree(disk') /\ AllOn(disk') = {}
    BY <1>4, EmptyTree
<1>6. Apart(disk', free')
    BY <1>5 DEF Format, Apart
<1>7. free' \subseteq Blocks /\ diskFree' \subseteq Blocks /\ version' \in [Ids -> Nat]
      /\ stored' \in [Files -> Content \cup {Gone}]
    BY <1>1 DEF Format, Shapes
<1>8. Shapes'
    BY <1>2, <1>4, <1>7, ClearFitsNext DEF Shapes, Clear
<1>9. pc' = "idle"
    BY <1>2 DEF Clear
<1> QED
    BY <1>2, <1>5, <1>6, <1>8, <1>9, ClearFitsNext DEF IInv

\* filesystemLoad forgets the nodes in memory and reads the saved map.
LEMMA LoadHolds ==
    ASSUME IInv, Load PROVE IInv'
<1>1. Shapes /\ pc = "idle" /\ Live
    BY DEF IInv, Load, Live
<1>2. Tree(disk) /\ Apart(disk, free) /\ todo = <<>> /\ doomed = <<>> /\ diskFree = free
    BY <1>1 DEF IInv, Settling
<1>3. disk' = disk /\ free' = free /\ diskFree' = diskFree /\ version' = version /\ stored' = stored
    BY <1>2 DEF Load, source, history
<1>4. Clear'
    BY <1>1, <1>2, <1>3 DEF Load, Clear
<1>5. Shapes'
    BY <1>1, <1>3, <1>4, ClearFitsNext DEF Shapes, Clear
<1>6. pc' = "idle"
    BY <1>4 DEF Clear
<1> QED
    BY <1>2, <1>3, <1>4, <1>5, <1>6, ClearFitsNext DEF IInv

-----------------------------------------------------------------------------
(* The client changes the nodes *)

\* What a save puts before it: the nodes of a directory.
Listing(d, c) == [k \in 1 .. Len(c) |-> <<d, c[k]>>]

\* A listing has the nodes of a directory, each with that directory.
LEMMA ListingShape ==
    ASSUME NEW d \in Directories, NEW c \in Seq(Ids)
    PROVE  /\ Listing(d, c) \in Seq(Directories \X Ids)
           /\ \A p \in Range(Listing(d, c)) : p[1] = d /\ p[2] \in Range(c)
           /\ \A x \in Range(c) : <<d, x>> \in Range(Listing(d, c))
<1>1. Len(c) \in Nat /\ DOMAIN c = 1 .. Len(c) /\ \A k \in 1 .. Len(c) : c[k] \in Ids /\ c[k] \in Range(c)
    BY DEF Range
<1>2. DOMAIN Listing(d, c) = 1 .. Len(c) /\ \A k \in 1 .. Len(c) : Listing(d, c)[k] = <<d, c[k]>>
    BY DEF Listing
<1>3. Listing(d, c) \in Seq(Directories \X Ids)
    <2>1. \A k \in 1 .. Len(c) : <<d, c[k]>> \in Directories \X Ids
        BY <1>1
    <2> QED
        BY <1>1, <2>1 DEF Listing
<1>4. ASSUME NEW p \in Range(Listing(d, c)) PROVE p[1] = d /\ p[2] \in Range(c)
    <2>1. PICK k \in 1 .. Len(c) : p = <<d, c[k]>>
        BY <1>2 DEF Range
    <2> QED
        BY <1>1, <2>1
<1>5. ASSUME NEW x \in Range(c) PROVE <<d, x>> \in Range(Listing(d, c))
    <2>1. PICK k \in 1 .. Len(c) : x = c[k]
        BY <1>1 DEF Range
    <2> QED
        BY <1>2, <2>1 DEF Range
<1> QED
    BY <1>3, <1>4, <1>5

\* Outside a removal every node of a directory is to be found on the disk.
LEMMA NoGhosts ==
    doomed = <<>> => Ghosts = {} /\ \A d \in Directories : Alive(d) = Range(nodes[d])
    BY DEF Ghosts, Alive

\* The same, after a step.
LEMMA NoGhostsNext ==
    doomed' = <<>> => Ghosts' = {} /\ \A d \in Directories : Alive(d)' = Range(nodes'[d])
    BY DEF Ghosts, Alive

\* The root is open, and the other open directories are in the root.
LEMMA OpenInNext ==
    /\ Root \in Open' /\ Open' \subseteq Directories
    /\ \A d \in Open' : d # Root => d \in Dirs /\ d \in Range(nodes'[Root])
    BY DEF Open, Directories

\* All nodes but one are on disk as they are in memory.
OthersSettled(x) == \A d \in Open : \A y \in Range(nodes[d]) : y = x \/ Settled(y)

\* A client's call changes one node, and the save will come to it.
LEMMA BeginsSave ==
    ASSUME Nesting', nodes'[Root] \in Seq(Ids), doomed' = <<>>, BeginSave,
           NEW d \in Open', NEW x \in Range(nodes'[d]), OthersSettled(x)'
    PROVE  Dooming' /\ Settling' /\ todo' \in Seq(Directories \X Ids) /\ pc' = "save"
<1>1. Root \in Directories /\ Root \in Open' /\ Open' \subseteq Directories
    BY DEF Open, Directories
<1>2. pc' = "save" /\ todo' = Listing(Root, nodes'[Root])
    BY DEF BeginSave, Listing
<1>3. /\ todo' \in Seq(Directories \X Ids)
      /\ \A p \in Range(todo') : p[1] = Root /\ p[2] \in Range(nodes'[Root])
      /\ \A y \in Range(nodes'[Root]) : <<Root, y>> \in Range(todo')
    BY <1>1, <1>2, ListingShape
<1>4. Ghosts' = {} /\ \A e \in Directories : Alive(e)' = Range(nodes'[e])
    BY NoGhostsNext
<1>5. Dooming'
    <2>1. IsInjective(<<>>)
        BY DEF IsInjective
    <2> QED
        BY <1>4, <2>1 DEF Dooming
<1>6. ASSUME NEW e \in Open', NEW y \in Alive(e)', ~Settled(y)' PROVE y = x /\ e = d /\ Coming(e, y)'
    <2>1. y \in Range(nodes'[e]) /\ e \in Directories /\ d \in Directories
        BY <1>1, <1>4
    <2>2. y = x
        BY <1>6, <2>1 DEF OthersSettled
    <2>4. e = d
        BY <2>1, <2>2 DEF Nesting
    <2>5. <<e, y>> \in Range(todo') \/ <<Root, e>> \in Range(todo')
        <3>1. CASE d = Root
            BY <1>3, <2>1, <2>4, <3>1
        <3>2. CASE d # Root
            <4>1. d \in Range(nodes'[Root])
                BY <3>2, OpenInNext
            <4> QED
                BY <1>3, <2>4, <4>1
        <3> QED
            BY <3>1, <3>2
    <2> QED
        BY <2>2, <2>4, <2>5 DEF Coming
<1>7. \A e, g \in Open' : \A y \in Alive(e)', z \in Alive(g)' : ~Settled(y)' /\ ~Settled(z)' => y = z
    BY <1>6
<1>8. Settling'
    BY <1>1, <1>2, <1>3, <1>6, <1>7 DEF Settling
<1> QED
    BY <1>2, <1>3, <1>5, <1>8

\* A node stays where it is when neither it nor its directory's block changes.
LEMMA FitsStill ==
    ASSUME NEW d, NEW x, NodeFits(d, x), disk' = disk, BlockOf(d)' = BlockOf(d),
           node'[x].name = node[x].name, node'[x].block = node[x].block,
           ~node'[x].dirty => ~node[x].dirty
    PROVE  NodeFits(d, x)'
    BY DEF NodeFits, Settled

\* At rest: between two calls of the client.
LEMMA Resting ==
    ASSUME IInv, pc = "idle"
    PROVE  /\ Live /\ doomed = <<>> /\ todo = <<>> /\ diskFree = free /\ Ghosts = {}
           /\ \A d \in Directories : Alive(d) = Range(nodes[d])
           /\ \A d \in Open : \A x \in Range(nodes[d]) : Settled(x) /\ NodeFits(d, x)
           /\ \A d \in Open : loaded[d] =>
                 \A b \in In(disk, BlockOf(d)) :
                    disk[b].id \in Range(nodes[d]) /\ node[disk[b].id].block = b
<1>1. Live
    BY DEF Live
<1>2. doomed = <<>> /\ todo = <<>> /\ diskFree = free
    BY <1>1 DEF IInv, Settling
<1>3. Ghosts = {} /\ \A d \in Directories : Alive(d) = Range(nodes[d])
    BY <1>2, NoGhosts
<1>4. Open \subseteq Directories
    BY DEF Open, Directories
<1>5. \A d \in Open : \A x \in Alive(d) : Settled(x) /\ NodeFits(d, x)
    BY <1>1, AllSettled DEF IInv, Holding
<1>6. Range(doomed) = {}
    BY <1>2 DEF Range
<1>7. \A d \in Open : loaded[d] =>
         \A b \in In(disk, BlockOf(d)) : disk[b].id \in Alive(d) /\ node[disk[b].id].block = b
    BY <1>1, <1>6 DEF IInv, Holding
<1> QED
    BY <1>1, <1>2, <1>3, <1>4, <1>5, <1>7

\* nodeAdd puts a node without a block into a directory the client has looked
\* into, and begins a save: no entry of the disk can have its name.
LEMMA AddHolds ==
    ASSUME IInv, Distinct, NEW d, NEW x \in Ids, NEW content \in Content, NEW bare \in BOOLEAN,
           Add(d, x, content, bare), x \in Dirs => d = Root,
           version' \in [Ids -> Nat], stored' = stored
    PROVE  IInv'
<1>1. /\ pc = "idle" /\ d \in Open /\ x \notin InTree /\ ~OnDisk(x) /\ BlockOf(d) # 0
      /\ loaded[d] \/ EntriesOf(BlockOf(d)) = <<>>
      /\ nodes' = [nodes EXCEPT ![d] = Append(@, x)]
      /\ loaded' = [y \in Directories |-> IF y = d THEN TRUE ELSE IF y = x THEN FALSE ELSE loaded[y]]
      /\ BeginSave /\ free' = free /\ disk' = disk /\ diskFree' = diskFree /\ doomed' = doomed
    BY DEF Add, Distinct, source
<1>2. PICK name \in Names \ Taken(d) :
          node' = [y \in Ids |-> IF y = x THEN NewNode(name, content, bare)
                                 ELSE IF y = d THEN [node[y] EXCEPT !.dirty = TRUE]
                                 ELSE node[y]]
    <2>1. "twin" \notin Ops
        BY DEF Distinct
    <2> QED
        BY <2>1 DEF Add
<1>3. /\ Live /\ doomed = <<>> /\ diskFree = free
      /\ \A e \in Open : \A y \in Range(nodes[e]) : Settled(y) /\ NodeFits(e, y)
      /\ \A e \in Open : loaded[e] =>
            \A b \in In(disk, BlockOf(e)) :
               disk[b].id \in Range(nodes[e]) /\ node[disk[b].id].block = b
    BY <1>1, Resting
<1>4. /\ Root \in Open /\ Root \notin Ids /\ Open \subseteq Directories /\ Files \cap Dirs = {}
      /\ \A e \in Directories : nodes[e] \in Seq(Ids) /\ IsInjective(nodes[e]) /\ Range(nodes[e]) \subseteq Ids
      /\ \A e \in Open : e # Root => e \in Dirs /\ e \in Range(nodes[Root])
      /\ \A e \in Directories : \A y \in Range(nodes[e]) : e \in Open
    BY <1>3, Standing
<1>5. Shapes /\ Nesting /\ Tree(disk) /\ Apart(disk, free)
    BY <1>3 DEF IInv
<1>6. \A e \in Directories : x \notin Range(nodes[e])
    BY <1>1, <1>4 DEF InTree
<1>7. x # d /\ \A e \in Open : e # x
    BY <1>1, <1>4, <1>6
<1>8. nodes' \in [Directories -> Seq(Ids)] /\ \A e \in Directories : e # d => nodes'[e] = nodes[e]
    <2>1. nodes \in [Directories -> Seq(Ids)]
        BY <1>5 DEF Shapes
    <2>2. Append(nodes[d], x) \in Seq(Ids)
        BY <1>1, <1>4
    <2> QED
        BY <1>1, <2>1, <2>2
<1>9. /\ nodes'[d] = Append(nodes[d], x) /\ IsInjective(nodes'[d])
      /\ Range(nodes'[d]) = Range(nodes[d]) \cup {x}
    <2>1. nodes[d] \in Seq(Ids) /\ IsInjective(nodes[d]) /\ x \notin Range(nodes[d]) /\ d \in Directories
        BY <1>1, <1>4, <1>6
    <2>2. nodes'[d] = Append(nodes[d], x)
        <3>1. nodes \in [Directories -> Seq(Ids)]
            BY <1>5 DEF Shapes
        <3> QED
            BY <1>1, <2>1, <3>1
    <2> QED
        BY <2>1, <2>2, InjectiveAppend
<1>10. \A e \in Directories : IsInjective(nodes'[e])
    BY <1>4, <1>8, <1>9
<1>11. /\ node'[x] = NewNode(name, content, bare)
       /\ \A y \in Ids : y # x =>
             /\ node'[y].name = node[y].name /\ node'[y].block = node[y].block
             /\ (~node'[y].dirty => ~node[y].dirty) /\ (y # d => node'[y] = node[y])
    <2>1. \A y \in Ids : node[y] \in NodeType
        BY <1>5 DEF Shapes
    <2>2. \A y \in Ids : y # x /\ y = d => node'[y] = [node[y] EXCEPT !.dirty = TRUE]
        BY <1>2
    <2>3. \A y \in Ids : y # x /\ y = d =>
              node'[y].name = node[y].name /\ node'[y].block = node[y].block /\ node'[y].dirty = TRUE
        BY <2>1, <2>2 DEF NodeType
    <2>4. \A y \in Ids : y # x /\ y # d => node'[y] = node[y]
        BY <1>2
    <2>5. node'[x] = NewNode(name, content, bare)
        BY <1>2
    <2> QED
        BY <2>3, <2>4, <2>5
<1>12. node' \in [Ids -> NodeType]
    <2>1. NewNode(name, content, bare) \in NodeType
        BY DEF NewNode, NodeType, Pointers
    <2>2. \A y \in Ids : node[y] \in NodeType /\ [node[y] EXCEPT !.dirty = TRUE] \in NodeType
        <3>1. \A y \in Ids : node[y] \in NodeType
            BY <1>5 DEF Shapes
        <3>2. \A r \in NodeType : [r EXCEPT !.dirty = TRUE] \in NodeType
            BY DEF NodeType
        <3> QED
            BY <3>1, <3>2
    <2> QED
        BY <1>2, <2>1, <2>2
<1>13. /\ loaded' \in [Directories -> BOOLEAN] /\ loaded'[d] = TRUE
       /\ \A e \in Directories : e # d /\ e # x => loaded'[e] = loaded[e]
       /\ x \in Directories => loaded'[x] = FALSE
    <2>1. loaded \in [Directories -> BOOLEAN] /\ d \in Directories
        BY <1>1, <1>4, <1>5 DEF Shapes
    <2> QED
        BY <1>1, <1>7, <2>1
<1>14. ASSUME NEW e \in Open' PROVE e \in Open \/ (e = x /\ e \in Dirs /\ d = Root)
    <2>1. e = Root \/ (e \in Dirs /\ e \in Range(nodes'[Root]))
        BY OpenInNext
    <2>2. CASE e = Root
        BY <1>4, <2>2
    <2>3. CASE e \in Dirs /\ e \in Range(nodes'[Root])
        <3>1. CASE d = Root
            BY <1>9, <2>3, <3>1 DEF Open
        <3>2. CASE d # Root
            BY <1>4, <1>8, <2>3, <3>2 DEF Open
        <3> QED
            BY <3>1, <3>2
    <2> QED
        BY <2>1, <2>2, <2>3
<1>15. \A e \in Directories : e \in Open => e \in Open'
    <2>1. Range(nodes[Root]) \subseteq Range(nodes'[Root])
        BY <1>4, <1>8, <1>9
    <2> QED
        BY <2>1 DEF Open
<1>16. \A e \in Open : BlockOf(e)' = BlockOf(e)
    <2>1. \A e \in Open : e # Root => e \in Ids /\ e # x
        BY <1>4, <1>7 DEF Ids
    <2> QED
        BY <1>11, <2>1 DEF BlockOf
<1>17. x \in Directories => x \in Dirs /\ d = Root /\ nodes[x] = <<>> /\ nodes'[x] = <<>> /\ Range(<<>>) = {}
    <2>1. ASSUME x \in Directories PROVE x \in Dirs /\ d = Root /\ nodes[x] = <<>>
        <3>1. x \in Dirs /\ d = Root
            BY <1>4, <2>1 DEF Directories
        <3>2. nodes[x] = <<>>
            BY <1>3, <1>7, <2>1, Standing
        <3> QED
            BY <3>1, <3>2
    <2> QED
        BY <1>7, <1>8, <2>1 DEF Range
<1>18. ASSUME NEW e \in Directories PROVE Range(nodes'[e]) = Range(nodes[e]) \cup (IF e = d THEN {x} ELSE {})
    BY <1>8, <1>9
<1>19. Nesting'
    <2>1. ASSUME NEW e \in Dirs PROVE Range(nodes'[e]) \subseteq Files
        <3>1. e \in Directories /\ Range(nodes[e]) \subseteq Files
            BY <1>5 DEF Nesting, Directories
        <3>2. e = d => x \in Files
            BY <1>4 DEF Ids
        <3> QED
            BY <1>18, <3>1, <3>2
    <2>2. ASSUME NEW e \in Directories, NEW g \in Directories, e # g
          PROVE  Range(nodes'[e]) \cap Range(nodes'[g]) = {}
        <3>1. Range(nodes[e]) \cap Range(nodes[g]) = {}
            BY <1>5, <2>2 DEF Nesting
        <3> QED
            BY <1>6, <1>18, <2>2, <3>1
    <2>3. ASSUME NEW e \in Dirs, e \notin Range(nodes'[Root]) PROVE ~loaded'[e]
        <3>1. e \in Directories /\ Root \in Directories
            BY DEF Directories
        <3>2. e \notin Range(nodes[Root])
            BY <1>18, <2>3, <3>1
        <3>3. ~loaded[e]
            BY <1>5, <3>2 DEF Nesting
        <3>4. e # Root
            BY <1>4 DEF Ids
        <3>5. e # d
            BY <1>1, <1>4, <3>2, <3>4
        <3> QED
            BY <1>13, <3>1, <3>3, <3>5
    <2>4. ASSUME NEW e \in Directories, ~loaded'[e] PROVE nodes'[e] = <<>>
        <3>1. e # d
            BY <1>13, <2>4
        <3>2. CASE e = x
            BY <1>17, <3>2
        <3>3. CASE e # x
            BY <1>5, <1>8, <1>13, <2>4, <3>1, <3>3 DEF Nesting
        <3> QED
            BY <3>2, <3>3
    <2>5. ASSUME NEW e \in Open', loaded'[e] PROVE BlockOf(e)' # 0
        <3>1. e \in Directories
            BY OpenInNext
        <3>2. e \in Open
            BY <1>13, <1>14, <1>7, <2>5, <3>1
        <3>3. loaded[e] => BlockOf(e) # 0
            BY <1>5, <3>2 DEF Nesting
        <3>4. e # x
            BY <1>7, <3>2
        <3> QED
            BY <1>1, <1>13, <1>16, <2>5, <3>1, <3>2, <3>3, <3>4
    <2> QED
        BY <2>1, <2>2, <2>3, <2>4, <2>5 DEF Nesting
<1>20. ASSUME NEW b \in AllOn(disk) PROVE disk[b].id # x
    <2>1. b \in Ent(disk) /\ b \in Blocks /\ b \in OwnOn(disk, b)
        BY <1>5, TreeShape DEF Shapes
    <2>2. IsEntry(b)
        BY <1>5, <2>1, Reading DEF Shapes
    <2>3. b \notin free
        BY <1>5, <2>1 DEF Apart
    <2> QED
        BY <1>1, <2>1, <2>2, <2>3 DEF OnDisk
<1>21. NodeFits(d, x)'
    BY <1>1, <1>11, <1>20 DEF NodeFits, NewNode
<1>22. Ghosts' = {} /\ \A e \in Directories : Alive(e)' = Range(nodes'[e])
    BY <1>1, <1>3, NoGhostsNext
<1>23. ASSUME NEW e \in Open', NEW y \in Range(nodes'[e])
       PROVE  /\ NodeFits(e, y)'
              /\ y = x \/ (Settled(y)' /\ Settled(y) /\ e \in Open /\ y \in Range(nodes[e]) /\ y \in Ids)
    <2>1. e \in Directories
        BY OpenInNext
    <2>2. CASE y = x
        <3>1. e = d
            BY <1>6, <1>18, <2>1, <2>2
        <3> QED
            BY <1>21, <2>2, <3>1
    <2>3. CASE y # x
        <3>1. y \in Range(nodes[e]) /\ e \in Open /\ y \in Ids
            <4>1. y \in Range(nodes[e])
                BY <1>18, <2>1, <2>3
            <4> QED
                BY <1>4, <2>1, <4>1
        <3>2. NodeFits(e, y) /\ Settled(y)
            BY <1>3, <3>1
        <3>3. NodeFits(e, y)'
            BY <1>1, <1>11, <1>16, <2>3, <3>1, <3>2, FitsStill
        <3>4. y \in Files => node'[y] = node[y]
            <4>1. y \in Files => y # d
                BY <1>1, <1>4, <3>1
            <4> QED
                BY <1>11, <2>3, <3>1, <4>1
        <3>5. Settled(y)'
            BY <1>1, <1>11, <2>3, <3>1, <3>2, <3>4 DEF Settled
        <3> QED
            BY <3>1, <3>2, <3>3, <3>5
    <2> QED
        BY <2>2, <2>3
<1>24. ASSUME NEW e \in Open', NEW y \in Range(nodes'[e]), NEW z \in Range(nodes'[e]), node'[y].name = node'[z].name
       PROVE  y = z
    <2>1. e \in Directories
        BY OpenInNext
    <2>2. CASE y # x /\ z # x
        <3>1. /\ e \in Open /\ y \in Range(nodes[e]) /\ z \in Range(nodes[e]) /\ y \in Ids /\ z \in Ids
            BY <1>23, <2>2
        <3>2. node[y].name = node[z].name
            BY <1>11, <1>24, <2>2, <3>1
        <3>3. Alive(e) = Range(nodes[e])
            BY <1>3, <2>1, NoGhosts
        <3> QED
            BY <1>3, <3>1, <3>2, <3>3 DEF IInv, Holding
    <2>3. ASSUME NEW w \in Range(nodes'[e]), w # x, x \in Range(nodes'[e]) PROVE node'[w].name # node'[x].name
        <3>1. e = d
            BY <1>6, <1>18, <2>1, <2>3
        <3>2. w \in Range(nodes[d]) /\ w \in Ids
            BY <1>23, <2>3, <3>1
        <3>3. node'[x].name = name
            BY <1>11 DEF NewNode
        <3>4. node[w].name \in Taken(d)
            BY <3>2 DEF Taken
        <3> QED
            BY <1>11, <2>3, <3>2, <3>3, <3>4
    <2> QED
        BY <1>24, <2>2, <2>3
<1>25. ASSUME NEW e \in Open', loaded'[e] \/ e \in Range(doomed'), NEW b \in In(disk', BlockOf(e)')
       PROVE  disk'[b].id \in Range(nodes'[e]) /\ node'[disk'[b].id].block = b
    <2>1. e \in Directories /\ Range(<<>>) = {}
        BY OpenInNext DEF Range
    <2>2. loaded'[e]
        BY <1>1, <1>3, <1>25, <2>1
    <2>3. e # x
        BY <1>13, <2>1, <2>2
    <2>4. e \in Open
        BY <1>14, <2>3
    <2>5. b \in In(disk, BlockOf(e)) /\ disk'[b].id = disk[b].id
        BY <1>1, <1>16, <2>4
    <2>6. loaded[e]
        <3>1. CASE e = d
            <4>1. CASE loaded[d]
                BY <3>1, <4>1
            <4>2. CASE EntriesOf(BlockOf(d)) = <<>>
                <5>1. BlockOf(d) \in DirsOn(disk)
                    BY <1>1, <1>3, OpenBlocks
                <5>2. In(disk, BlockOf(d)) = {}
                    BY <1>5, <4>2, <5>1, EntriesFound DEF Shapes
                <5> QED
                    BY <2>5, <3>1, <5>2
            <4> QED
                BY <1>1, <4>1, <4>2
        <3>2. CASE e # d
            BY <1>13, <2>1, <2>2, <2>3, <3>2
        <3> QED
            BY <3>1, <3>2
    <2>7. disk[b].id \in Range(nodes[e]) /\ node[disk[b].id].block = b
        BY <1>3, <2>4, <2>5, <2>6
    <2>8. disk[b].id \in Ids /\ disk[b].id # x
        BY <1>4, <1>6, <2>1, <2>7
    <2> QED
        BY <1>11, <1>18, <2>1, <2>5, <2>7, <2>8
<1>26. Holding'
    <2>1. Open' \subseteq Directories
        BY OpenInNext
    <2>2. \A e \in Open' : Alive(e)' = Range(nodes'[e])
        BY <1>22, <2>1
    <2> QED
        BY <1>23, <1>24, <1>25, <2>2 DEF Holding
<1>27. Dooming' /\ Settling' /\ todo' \in Seq(Directories \X Ids) /\ pc' = "save"
    <2>1. d \in Open' /\ x \in Range(nodes'[d])
        BY <1>1, <1>4, <1>9, <1>15
    <2>2. nodes'[Root] \in Seq(Ids)
        BY <1>4, <1>8
    <2>3. OthersSettled(x)'
        BY <1>23 DEF OthersSettled
    <2>4. doomed' = <<>> /\ BeginSave
        BY <1>1, <1>3
    <2> QED
        BY <1>19, <2>1, <2>2, <2>3, <2>4, BeginsSave
<1>28. Shapes'
    <2>1. doomed' \in Seq(Ids)
        BY <1>1, <1>3
    <2> QED
        BY <1>1, <1>5, <1>8, <1>10, <1>12, <1>13, <1>27, <2>1 DEF Shapes
<1> QED
    BY <1>1, <1>5, <1>19, <1>26, <1>27, <1>28 DEF IInv

\* The pieces of a content are data of their file.
LEMMA PiecesType ==
    ASSUME NEW f \in Files, NEW v \in Nat, NEW n \in Nat
    PROVE  Pieces(f, v, n) \in Content /\ Len(Pieces(f, v, n)) = n
<1>1. \A j \in 1 .. n : <<f, v, j>> \in Files \X Nat \X Nat
    OBVIOUS
<1> QED
    BY <1>1 DEF Pieces, Content

\* A file is added.
LEMMA AddFileHolds ==
    ASSUME IInv, Distinct, AddFile PROVE IInv'
<1>1. PICK d \in Directories, f \in Files, n \in Sizes, bare \in {FALSE} \cup {"bare" \in Ops} :
          /\ Add(d, f, Pieces(f, version[f] + 1, n), bare)
          /\ version' = [version EXCEPT ![f] = @ + 1]
          /\ stored' = stored
    BY DEF AddFile
<1>2. version \in [Ids -> Nat] /\ f \in Ids /\ n \in Nat
    BY SizesAssumption DEF IInv, Shapes, Ids
<1>3. version[f] + 1 \in Nat
    BY <1>2
<1>4. Pieces(f, version[f] + 1, n) \in Content
    BY <1>2, <1>3, PiecesType
<1>5. bare \in BOOLEAN
    <2>1. bare = FALSE \/ bare = ("bare" \in Ops)
        OBVIOUS
    <2>2. ("bare" \in Ops) = TRUE \/ ("bare" \in Ops) = FALSE
        OBVIOUS
    <2>3. bare = TRUE \/ bare = FALSE
        BY <2>1, <2>2
    <2> QED
        BY <2>3
<1>6. f \in Dirs => d = Root
    BY NodesAssumption
<1>7. version' \in [Ids -> Nat]
    BY <1>1, <1>2, <1>3
<1> QED
    BY <1>1, <1>2, <1>4, <1>5, <1>6, <1>7, AddHolds

\* A directory is added to the root.
LEMMA AddDirectoryHolds ==
    ASSUME IInv, Distinct, AddDirectory PROVE IInv'
<1>1. PICK x \in Dirs :
          /\ Add(Root, x, <<>>, TRUE)
          /\ version' = [version EXCEPT ![x] = @ + 1]
    BY DEF AddDirectory
<1>2. stored' = stored
    BY DEF AddDirectory
<1>3. version \in [Ids -> Nat] /\ x \in Ids
    BY DEF IInv, Shapes, Ids
<1>4. version' \in [Ids -> Nat]
    BY <1>1, <1>3
<1>5. <<>> \in Content /\ TRUE \in BOOLEAN
    BY DEF Content
<1> QED
    BY <1>1, <1>2, <1>3, <1>4, <1>5, AddHolds

\* A node gets a new content or a new name of the same hash, and is dirty: its
\* entry stays in its chain until a save writes it.
LEMMA ChangeHolds ==
    ASSUME IInv, Distinct, pc = "idle", NEW d \in Open, NEW x \in Range(nodes[d]), NEW r \in NodeType,
           node' = [node EXCEPT ![x] = r],
           r.block = node[x].block, r.dirty = TRUE, r.name \in Names,
           HashOf[r.name] = HashOf[node[x].name],
           r.name = node[x].name \/ r.name \notin Taken(d),
           UNCHANGED <<free, nodes, loaded, source, doomed>>, BeginSave,
           version' \in [Ids -> Nat], stored' = stored
    PROVE  IInv'
<1>1. free' = free /\ nodes' = nodes /\ loaded' = loaded /\ disk' = disk /\ diskFree' = diskFree /\ doomed' = doomed
    BY DEF source
<1>2. /\ Live /\ doomed = <<>> /\ diskFree = free
      /\ \A e \in Directories : Alive(e) = Range(nodes[e])
      /\ \A e \in Open : \A y \in Range(nodes[e]) : Settled(y) /\ NodeFits(e, y)
      /\ \A e \in Open : loaded[e] =>
            \A b \in In(disk, BlockOf(e)) :
               disk[b].id \in Range(nodes[e]) /\ node[disk[b].id].block = b
    BY Resting
<1>3. /\ Open \subseteq Directories /\ Root \in Directories
      /\ \A e \in Directories : nodes[e] \in Seq(Ids) /\ Range(nodes[e]) \subseteq Ids
      /\ \A e \in Open : e # Root => e \in Dirs
      /\ \A e \in Directories : \A y \in Range(nodes[e]) : e \in Open
    BY <1>2, Standing DEF Directories
<1>4. Shapes /\ Nesting /\ Holding /\ Tree(disk) /\ Apart(disk, free)
    BY <1>2 DEF IInv
<1>5. x \in Ids /\ node \in [Ids -> NodeType]
    BY <1>3, <1>4 DEF Shapes
<1>6. /\ node' \in [Ids -> NodeType] /\ node'[x] = r
      /\ \A y \in Ids : y # x => node'[y] = node[y]
      /\ \A y \in Ids : node'[y].block = node[y].block
    BY <1>5
<1>7. Open' = Open
    BY <1>1 DEF Open
<1>8. \A e \in Open : BlockOf(e)' = BlockOf(e)
    <2>1. \A e \in Open : e # Root => e \in Ids
        BY <1>3 DEF Ids
    <2> QED
        BY <1>6, <2>1 DEF BlockOf
<1>9. Nesting'
    BY <1>1, <1>4, <1>7, <1>8 DEF Nesting
<1>10. Ghosts' = {} /\ \A e \in Directories : Alive(e)' = Range(nodes[e])
    BY <1>1, <1>2, NoGhostsNext
<1>11. ASSUME NEW e \in Open, NEW y \in Range(nodes[e]) PROVE NodeFits(e, y)' /\ (y = x \/ Settled(y)')
    <2>1. y \in Ids /\ NodeFits(e, y) /\ Settled(y)
        BY <1>2, <1>3
    <2>2. CASE y = x
        <3>1. NodeFits(e, x)'
            BY <1>1, <1>6, <1>8, <2>1, <2>2 DEF NodeFits
        <3> QED
            BY <2>2, <3>1
    <2>3. CASE y # x
        <3>1. node'[y] = node[y]
            BY <1>6, <2>1, <2>3
        <3>2. NodeFits(e, y)'
            BY <1>1, <1>8, <2>1, <3>1, FitsStill
        <3>3. Settled(y)'
            BY <1>1, <2>1, <3>1 DEF Settled
        <3> QED
            BY <3>2, <3>3
    <2> QED
        BY <2>2, <2>3
<1>12. ASSUME NEW e \in Open, NEW y \in Range(nodes[e]), NEW z \in Range(nodes[e]), node'[y].name = node'[z].name
       PROVE  y = z
    <2>1. y \in Ids /\ z \in Ids /\ Alive(e) = Range(nodes[e])
        BY <1>2, <1>3
    <2>2. node[y].name = node[z].name => y = z
        BY <1>4, <2>1 DEF Holding
    <2>3. ASSUME NEW w \in Range(nodes[e]), w # x, x \in Range(nodes[e]), node'[w].name = node'[x].name PROVE FALSE
        <3>1. e = d
            BY <1>3, <1>4, <2>3 DEF Nesting
        <3>2. w \in Ids /\ node'[w] = node[w] /\ node[w].name = r.name
            BY <1>3, <1>6, <2>3
        <3>3. node[w].name \in Taken(d)
            BY <2>3, <3>1 DEF Taken
        <3>4. r.name = node[x].name
            BY <3>2, <3>3
        <3> QED
            BY <1>4, <2>1, <2>3, <3>2, <3>4 DEF Holding
    <2> QED
        BY <1>6, <1>12, <2>1, <2>2, <2>3
<1>13. Holding'
    <2>1. \A e \in Open : loaded[e] \/ e \in Range(doomed) => loaded[e]
        BY <1>2 DEF Range
    <2>2. \A e \in Open : loaded[e] =>
             \A b \in In(disk, BlockOf(e)) : disk[b].id \in Range(nodes[e]) /\ node'[disk[b].id].block = b
        BY <1>2, <1>3, <1>6
    <2>3. \A e \in Open : Alive(e)' = Range(nodes[e])
        BY <1>3, <1>10
    <2> QED
        BY <1>1, <1>7, <1>8, <1>11, <1>12, <2>1, <2>2, <2>3 DEF Holding
<1>14. Dooming' /\ Settling' /\ todo' \in Seq(Directories \X Ids) /\ pc' = "save"
    <2>1. d \in Open' /\ x \in Range(nodes'[d])
        BY <1>1, <1>7
    <2>2. nodes'[Root] \in Seq(Ids)
        BY <1>1, <1>3
    <2>3. OthersSettled(x)'
        BY <1>1, <1>7, <1>11, <1>7 DEF OthersSettled
    <2>4. doomed' = <<>> /\ BeginSave
        BY <1>1, <1>2
    <2> QED
        BY <1>9, <2>1, <2>2, <2>3, <2>4, BeginsSave
<1>15. Shapes'
    BY <1>1, <1>4, <1>6, <1>14 DEF Shapes
<1> QED
    BY <1>1, <1>4, <1>9, <1>13, <1>14, <1>15 DEF IInv

\* buffer is given to a file.
LEMMA SetContentHolds ==
    ASSUME IInv, Distinct, SetContent PROVE IInv'
<1>1. PICK f \in InTree \cap Files, n \in Sizes :
          /\ version' = [version EXCEPT ![f] = @ + 1]
          /\ LET c == Pieces(f, version[f] + 1, n) IN
                node' = [node EXCEPT ![f].content = c, ![f].given = c,
                                     ![f].bare = FALSE, ![f].dirty = TRUE]
    BY DEF SetContent
<1>2. pc = "idle" /\ UNCHANGED <<free, nodes, loaded, source, doomed>> /\ BeginSave /\ stored' = stored
    BY DEF SetContent
<1>3. PICK d \in Open : f \in Range(nodes[d])
    BY DEF InTree
<1>4. version \in [Ids -> Nat] /\ node \in [Ids -> NodeType] /\ f \in Ids /\ n \in Nat /\ version[f] + 1 \in Nat
    BY SizesAssumption DEF IInv, Shapes, Ids
<1>5. PICK c : c = Pieces(f, version[f] + 1, n)
    OBVIOUS
<1>6. c \in Content
    BY <1>4, <1>5, PiecesType
<1>7. PICK r : r = [node[f] EXCEPT !.content = c, !.given = c, !.bare = FALSE, !.dirty = TRUE]
    OBVIOUS
<1>8. node[f] \in NodeType
    BY <1>4
<1>9. r \in NodeType /\ r.block = node[f].block /\ r.dirty = TRUE /\ r.name = node[f].name
    BY <1>6, <1>7, <1>8 DEF NodeType
<1>10. node' = [node EXCEPT ![f] = r]
    BY <1>1, <1>4, <1>5, <1>7
<1>11. node[f].name \in Names
    BY <1>2, <1>3, Resting DEF NodeFits
<1>12. version' \in [Ids -> Nat]
    BY <1>1, <1>4
<1>13. HashOf[r.name] = HashOf[node[f].name] /\ r.name \in Names
    BY <1>9, <1>11
<1>14. r.name = node[f].name \/ r.name \notin Taken(d)
    BY <1>9
<1> QED
    BY <1>2, <1>3, <1>9, <1>10, <1>12, <1>13, <1>14, ChangeHolds

\* nameSet on a node, whose name no other node of the directory has.
LEMMA RenameHolds ==
    ASSUME IInv, Distinct, Rename PROVE IInv'
<1>1. PICK d \in Open : \E x \in Range(nodes[d]), name \in Names \ Taken(d) :
          /\ HashOf[name] = HashOf[node[x].name]
          /\ node' = [node EXCEPT ![x].name = name, ![x].dirty = TRUE]
    <2>1. "rehash" \notin Ops
        BY DEF Distinct
    <2> QED
        BY <2>1 DEF Rename
<1>2. PICK x \in Range(nodes[d]), name \in Names \ Taken(d) :
          /\ HashOf[name] = HashOf[node[x].name]
          /\ node' = [node EXCEPT ![x].name = name, ![x].dirty = TRUE]
    BY <1>1
<1>3. /\ pc = "idle" /\ UNCHANGED <<free, nodes, loaded, source, doomed>> /\ BeginSave
      /\ stored' = stored /\ version' = version
    BY DEF Rename, history
<1>4. version \in [Ids -> Nat] /\ node \in [Ids -> NodeType]
    BY DEF IInv, Shapes
<1>5. x \in Ids
    <2>1. Live /\ d \in Directories
        BY <1>3, Resting DEF Open, Directories
    <2> QED
        BY <2>1, Standing
<1>6. PICK r : r = [node[x] EXCEPT !.name = name, !.dirty = TRUE]
    OBVIOUS
<1>7. node[x] \in NodeType
    BY <1>4, <1>5
<1>8. r \in NodeType /\ r.block = node[x].block /\ r.dirty = TRUE /\ r.name = name
    BY <1>6, <1>7 DEF NodeType
<1>9. node' = [node EXCEPT ![x] = r]
    BY <1>2, <1>4, <1>5, <1>6
<1>10. version' \in [Ids -> Nat]
    BY <1>3, <1>4
<1>11. HashOf[r.name] = HashOf[node[x].name] /\ r.name \in Names /\ (r.name = node[x].name \/ r.name \notin Taken(d))
    BY <1>2, <1>8
<1> QED
    BY <1>3, <1>8, <1>9, <1>10, <1>11, ChangeHolds

-----------------------------------------------------------------------------
(* A directory is looked into *)

\* What entriesLoad finds is not in another directory.
LEMMA LooksIn ==
    ASSUME IInv, pc = "idle", NEW d \in Open, BlockOf(d) # 0, ~loaded[d], EntriesLoad(d)
    PROVE  /\ nodes' \in [Directories -> Seq(Ids)] /\ loaded' \in [Directories -> BOOLEAN]
           /\ \A e \in Directories : IsInjective(nodes'[e])
           /\ \A e \in Directories : e # d => nodes'[e] = nodes[e] /\ loaded'[e] = loaded[e]
           /\ Range(nodes'[d]) = {disk[b].id : b \in In(disk, BlockOf(d))}
           /\ ~loaded'[d] => nodes'[d] = <<>>
           /\ d # Root => Range(nodes'[d]) \subseteq Files
           /\ \A b \in In(disk, BlockOf(d)) :
                 /\ disk[b].id \in Ids /\ disk[b].id # d /\ \A e \in Directories : disk[b].id \notin Range(nodes[e])
                 /\ NodesLoaded(d)[disk[b].id] = LoadedNode(b)
           /\ \A y \in Ids : y \notin Range(nodes'[d]) => NodesLoaded(d)[y] = node[y]
           /\ NodesLoaded(d) \in [Ids -> NodeType]
<1> DEFINE p == BlockOf(d)
<1>1. /\ Live /\ \A e \in Directories : Alive(e) = Range(nodes[e])
      /\ \A e \in Open : \A y \in Range(nodes[e]) : Settled(y)
    BY Resting
<1>2. Shapes /\ Nesting /\ Tree(disk) /\ disk \in Disks
    BY <1>1 DEF IInv, Shapes
<1>3. /\ Root \notin Ids /\ d \in Directories /\ (d # Root => d \in Dirs) /\ Files \cap Dirs = {}
      /\ \A e \in Directories : \A x \in Range(nodes[e]) : e \in Open /\ loaded[e] /\ BlockOf(e) # 0
    BY <1>1, Standing
<1>4. p \in DirsOn(disk) /\ (d # Root => p # RootBlock) /\ \A e \in Open : BlockOf(e) = p => e = d
    BY <1>1, OpenBlocks
<1>5. \A b \in In(disk, p) : b \in AllOn(disk) /\ disk[b].parent = p /\ (p # RootBlock => disk[b].kind = "file")
    BY <1>2, <1>4, TreeShape
<1>6. \A b \in AllOn(disk) : disk[b] \in EntryType /\ disk[b].kind = IF disk[b].id \in Files THEN "file" ELSE "dir"
    BY <1>2, TreeShape DEF Tree, EntryFits
<1>7. \A b, c \in AllOn(disk) : disk[b].id = disk[c].id => b = c
    BY <1>2 DEF Tree
<1>8. PICK found : found = EntriesOf(p)
    OBVIOUS
<1>9. /\ found \in Seq(Blocks) /\ IsInjective(found) /\ Range(found) = In(disk, p)
    BY <1>2, <1>4, <1>8, EntriesFound
<1>10. PICK n \in Nat : n = Len(found)
    BY <1>9
<1>11. DOMAIN found = 1 .. n /\ \A k \in 1 .. n : found[k] \in In(disk, p)
    BY <1>9, <1>10 DEF Range
<1>12. PICK c : c = [k \in 1 .. n |-> disk[found[k]].id]
    OBVIOUS
<1>13. c \in Seq(Ids) /\ DOMAIN c = 1 .. n /\ \A k \in 1 .. n : c[k] = disk[found[k]].id
    <2>1. \A k \in 1 .. n : disk[found[k]].id \in Ids
        BY <1>5, <1>6, <1>11 DEF EntryType
    <2> QED
        BY <1>12, <2>1
<1>14. IsInjective(c)
    <2> SUFFICES ASSUME NEW i \in 1 .. n, NEW j \in 1 .. n, c[i] = c[j] PROVE i = j
        BY <1>13 DEF IsInjective
    <2>1. found[i] = found[j]
        BY <1>5, <1>7, <1>11, <1>13
    <2> QED
        BY <1>9, <1>11, <2>1 DEF IsInjective
<1>15. Range(c) = {disk[b].id : b \in In(disk, p)}
    <2>1. \A b \in In(disk, p) : \E k \in 1 .. n : b = found[k]
        BY <1>9, <1>11 DEF Range
    <2>2. \A b \in In(disk, p) : disk[b].id \in Range(c)
        BY <1>13, <2>1 DEF Range
    <2>3. \A x \in Range(c) : \E k \in 1 .. n : x = disk[found[k]].id
        BY <1>13 DEF Range
    <2> QED
        BY <1>11, <2>2, <2>3
<1>16. /\ nodes' = [nodes EXCEPT ![d] = c]
       /\ loaded' = [loaded EXCEPT ![d] = found # <<>>]
    BY <1>8, <1>10, <1>12 DEF EntriesLoad
<1>17. nodes \in [Directories -> Seq(Ids)] /\ loaded \in [Directories -> BOOLEAN]
       /\ \A e \in Directories : IsInjective(nodes[e])
    BY <1>2 DEF Shapes
<1>18. /\ nodes' \in [Directories -> Seq(Ids)] /\ nodes'[d] = c
       /\ \A e \in Directories : e # d => nodes'[e] = nodes[e]
    BY <1>3, <1>13, <1>16, <1>17
<1>19. /\ loaded' \in [Directories -> BOOLEAN] /\ (loaded'[d] <=> found # <<>>)
       /\ \A e \in Directories : e # d => loaded'[e] = loaded[e]
    <2>1. (found # <<>>) \in BOOLEAN
        OBVIOUS
    <2> QED
        BY <1>3, <1>16, <1>17, <2>1
<1>20. ~loaded'[d] => nodes'[d] = <<>>
    <2> SUFFICES ASSUME ~loaded'[d] PROVE c = <<>>
        BY <1>18
    <2>1. n = 0
        BY <1>10, <1>19
    <2> QED
        BY <1>13, <2>1
<1>21. \A b \in In(disk, p) : disk[b].id \in Ids /\ (disk[b].kind = "file" => disk[b].id \in Files)
    BY <1>5, <1>6 DEF EntryType
<1>22. d # Root => Range(nodes'[d]) \subseteq Files
    BY <1>4, <1>5, <1>15, <1>18, <1>21
<1>23. ASSUME NEW b \in In(disk, p), NEW e \in Directories, disk[b].id \in Range(nodes[e]) PROVE FALSE
    <2>1. e \in Open /\ loaded[e] /\ disk[b].id \in Alive(e)
        BY <1>1, <1>3, <1>23
    <2>2. node[disk[b].id].block # 0
        BY <1>1, <1>23, <2>1 DEF Settled
    <2>3. b = node[disk[b].id].block /\ disk[node[disk[b].id].block].parent = BlockOf(e)
        BY <1>1, <1>5, <2>1, <2>2, NodeAt
    <2>4. BlockOf(e) = p
        BY <1>5, <2>3
    <2> QED
        BY <1>4, <2>1, <2>4
<1>24. \A b \in In(disk, p) : disk[b].id # d
    <2> SUFFICES ASSUME NEW b \in In(disk, p), disk[b].id = d PROVE FALSE
        OBVIOUS
    <2>1. d # Root
        BY <1>3, <1>21
    <2>2. d \in Files
        BY <1>4, <1>5, <1>21, <2>1
    <2> QED
        BY <1>3, <2>1, <2>2
<1>25. NodesLoaded(d) = [x \in Ids |-> IF \E b \in In(disk, p) : disk[b].id = x
                                       THEN LoadedNode(CHOOSE b \in In(disk, p) : disk[b].id = x)
                                       ELSE node[x]]
    BY <1>8, <1>9 DEF NodesLoaded
<1>26. ASSUME NEW b \in In(disk, p) PROVE NodesLoaded(d)[disk[b].id] = LoadedNode(b)
    <2>1. (CHOOSE c1 \in In(disk, p) : disk[c1].id = disk[b].id) = b
        BY <1>5, <1>7
    <2>2. NodesLoaded(d)[disk[b].id] = LoadedNode(CHOOSE c1 \in In(disk, p) : disk[c1].id = disk[b].id)
        BY <1>21, <1>25
    <2> QED
        BY <2>1, <2>2
<1>27. \A y \in Ids : y \notin Range(nodes'[d]) => NodesLoaded(d)[y] = node[y]
    BY <1>15, <1>18, <1>25
<1>28. ASSUME NEW b \in In(disk, p) PROVE LoadedNode(b) \in NodeType
    <2>1. disk[b].name \in Names /\ b \in Pointers
        BY <1>5, <1>6, <1>2, TreeShape DEF EntryType, Pointers
    <2>2. <<>> \in Content
        BY DEF Content
    <2>3. stored \in [Files -> Content \cup {Gone}]
        BY <1>2 DEF Shapes
    <2>4. (IF disk[b].id \in Files THEN stored[disk[b].id] ELSE <<>>) \in Content \cup {Gone}
        BY <2>2, <2>3
    <2> QED
        BY <2>1, <2>2, <2>4 DEF LoadedNode, NodeType
<1>29. NodesLoaded(d) \in [Ids -> NodeType]
    <2>1. \A y \in Ids : NodesLoaded(d)[y] \in NodeType
        <3> SUFFICES ASSUME NEW y \in Ids PROVE NodesLoaded(d)[y] \in NodeType
            OBVIOUS
        <3>1. CASE y \in Range(nodes'[d])
            <4>1. PICK b \in In(disk, p) : y = disk[b].id
                BY <1>15, <1>18, <3>1
            <4> QED
                BY <1>26, <1>28, <4>1
        <3>2. CASE y \notin Range(nodes'[d])
            BY <1>2, <1>27, <3>2 DEF Shapes
        <3> QED
            BY <3>1, <3>2
    <2>2. NodesLoaded(d) = [y \in Ids |-> NodesLoaded(d)[y]]
        BY <1>25
    <2> QED
        BY <2>1, <2>2
<1>30. \A e \in Directories : IsInjective(nodes'[e])
    BY <1>14, <1>17, <1>18
<1> QED
    BY <1>15, <1>18, <1>19, <1>20, <1>21, <1>22, <1>23, <1>24, <1>26, <1>27, <1>29, <1>30

\* A directory looked into holds what is on disk.
LEMMA Looks ==
    ASSUME IInv, pc = "idle", NEW d \in Open, BlockOf(d) # 0, ~loaded[d], EntriesLoad(d), disk' = disk,
           node' \in [Ids -> NodeType], \A y \in Ids : y # d => node'[y] = NodesLoaded(d)[y],
           d \in Ids => /\ node'[d].name = node[d].name /\ node'[d].block = node[d].block
                        /\ ~node'[d].dirty => ~node[d].dirty,
           Ghosts' = {}, \A e \in Directories : e \in Range(doomed') => e = d
    PROVE  /\ Nesting' /\ Holding' /\ \A e \in Open' : \A y \in Range(nodes'[e]) : Settled(y)'
           /\ d # Root => nodes'[Root] = nodes[Root]
<1>1. /\ Live /\ \A e \in Directories : Alive(e) = Range(nodes[e])
      /\ \A e \in Open : \A y \in Range(nodes[e]) : Settled(y) /\ NodeFits(e, y)
      /\ \A e \in Open : loaded[e] =>
            \A b \in In(disk, BlockOf(e)) :
               disk[b].id \in Range(nodes[e]) /\ node[disk[b].id].block = b
    BY Resting
<1>2. Shapes /\ Nesting /\ Holding /\ Tree(disk) /\ disk \in Disks
    BY <1>1 DEF IInv, Shapes
<1>3. /\ Root \in Open /\ Root \in Directories /\ Root \notin Ids /\ d \in Directories /\ (d # Root => d \in Dirs)
      /\ Open \subseteq Directories /\ Files \cap Dirs = {}
      /\ \A e \in Directories : Range(nodes[e]) \subseteq Ids
      /\ \A e \in Open : e # Root => e \in Dirs /\ e \in Range(nodes[Root])
      /\ \A e \in Directories : \A x \in Range(nodes[e]) : e \in Open /\ loaded[e] /\ BlockOf(e) # 0
    BY <1>1, Standing DEF Directories
<1>4. /\ nodes' \in [Directories -> Seq(Ids)] /\ loaded' \in [Directories -> BOOLEAN]
      /\ \A e \in Directories : e # d => nodes'[e] = nodes[e] /\ loaded'[e] = loaded[e]
      /\ Range(nodes'[d]) = {disk[b].id : b \in In(disk, BlockOf(d))}
      /\ ~loaded'[d] => nodes'[d] = <<>>
      /\ d # Root => Range(nodes'[d]) \subseteq Files
      /\ \A b \in In(disk, BlockOf(d)) :
            /\ disk[b].id \in Ids /\ disk[b].id # d /\ \A e \in Directories : disk[b].id \notin Range(nodes[e])
            /\ NodesLoaded(d)[disk[b].id] = LoadedNode(b)
      /\ \A y \in Ids : y \notin Range(nodes'[d]) => NodesLoaded(d)[y] = node[y]
    BY LooksIn
<1>5. BlockOf(d) \in DirsOn(disk)
    BY <1>1, OpenBlocks
<1>6. \A b \in In(disk, BlockOf(d)) : b \in AllOn(disk) /\ b # 0 /\ disk[b] \in EntryType /\ b \in Blocks
    <2>1. \A b \in In(disk, BlockOf(d)) : b \in AllOn(disk)
        BY <1>2, <1>5, TreeShape
    <2> QED
        BY <1>2, <2>1, TreeShape, BlocksShape
<1>7. \A b \in In(disk, BlockOf(d)) :
          /\ node'[disk[b].id].name = disk[b].name /\ node'[disk[b].id].block = b
          /\ ~node'[disk[b].id].dirty
    <2> SUFFICES ASSUME NEW b \in In(disk, BlockOf(d))
                 PROVE  /\ node'[disk[b].id].name = disk[b].name /\ node'[disk[b].id].block = b
                        /\ ~node'[disk[b].id].dirty
        OBVIOUS
    <2>1. disk[b].id \in Ids /\ disk[b].id # d /\ NodesLoaded(d)[disk[b].id] = LoadedNode(b)
        BY <1>4
    <2>2. node'[disk[b].id] = LoadedNode(b)
        BY <2>1
    <2>3. LoadedNode(b).name = disk[b].name /\ LoadedNode(b).block = b /\ LoadedNode(b).dirty = FALSE
        BY DEF LoadedNode
    <2> QED
        BY <2>2, <2>3
<1>8. \A e \in Directories : \A y \in Range(nodes[e]) :
          /\ y \in Ids /\ y \notin Range(nodes'[d])
          /\ node'[y].name = node[y].name /\ node'[y].block = node[y].block
          /\ (~node'[y].dirty => ~node[y].dirty) /\ (y \in Files => node'[y] = node[y])
    <2> SUFFICES ASSUME NEW e \in Directories, NEW y \in Range(nodes[e])
                 PROVE  /\ y \in Ids /\ y \notin Range(nodes'[d])
                        /\ node'[y].name = node[y].name /\ node'[y].block = node[y].block
                        /\ (~node'[y].dirty => ~node[y].dirty) /\ (y \in Files => node'[y] = node[y])
        OBVIOUS
    <2>1. y \in Ids
        BY <1>3
    <2>2. y \notin Range(nodes'[d])
        BY <1>4
    <2>3. y # d => node'[y] = node[y]
        BY <1>4, <2>1, <2>2
    <2>4. y = d => y \notin Files
        BY <1>3, <2>1
    <2> QED
        BY <2>1, <2>2, <2>3, <2>4
<1>9. d = Root => nodes[Root] = <<>> /\ Open = {Root}
    <2> SUFFICES ASSUME d = Root PROVE nodes[Root] = <<>> /\ Open = {Root}
        OBVIOUS
    <2>1. nodes[Root] = <<>>
        BY <1>2, <1>3 DEF Nesting
    <2>2. Range(<<>>) = {}
        BY DEF Range
    <2> QED
        BY <2>1, <2>2 DEF Open
<1>10. ASSUME NEW e \in Open' PROVE e \in Directories /\ (e \in Open \/ (d = Root /\ e \in Dirs /\ e # d))
    <2>1. e \in Directories /\ (e = Root \/ (e \in Dirs /\ e \in Range(nodes'[Root])))
        BY OpenInNext
    <2>2. d # Root => nodes'[Root] = nodes[Root]
        BY <1>3, <1>4
    <2>3. e \in Dirs => e # Root
        BY <1>3 DEF Ids
    <2> QED
        BY <1>3, <2>1, <2>2, <2>3 DEF Open
<1>11. \A e \in Open : BlockOf(e)' = BlockOf(e)
    <2>1. \A e \in Open : e # Root => node'[e].block = node[e].block
        BY <1>3, <1>8
    <2> QED
        BY <2>1 DEF BlockOf
<1>12. ASSUME NEW e \in Directories, e # d, NEW y \in Range(nodes'[e])
       PROVE  e \in Open /\ loaded[e] /\ y \in Range(nodes[e]) /\ y \in Ids
    BY <1>3, <1>4, <1>12
<1>13. ASSUME NEW e \in Open', e # d, loaded'[e] PROVE e \in Open /\ loaded[e]
    <2>1. e \in Directories /\ loaded[e]
        BY <1>4, <1>10, <1>13
    <2>2. e # Root => e \in Dirs /\ e \in Range(nodes[Root])
        <3>1. e # Root => e \in Dirs
            BY <2>1 DEF Directories
        <3> QED
            BY <1>2, <2>1, <3>1 DEF Nesting
    <2> QED
        BY <1>3, <2>1, <2>2 DEF Open
<1>14. Nesting'
    <2>1. ASSUME NEW e \in Dirs PROVE Range(nodes'[e]) \subseteq Files
        <3>1. e \in Directories /\ e # Root
            BY <1>3 DEF Directories, Ids
        <3> QED
            BY <1>2, <1>4, <3>1 DEF Nesting
    <2>2. ASSUME NEW e \in Directories, NEW g \in Directories, e # g
          PROVE  Range(nodes'[e]) \cap Range(nodes'[g]) = {}
        <3>1. ASSUME NEW a \in Directories, a # d PROVE Range(nodes'[a]) \cap Range(nodes'[d]) = {}
            <4>1. nodes'[a] = nodes[a]
                BY <1>4, <3>1
            <4>2. \A y \in Range(nodes'[d]) : y \notin Range(nodes[a])
                BY <1>4
            <4> QED
                BY <4>1, <4>2
        <3>2. e # d /\ g # d => Range(nodes'[e]) \cap Range(nodes'[g]) = {}
            BY <1>2, <1>4, <2>2 DEF Nesting
        <3> QED
            BY <2>2, <3>1, <3>2
    <2>3. ASSUME NEW e \in Dirs, e \notin Range(nodes'[Root]) PROVE ~loaded'[e]
        <3>1. e \in Directories /\ e # Root
            BY <1>3 DEF Directories, Ids
        <3>2. CASE e = d
            BY <1>3, <1>4, <2>3, <3>1, <3>2
        <3>3. CASE e # d
            <4>1. SUFFICES ASSUME loaded[e] PROVE FALSE
                BY <1>4, <3>1, <3>3
            <4>2. e \in Range(nodes[Root])
                BY <1>2, <4>1 DEF Nesting
            <4>3. d # Root
                BY <1>9, <4>2 DEF Range
            <4> QED
                BY <1>3, <1>4, <2>3, <4>2, <4>3
        <3> QED
            BY <3>2, <3>3
    <2>4. ASSUME NEW e \in Directories, ~loaded'[e] PROVE nodes'[e] = <<>>
        BY <1>2, <1>4, <2>4 DEF Nesting
    <2>5. ASSUME NEW e \in Open', loaded'[e] PROVE BlockOf(e)' # 0
        <3>1. e \in Open
            BY <1>13, <2>5
        <3>2. e # d => loaded[e]
            BY <1>13, <2>5
        <3>3. BlockOf(e) # 0
            BY <1>2, <3>1, <3>2 DEF Nesting
        <3> QED
            BY <1>11, <3>1, <3>3
    <2> QED
        BY <2>1, <2>2, <2>3, <2>4, <2>5 DEF Nesting
<1>15. \A e \in Directories : Alive(e)' = Range(nodes'[e])
    BY DEF Alive
<1>16. ASSUME NEW y \in Range(nodes'[d]) PROVE NodeFits(d, y)' /\ Settled(y)'
    <2>1. PICK b \in In(disk, BlockOf(d)) : y = disk[b].id
        BY <1>4
    <2>2. /\ node'[y].name = disk[b].name /\ node'[y].block = b /\ ~node'[y].dirty /\ b # 0
          /\ disk[b].name \in Names
        BY <1>6, <1>7, <2>1 DEF EntryType
    <2>3. Settled(y)'
        BY <2>2 DEF Settled
    <2>4. BlockOf(d)' = BlockOf(d)
        BY <1>11
    <2>5. NodeFits(d, y)'
        BY <2>1, <2>2, <2>3, <2>4 DEF NodeFits
    <2> QED
        BY <2>3, <2>5
<1>17. ASSUME NEW e \in Directories, e # d, NEW y \in Range(nodes'[e]) PROVE NodeFits(e, y)' /\ Settled(y)'
    <2>1. e \in Open /\ y \in Range(nodes[e]) /\ NodeFits(e, y) /\ Settled(y)
        BY <1>1, <1>12, <1>17
    <2>2. /\ node'[y].name = node[y].name /\ node'[y].block = node[y].block
          /\ (~node'[y].dirty => ~node[y].dirty) /\ (y \in Files => node'[y] = node[y])
        BY <1>3, <1>8, <2>1
    <2>3. NodeFits(e, y)'
        BY <1>11, <2>1, <2>2, FitsStill
    <2>4. Settled(y)'
        BY <2>1, <2>2 DEF Settled
    <2> QED
        BY <2>3, <2>4
<1>18. ASSUME NEW e \in Open', NEW y \in Range(nodes'[e]), NEW z \in Range(nodes'[e]), node'[y].name = node'[z].name
       PROVE  y = z
    <2>1. CASE e = d
        <3>1. PICK b \in In(disk, BlockOf(d)) : y = disk[b].id
            BY <1>4, <2>1
        <3>2. PICK c \in In(disk, BlockOf(d)) : z = disk[c].id
            BY <1>4, <2>1
        <3>3. disk[b].name = disk[c].name
            BY <1>7, <1>18, <3>1, <3>2
        <3> QED
            BY <1>2, <1>5, <3>1, <3>2, <3>3 DEF Tree
    <2>2. CASE e # d
        <3>1. e \in Open /\ y \in Range(nodes[e]) /\ z \in Range(nodes[e]) /\ e \in Directories
            BY <1>10, <1>12, <2>2
        <3>2. node[y].name = node[z].name
            BY <1>8, <1>18, <3>1
        <3> QED
            BY <1>1, <1>2, <3>1, <3>2 DEF Holding
    <2> QED
        BY <2>1, <2>2
<1>19. ASSUME NEW e \in Open', loaded'[e] \/ e \in Range(doomed'), NEW b \in In(disk', BlockOf(e)')
       PROVE  disk'[b].id \in Range(nodes'[e]) /\ node'[disk'[b].id].block = b
    <2>1. e \in Directories
        BY <1>10
    <2>2. CASE e = d
        <3>1. b \in In(disk, BlockOf(d))
            BY <1>11, <1>19, <2>2
        <3> QED
            BY <1>4, <1>7, <2>2, <3>1
    <2>3. CASE e # d
        <3>1. e \in Open /\ loaded[e]
            BY <1>13, <1>19, <2>1, <2>3
        <3>2. b \in In(disk, BlockOf(e))
            BY <1>11, <3>1
        <3>3. disk[b].id \in Range(nodes[e]) /\ node[disk[b].id].block = b
            BY <1>1, <3>1, <3>2
        <3> QED
            BY <1>4, <1>8, <2>1, <2>3, <3>3
    <2> QED
        BY <2>2, <2>3
<1>20. Holding'
    <2>1. \A e \in Open' : e \in Directories /\ Alive(e)' = Range(nodes'[e])
        BY <1>10, <1>15
    <2> QED
        BY <1>16, <1>17, <1>18, <1>19, <2>1 DEF Holding
<1>21. \A e \in Open' : \A y \in Range(nodes'[e]) : Settled(y)'
    BY <1>10, <1>16, <1>17
<1>22. d # Root => nodes'[Root] = nodes[Root]
    BY <1>3, <1>4
<1> QED
    BY <1>14, <1>20, <1>21, <1>22

\* Nothing is left to save.
LEMMA Settles ==
    ASSUME todo' = <<>>, pc' = "idle" => doomed' = <<>> /\ diskFree' = free',
           \A e \in Open' : \A y \in Alive(e)' : Settled(y)'
    PROVE  Settling'
<1>1. Range(<<>>) = {}
    BY DEF Range
<1> QED
    BY <1>1 DEF Settling

\* entriesLoad makes a node of each entry of a directory not looked into yet.
LEMMA OpenDirectoryHolds ==
    ASSUME IInv, OpenDirectory PROVE IInv'
<1>1. PICK d \in Open : /\ ~loaded[d] /\ BlockOf(d) # 0 /\ EntriesLoad(d) /\ node' = NodesLoaded(d)
    BY DEF OpenDirectory
<1>2. /\ pc = "idle" /\ free' = free /\ disk' = disk /\ diskFree' = diskFree /\ pc' = pc /\ todo' = todo
      /\ doomed' = doomed /\ version' = version /\ stored' = stored
    BY DEF OpenDirectory, source, history
<1>3. Live /\ doomed = <<>> /\ todo = <<>> /\ diskFree = free
    BY <1>2, Resting
<1>4. Shapes /\ Tree(disk) /\ Apart(disk, free)
    BY <1>3 DEF IInv
<1>5. Ghosts' = {} /\ \A e \in Directories : Alive(e)' = Range(nodes'[e])
    BY <1>2, <1>3, NoGhostsNext
<1>6. /\ nodes' \in [Directories -> Seq(Ids)] /\ loaded' \in [Directories -> BOOLEAN]
      /\ \A e \in Directories : IsInjective(nodes'[e])
      /\ NodesLoaded(d) \in [Ids -> NodeType]
      /\ \A b \in In(disk, BlockOf(d)) :
            /\ disk[b].id \in Ids /\ disk[b].id # d
      /\ Range(nodes'[d]) = {disk[b].id : b \in In(disk, BlockOf(d))}
      /\ \A y \in Ids : y \notin Range(nodes'[d]) => NodesLoaded(d)[y] = node[y]
    BY <1>1, <1>2, LooksIn
<1>7. d \in Ids => node'[d] = node[d]
    BY <1>1, <1>6
<1>8. /\ Nesting' /\ Holding' /\ \A e \in Open' : \A y \in Range(nodes'[e]) : Settled(y)'
    <2>1. \A e \in Directories : e \in Range(doomed') => e = d
        BY <1>2, <1>3 DEF Range
    <2>2. node' \in [Ids -> NodeType]
        BY <1>1, <1>6
    <2>3. \A y \in Ids : y # d => node'[y] = NodesLoaded(d)[y]
        BY <1>1
    <2>4. d \in Ids => /\ node'[d].name = node[d].name /\ node'[d].block = node[d].block
                       /\ ~node'[d].dirty => ~node[d].dirty
        BY <1>7
    <2> QED
        BY <1>1, <1>2, <1>5, <2>1, <2>2, <2>3, <2>4, Looks
<1>9. Dooming'
    <2>1. IsInjective(<<>>)
        BY DEF IsInjective
    <2> QED
        BY <1>2, <1>3, <1>5, <2>1 DEF Dooming
<1>10. Settling'
    <2>1. \A e \in Open' : e \in Directories
        BY OpenInNext
    <2>2. \A e \in Open' : \A y \in Alive(e)' : Settled(y)'
        BY <1>5, <1>8, <2>1
    <2>3. todo' = <<>> /\ (pc' = "idle" => doomed' = <<>> /\ diskFree' = free')
        BY <1>2, <1>3
    <2> QED
        BY <2>2, <2>3, Settles
<1>11. Shapes'
    BY <1>1, <1>2, <1>4, <1>6 DEF Shapes
<1> QED
    BY <1>2, <1>4, <1>8, <1>9, <1>10, <1>11 DEF IInv

\* A directory is to be removed: its nodes come first, and it comes last.
LEMMA RemoveDirectoryHolds ==
    ASSUME IInv, RemoveDirectory PROVE IInv'
<1>1. PICK x \in Open \cap Dirs :
          /\ node[x].block # 0
          /\ IF loaded[x] THEN UNCHANGED <<nodes, loaded>> ELSE EntriesLoad(x)
          /\ node' = [(IF loaded[x] THEN node ELSE NodesLoaded(x)) EXCEPT ![x].dirty = TRUE]
          /\ doomed' = Append(nodes'[x], x)
    BY DEF RemoveDirectory
<1>2. /\ pc = "idle" /\ free' = free /\ disk' = disk /\ diskFree' = diskFree /\ pc' = "remove" /\ todo' = todo
      /\ version' = version /\ stored' = stored
    BY DEF RemoveDirectory, source, history
<1>3. /\ Live /\ doomed = <<>> /\ todo = <<>> /\ diskFree = free
      /\ \A e \in Directories : Alive(e) = Range(nodes[e])
      /\ \A e \in Open : \A y \in Range(nodes[e]) : Settled(y) /\ NodeFits(e, y)
      /\ \A e \in Open : loaded[e] =>
            \A b \in In(disk, BlockOf(e)) :
               disk[b].id \in Range(nodes[e]) /\ node[disk[b].id].block = b
    BY <1>2, Resting
<1>4. Shapes /\ Nesting /\ Holding /\ Tree(disk) /\ Apart(disk, free)
    BY <1>3 DEF IInv
<1>5. /\ Root \notin Ids /\ x # Root /\ x \in Ids /\ x \in Directories /\ Root \in Directories
      /\ x \in Range(nodes[Root]) /\ Files \cap Dirs = {}
      /\ Open \subseteq Directories /\ x \notin Files
      /\ \A e \in Directories : Range(nodes[e]) \subseteq Ids
      /\ \A e \in Open : e # Root => e \in Dirs
    <2>1. x # Root
        BY NodesAssumption
    <2> QED
        BY <1>3, <2>1, Standing DEF Directories, Ids
<1>6. BlockOf(x) # 0
    BY <1>1, <1>5 DEF BlockOf
<1>7. /\ nodes' \in [Directories -> Seq(Ids)] /\ loaded' \in [Directories -> BOOLEAN]
      /\ \A e \in Directories : IsInjective(nodes'[e])
      /\ Range(nodes'[x]) \subseteq Files
      /\ node' \in [Ids -> NodeType]
    <2>1. CASE loaded[x]
        <3>1. node' = [node EXCEPT ![x].dirty = TRUE] /\ nodes' = nodes /\ loaded' = loaded
            BY <1>1, <2>1
        <3>2. \A r \in NodeType : [r EXCEPT !.dirty = TRUE] \in NodeType
            BY DEF NodeType
        <3>3. node \in [Ids -> NodeType]
            BY <1>4 DEF Shapes
        <3>4. node' \in [Ids -> NodeType]
            BY <1>5, <3>1, <3>2, <3>3
        <3> QED
            BY <1>4, <3>1, <3>4 DEF Shapes, Nesting
    <2>2. CASE ~loaded[x]
        <3>1. node' = [NodesLoaded(x) EXCEPT ![x].dirty = TRUE] /\ EntriesLoad(x)
            BY <1>1, <2>2
        <3>2. \A r \in NodeType : [r EXCEPT !.dirty = TRUE] \in NodeType
            BY DEF NodeType
        <3>3. /\ nodes' \in [Directories -> Seq(Ids)] /\ loaded' \in [Directories -> BOOLEAN]
              /\ \A e \in Directories : IsInjective(nodes'[e])
              /\ Range(nodes'[x]) \subseteq Files
              /\ NodesLoaded(x) \in [Ids -> NodeType]
            BY <1>2, <1>5, <1>6, <2>2, <3>1, LooksIn
        <3>4. node' \in [Ids -> NodeType]
            BY <1>5, <3>1, <3>2, <3>3
        <3> QED
            BY <3>3, <3>4
    <2> QED
        BY <2>1, <2>2
<1>8. PICK c \in Seq(Ids) : c = nodes'[x] /\ IsInjective(c) /\ x \notin Range(c) /\ Range(c) \subseteq Files
    BY <1>5, <1>7
<1>9. /\ doomed' \in Seq(Ids) /\ IsInjective(doomed') /\ Len(doomed') = Len(c) + 1
      /\ doomed'[Len(c) + 1] = x /\ \A j \in 1 .. Len(c) : doomed'[j] = c[j]
      /\ Range(doomed') = Range(c) \cup {x}
    BY <1>1, <1>5, <1>8, InjectiveAppend
<1>10. doomed' # <<>> /\ Last(doomed') = x
    <2>1. Len(c) \in Nat
        BY <1>8
    <2>2. Len(doomed') # 0
        BY <1>9, <2>1
    <2>3. doomed' # <<>>
        BY <2>2
    <2>4. Last(doomed') = doomed'[Len(c) + 1]
        BY <1>9 DEF Last
    <2> QED
        BY <1>9, <2>3, <2>4
<1>11. Ghosts' = {} /\ \A e \in Directories : Alive(e)' = Range(nodes'[e])
    <2>1. Ghosts' = {}
        BY <1>8, <1>9, <1>10 DEF Ghosts
    <2> QED
        BY <2>1 DEF Alive
<1>12. \A e \in Directories : e \in Range(doomed') => e = x
    <2>1. \A e \in Directories : e \notin Files
        BY NodesAssumption DEF Directories
    <2> QED
        BY <1>8, <1>9, <2>1
<1>13. /\ Nesting' /\ Holding' /\ \A e \in Open' : \A y \in Range(nodes'[e]) : Settled(y)'
       /\ nodes'[Root] = nodes[Root]
    <2>1. CASE loaded[x]
        <3>1. nodes' = nodes /\ loaded' = loaded /\ node' = [node EXCEPT ![x].dirty = TRUE] /\ Open' = Open
            BY <1>1, <2>1 DEF Open
        <3>2. node \in [Ids -> NodeType]
            BY <1>4 DEF Shapes
        <3>3. \A y \in Ids : /\ node'[y].name = node[y].name /\ node'[y].block = node[y].block
                             /\ (~node'[y].dirty => ~node[y].dirty) /\ (y \in Files => node'[y] = node[y])
            <4>1. \A y \in Ids : y # x => node'[y] = node[y]
                BY <3>1, <3>2
            <4>2. node'[x] = [node[x] EXCEPT !.dirty = TRUE] /\ node[x] \in NodeType
                BY <1>5, <3>1, <3>2
            <4>3. node'[x].name = node[x].name /\ node'[x].block = node[x].block /\ node'[x].dirty = TRUE
                BY <4>2 DEF NodeType
            <4> QED
                BY <1>5, <4>1, <4>3
        <3>4. \A e \in Open : BlockOf(e)' = BlockOf(e)
            <4>1. \A e \in Open : e # Root => e \in Ids
                BY <1>5 DEF Ids
            <4> QED
                BY <3>3, <4>1 DEF BlockOf
        <3>5. Nesting'
            BY <1>4, <3>1, <3>4 DEF Nesting
        <3>6. ASSUME NEW e \in Open, NEW y \in Range(nodes[e]) PROVE NodeFits(e, y)' /\ Settled(y)'
            <4>1. y \in Ids /\ NodeFits(e, y) /\ Settled(y)
                BY <1>3, <1>5
            <4>2. NodeFits(e, y)'
                BY <1>2, <3>3, <3>4, <4>1, FitsStill
            <4>3. Settled(y)'
                BY <1>2, <3>3, <4>1 DEF Settled
            <4> QED
                BY <4>2, <4>3
        <3>7. ASSUME NEW e \in Open, NEW y \in Range(nodes[e]), NEW z \in Range(nodes[e]), node'[y].name = node'[z].name
              PROVE  y = z
            <4>1. y \in Ids /\ z \in Ids /\ Alive(e) = Range(nodes[e])
                BY <1>3, <1>5
            <4>2. node[y].name = node[z].name
                BY <3>3, <3>7, <4>1
            <4> QED
                BY <1>4, <4>1, <4>2 DEF Holding
        <3>8. \A e \in Open : loaded[e] \/ e \in Range(doomed') =>
                 \A b \in In(disk, BlockOf(e)) : disk[b].id \in Range(nodes[e]) /\ node'[disk[b].id].block = b
            <4>1. \A e \in Open : loaded[e] \/ e \in Range(doomed') => loaded[e]
                BY <1>5, <1>12, <2>1
            <4> QED
                BY <1>3, <1>5, <3>3, <4>1
        <3>9. \A e \in Open : Alive(e)' = Range(nodes[e])
            BY <1>5, <1>11, <3>1
        <3>10. Holding'
            BY <1>2, <3>1, <3>4, <3>6, <3>7, <3>8, <3>9 DEF Holding
        <3> QED
            BY <3>1, <3>5, <3>6, <3>10
    <2>2. CASE ~loaded[x]
        <3>1. node' = [NodesLoaded(x) EXCEPT ![x].dirty = TRUE] /\ EntriesLoad(x)
            BY <1>1, <2>2
        <3>2. /\ NodesLoaded(x) \in [Ids -> NodeType] /\ NodesLoaded(x)[x] = node[x]
            <4>1. x \notin Range(nodes'[x])
                BY <1>8
            <4> QED
                BY <1>2, <1>5, <1>6, <2>2, <3>1, <4>1, LooksIn
        <3>3. \A y \in Ids : y # x => node'[y] = NodesLoaded(x)[y]
            BY <3>1, <3>2
        <3>4. node'[x] = [node[x] EXCEPT !.dirty = TRUE]
            BY <1>5, <3>1, <3>2
        <3>5. node'[x].name = node[x].name /\ node'[x].block = node[x].block /\ node'[x].dirty = TRUE
            <4>1. node[x] \in NodeType
                BY <1>4, <1>5 DEF Shapes
            <4> QED
                BY <3>4, <4>1 DEF NodeType
        <3>6. x \in Ids => /\ node'[x].name = node[x].name /\ node'[x].block = node[x].block
                           /\ ~node'[x].dirty => ~node[x].dirty
            BY <3>5
        <3> QED
            BY <1>2, <1>5, <1>6, <1>7, <1>11, <1>12, <2>2, <3>1, <3>3, <3>6, Looks
    <2> QED
        BY <2>1, <2>2
<1>14. Dooming'
    <2>1. Last(doomed') \in Dirs /\ Last(doomed') \in Range(nodes'[Root])
        BY <1>5, <1>10, <1>13
    <2>2. \A j \in 1 .. Len(doomed') - 1 : doomed'[j] \in Range(nodes'[Last(doomed')])
        <3>1. Len(c) \in Nat /\ Len(doomed') - 1 = Len(c)
            BY <1>8, <1>9
        <3>2. \A j \in 1 .. Len(c) : doomed'[j] \in Range(c)
            BY <1>8, <1>9 DEF Range
        <3> QED
            BY <1>8, <1>10, <3>1, <3>2
    <2> QED
        BY <1>9, <1>11, <2>1, <2>2 DEF Dooming
<1>15. Settling'
    <2>1. \A e \in Open' : \A y \in Alive(e)' : Settled(y)'
        BY <1>11, <1>13, OpenInNext
    <2>2. todo' = <<>> /\ (pc' = "idle" => doomed' = <<>> /\ diskFree' = free')
        BY <1>2, <1>3
    <2> QED
        BY <2>1, <2>2, Settles
<1>16. Shapes'
    BY <1>2, <1>4, <1>7, <1>9 DEF Shapes
<1> QED
    BY <1>2, <1>4, <1>13, <1>14, <1>15, <1>16 DEF IInv

-----------------------------------------------------------------------------
(* A file leaves its directory *)

\* A sequence without the first, and only, occurrence of an element
\* (sDirectory::nodeRemove).
LEMMA RemoveShape ==
    ASSUME NEW S, NEW c \in Seq(S), IsInjective(c), NEW x \in Range(c)
    PROVE  /\ RemoveFirst(c, x) \in Seq(S) /\ IsInjective(RemoveFirst(c, x))
           /\ Range(RemoveFirst(c, x)) = Range(c) \ {x}
<1>1. PICK n \in Nat : n = Len(c)
    OBVIOUS
<1>2. DOMAIN c = 1 .. n
    BY <1>1
<1>3. PICK k \in 1 .. n : c[k] = x
    BY <1>2 DEF Range
<1>4. \A i \in 1 .. n : c[i] = x => i = k
    BY <1>2, <1>3 DEF IsInjective
<1>5. SelectInSeq(c, LAMBDA v : v = x) = k
    <2>1. {i \in 1 .. Len(c) : c[i] = x} = {k}
        BY <1>1, <1>3, <1>4
    <2>2. Min({k}) = k
        BY DEF Min
    <2> QED
        BY <2>1, <2>2 DEF SelectInSeq
<1>6. RemoveFirst(c, x) = RemoveAt(c, k)
    BY <1>1, <1>3, <1>5 DEF RemoveFirst
<1>7. PICK a : a = SubSeq(c, 1, k - 1)
    OBVIOUS
<1>8. a \in Seq(S) /\ Len(a) = k - 1 /\ \A i \in 1 .. k - 1 : a[i] = c[i]
    <2>1. k - 1 \in Int /\ k - 1 <= n
        BY <1>3
    <2>2. \A i \in 1 .. k - 1 : c[i] \in S
        BY <1>1, <2>1
    <2> QED
        BY <1>1, <1>3, <1>7, <2>1, <2>2, SubSeqProperties
<1>9. PICK b : b = SubSeq(c, k + 1, n)
    OBVIOUS
<1>10. b \in Seq(S) /\ Len(b) = n - k /\ \A i \in 1 .. n - k : b[i] = c[i + k]
    <2>1. \A i \in k + 1 .. n : c[i] \in S
        BY <1>1, <1>3
    <2> QED
        BY <1>1, <1>3, <1>9, <2>1, SubSeqProperties
<1>11. RemoveFirst(c, x) = a \o b
    BY <1>1, <1>6, <1>7, <1>9 DEF RemoveAt
<1>12. Range(a) = {c[i] : i \in 1 .. k - 1}
    BY <1>3, <1>8 DEF Range
<1>13. Range(b) = {c[i] : i \in k + 1 .. n}
    <2>1. DOMAIN b = 1 .. n - k
        BY <1>3, <1>10
    <2>2. \A i \in 1 .. n - k : i + k \in k + 1 .. n
        BY <1>3
    <2>3. \A i \in k + 1 .. n : b[i - k] = c[i] /\ i - k \in 1 .. n - k
        BY <1>3, <1>10
    <2>4. Range(b) \subseteq {c[i] : i \in k + 1 .. n}
        BY <1>10, <2>1, <2>2 DEF Range
    <2>5. {c[i] : i \in k + 1 .. n} \subseteq Range(b)
        BY <2>1, <2>3 DEF Range
    <2> QED
        BY <2>4, <2>5
<1>14. \A i, j \in 1 .. n : c[i] = c[j] => i = j
    BY <1>2 DEF IsInjective
<1>15. IsInjective(a)
    <2>1. DOMAIN a = 1 .. k - 1 /\ \A i \in 1 .. k - 1 : i \in 1 .. n
        BY <1>3, <1>8
    <2> QED
        BY <1>8, <1>14, <2>1 DEF IsInjective
<1>16. IsInjective(b)
    <2>1. DOMAIN b = 1 .. n - k /\ \A i \in 1 .. n - k : i + k \in 1 .. n
        BY <1>3, <1>10
    <2> SUFFICES ASSUME NEW i \in 1 .. n - k, NEW j \in 1 .. n - k, b[i] = b[j] PROVE i = j
        BY <2>1 DEF IsInjective
    <2>2. i + k = j + k
        BY <1>10, <1>14, <2>1
    <2> QED
        BY <1>3, <2>2
<1>17. Range(a) \cap Range(b) = {}
    <2> SUFFICES ASSUME NEW i \in 1 .. k - 1, NEW j \in k + 1 .. n, c[i] = c[j] PROVE FALSE
        BY <1>12, <1>13
    <2>1. i = j
        BY <1>3, <1>14
    <2> QED
        BY <1>3, <2>1
<1>18. Range(c) \ {x} = Range(a) \cup Range(b)
    <2>1. \A i \in 1 .. n : i # k => i \in 1 .. k - 1 \/ i \in k + 1 .. n
        BY <1>3
    <2>2. \A i \in 1 .. k - 1 : i \in 1 .. n /\ i # k
        BY <1>3
    <2>3. \A i \in k + 1 .. n : i \in 1 .. n /\ i # k
        BY <1>3
    <2>4. Range(c) = {c[i] : i \in 1 .. n}
        BY <1>2 DEF Range
    <2> QED
        BY <1>3, <1>4, <1>12, <1>13, <2>1, <2>2, <2>3, <2>4
<1>19. a \o b \in Seq(S) /\ Range(a \o b) = Range(a) \cup Range(b) /\ IsInjective(a \o b)
    BY <1>8, <1>10, <1>15, <1>16, <1>17, ConcatShape
<1> QED
    BY <1>11, <1>18, <1>19

\* A file is taken from its directory; its entry is to be removed.
LEMMA RemoveFileHolds ==
    ASSUME IInv, RemoveFile PROVE IInv'
<1>1. PICK d \in Open, f \in Files :
          /\ f \in Range(nodes[d])
          /\ nodes' = [nodes EXCEPT ![d] = RemoveFirst(nodes[d], f)]
          /\ doomed' = <<f>>
    BY DEF RemoveFile
<1>2. /\ pc = "idle" /\ pc' = "remove" /\ free' = free /\ loaded' = loaded /\ node' = node /\ disk' = disk
      /\ diskFree' = diskFree /\ todo' = todo /\ version' = version /\ stored' = stored
    BY DEF RemoveFile, source, history
<1>3. /\ Live /\ doomed = <<>> /\ todo = <<>> /\ diskFree = free
      /\ \A e \in Directories : Alive(e) = Range(nodes[e])
      /\ \A e \in Open : \A y \in Range(nodes[e]) : Settled(y) /\ NodeFits(e, y)
      /\ \A e \in Open : loaded[e] =>
            \A b \in In(disk, BlockOf(e)) :
               disk[b].id \in Range(nodes[e]) /\ node[disk[b].id].block = b
    BY <1>2, Resting
<1>4. Shapes /\ Nesting /\ Holding /\ Tree(disk) /\ Apart(disk, free)
    BY <1>3 DEF IInv
<1>5. /\ Root \notin Ids /\ Root \in Directories /\ Root \in Open /\ d \in Directories /\ f \in Ids /\ f \notin Dirs
      /\ Files \cap Dirs = {} /\ Open \subseteq Directories /\ loaded[d] /\ BlockOf(d) # 0
      /\ nodes[d] \in Seq(Ids) /\ IsInjective(nodes[d])
    BY <1>1, <1>3, Standing DEF Directories, Ids
<1>6. /\ RemoveFirst(nodes[d], f) \in Seq(Ids) /\ IsInjective(RemoveFirst(nodes[d], f))
      /\ Range(RemoveFirst(nodes[d], f)) = Range(nodes[d]) \ {f}
    BY <1>1, <1>5, RemoveShape
<1>7. /\ nodes' \in [Directories -> Seq(Ids)] /\ nodes'[d] = RemoveFirst(nodes[d], f)
      /\ \A e \in Directories : e # d => nodes'[e] = nodes[e]
    <2>1. nodes \in [Directories -> Seq(Ids)]
        BY <1>4 DEF Shapes
    <2> QED
        BY <1>1, <1>5, <1>6, <2>1
<1>8. \A e \in Directories : IsInjective(nodes'[e])
    BY <1>4, <1>6, <1>7 DEF Shapes
<1>9. \A e \in Directories : /\ Range(nodes'[e]) = Range(nodes[e]) \ {f}
                             /\ (e # d => f \notin Range(nodes[e]))
    <2>1. \A e \in Directories : e # d => f \notin Range(nodes[e])
        BY <1>1, <1>4, <1>5 DEF Nesting
    <2> QED
        BY <1>6, <1>7, <2>1
<1>10. Open' = Open
    <2>1. Range(nodes'[Root]) \cap Dirs = Range(nodes[Root]) \cap Dirs
        BY <1>5, <1>9
    <2> QED
        BY <2>1 DEF Open
<1>11. \A e \in Directories : BlockOf(e)' = BlockOf(e)
    BY <1>2 DEF BlockOf
<1>12. Nesting'
    <2>1. \A e \in Dirs : Range(nodes'[e]) \subseteq Files
        BY <1>4, <1>9 DEF Nesting, Directories
    <2>2. \A e, g \in Directories : e # g => Range(nodes'[e]) \cap Range(nodes'[g]) = {}
        BY <1>4, <1>9 DEF Nesting
    <2>3. \A e \in Dirs : e \notin Range(nodes'[Root]) => ~loaded'[e]
        BY <1>2, <1>4, <1>5, <1>9 DEF Nesting
    <2>4. \A e \in Directories : ~loaded'[e] => nodes'[e] = <<>>
        BY <1>2, <1>4, <1>5, <1>7 DEF Nesting
    <2>5. \A e \in Open' : loaded'[e] => BlockOf(e)' # 0
        BY <1>2, <1>4, <1>5, <1>10, <1>11 DEF Nesting
    <2> QED
        BY <2>1, <2>2, <2>3, <2>4, <2>5 DEF Nesting
<1>13. /\ doomed' \in Seq(Ids) /\ doomed' # <<>> /\ Len(doomed') = 1 /\ doomed'[1] = f /\ Last(doomed') = f
       /\ IsInjective(doomed') /\ Range(doomed') = {f}
    BY <1>1, <1>5 DEF Last, IsInjective, Range
<1>14. Ghosts' = {} /\ \A e \in Directories : Alive(e)' = Range(nodes[e]) \ {f}
    BY <1>5, <1>9, <1>13 DEF Ghosts, Alive
<1>15. \A e \in Open : \A y \in Range(nodes[e]) : NodeFits(e, y)' /\ Settled(y)'
    <2> SUFFICES ASSUME NEW e \in Open, NEW y \in Range(nodes[e]) PROVE NodeFits(e, y)' /\ Settled(y)'
        OBVIOUS
    <2>1. NodeFits(e, y) /\ Settled(y) /\ BlockOf(e)' = BlockOf(e)
        BY <1>3, <1>5, <1>11
    <2>2. NodeFits(e, y)'
        BY <1>2, <2>1, FitsStill
    <2> QED
        BY <1>2, <2>1, <2>2 DEF Settled
<1>16. Holding'
    <2>1. \A e \in Open : \A y, z \in Range(nodes[e]) : node[y].name = node[z].name => y = z
        BY <1>3, <1>4, <1>5 DEF Holding
    <2>2. \A e \in Open : loaded[e] \/ e \in Range(doomed') => loaded[e]
        BY <1>5, <1>13 DEF Directories
    <2>3. \A e \in Open : e \in Directories
        BY <1>5
    <2> QED
        BY <1>2, <1>3, <1>10, <1>11, <1>13, <1>14, <1>15, <2>1, <2>2, <2>3 DEF Holding
<1>17. Dooming'
    <2>1. f \notin InTree'
        BY <1>5, <1>9, <1>10 DEF InTree
    <2>2. BlockOf(d)' # 0 /\ NodeFits(d, f)' /\ Settled(f)' /\ d \in Open'
        BY <1>1, <1>5, <1>10, <1>11, <1>15
    <2> QED
        BY <1>2, <1>13, <1>14, <2>1, <2>2 DEF Dooming
<1>18. Settling'
    <2>1. \A e \in Open' : \A y \in Alive(e)' : Settled(y)'
        BY <1>5, <1>10, <1>14, <1>15
    <2>2. todo' = <<>> /\ (pc' = "idle" => doomed' = <<>> /\ diskFree' = free')
        BY <1>2, <1>3
    <2> QED
        BY <2>1, <2>2, Settles
<1>19. Shapes'
    BY <1>2, <1>4, <1>7, <1>8, <1>13 DEF Shapes
<1> QED
    BY <1>2, <1>4, <1>12, <1>16, <1>17, <1>18, <1>19 DEF IInv

-----------------------------------------------------------------------------
(* A save goes from node to node *)

\* The node a save looks at is in its directory.
LEMMA SavingShape ==
    ASSUME IInv, Saving
    PROVE  /\ Live /\ pc = "save" /\ Dir \in Open /\ Dir \in Directories /\ Cur \in Range(nodes[Dir]) /\ Cur \in Ids
           /\ loaded[Dir] /\ BlockOf(Dir) # 0 /\ BlockOf(Dir) \in DirsOn(disk)
           /\ Cur \in Dirs => Dir = Root /\ Cur \in Open /\ Cur \in Alive(Dir)
           /\ node[Cur].dirty => Cur \in Alive(Dir)
           /\ Tail(todo) \in Seq(Directories \X Ids) /\ Range(todo) = {<<Dir, Cur>>} \cup Range(Tail(todo))
           /\ Cur \in Alive(Dir) /\ ~Settled(Cur) => doomed = <<>>
<1>1. Live /\ pc = "save" /\ todo # <<>>
    BY DEF Saving, Live
<1>2. Shapes /\ Nesting /\ Dooming /\ Settling
    BY <1>1 DEF IInv
<1>3. todo \in Seq(Directories \X Ids)
    BY <1>2 DEF Shapes
<1>4. PICK n \in Nat : n = Len(todo)
    BY <1>3
<1>5. n >= 1 /\ DOMAIN todo = 1 .. n /\ 1 \in 1 .. n /\ todo[1] \in Directories \X Ids
    BY <1>1, <1>3, <1>4
<1>6. todo[1] = <<Dir, Cur>> /\ Dir \in Directories /\ Cur \in Ids
    BY <1>5 DEF Dir, Cur
<1>7. Tail(todo) \in Seq(Directories \X Ids) /\ Range(todo) = {<<Dir, Cur>>} \cup Range(Tail(todo))
    <2>1. Tail(todo) \in Seq(Directories \X Ids)
        BY <1>1, <1>3
    <2>2. PICK t \in Seq(Directories \X Ids) : t = Tail(todo)
        BY <2>1
    <2>3. DOMAIN t = 1 .. n - 1 /\ \A i \in 1 .. n - 1 : t[i] = todo[i + 1]
        BY <1>1, <1>3, <1>4, <2>2
    <2>4. \A i \in 1 .. n : i = 1 \/ (i - 1 \in 1 .. n - 1 /\ t[i - 1] = todo[i])
        BY <1>4, <2>3
    <2>5. \A i \in 1 .. n - 1 : i + 1 \in 1 .. n
        BY <1>4
    <2>6. \A p \in Range(todo) : p = todo[1] \/ p \in Range(t)
        <3> SUFFICES ASSUME NEW i \in 1 .. n PROVE todo[i] = todo[1] \/ todo[i] \in Range(t)
            BY <1>5 DEF Range
        <3>1. CASE i = 1
            BY <3>1
        <3>2. CASE i # 1
            <4>1. PICK j : j = i - 1
                OBVIOUS
            <4>2. j \in 1 .. n - 1 /\ t[j] = todo[i]
                BY <2>4, <3>2, <4>1
            <4> QED
                BY <2>3, <4>2 DEF Range
        <3> QED
            BY <3>1, <3>2
    <2>7. \A p \in Range(t) : p \in Range(todo)
        BY <1>5, <2>3, <2>5 DEF Range
    <2>8. todo[1] \in Range(todo)
        BY <1>5 DEF Range
    <2> QED
        BY <1>6, <2>1, <2>2, <2>6, <2>7, <2>8
<1>8. Dir \in Open /\ Cur \in Range(nodes[Dir])
    <2>1. <<Dir, Cur>> \in Range(todo) /\ <<Dir, Cur>>[1] = Dir /\ <<Dir, Cur>>[2] = Cur
        BY <1>7
    <2> QED
        BY <1>2, <2>1 DEF Settling
<1>9. loaded[Dir] /\ BlockOf(Dir) # 0
    BY <1>1, <1>6, <1>8, Standing
<1>10. BlockOf(Dir) \in DirsOn(disk)
    BY <1>1, <1>8, <1>9, OpenBlocks
<1>11. Cur \in Dirs => Dir = Root /\ Cur \in Open /\ Cur \in Alive(Dir)
    <2> SUFFICES ASSUME Cur \in Dirs PROVE Dir = Root /\ Cur \in Open /\ Cur \in Alive(Dir)
        OBVIOUS
    <2>1. Cur \notin Files /\ Ghosts \subseteq Files
        BY <1>1, Standing
    <2>2. Dir = Root
        BY <1>2, <1>6, <1>8, <2>1 DEF Nesting, Directories
    <2> QED
        BY <1>8, <2>1, <2>2 DEF Open, Alive
<1>12. node[Cur].dirty => Cur \in Alive(Dir)
    BY <1>2, <1>8 DEF Dooming, Alive
<1>13. Cur \in Alive(Dir) /\ ~Settled(Cur) => doomed = <<>>
    BY <1>2, <1>8 DEF Settling
<1> QED
    BY <1>1, <1>6, <1>7, <1>8, <1>9, <1>10, <1>11, <1>12, <1>13

\* The nodes and the disk stay as they are.
LEMMA Stays ==
    ASSUME IInv, Live, UNCHANGED <<free, nodes, loaded, node, disk, doomed>>, pc = "remove" => pc' = "remove"
    PROVE  /\ Open' = Open /\ Ghosts' = Ghosts /\ \A d : Alive(d)' = Alive(d)
           /\ \A x : Settled(x)' <=> Settled(x)
           /\ Tree(disk') /\ Apart(disk', free') /\ Nesting' /\ Holding' /\ Dooming'
<1>1. Tree(disk) /\ Apart(disk, free) /\ Nesting /\ Holding /\ Dooming
    BY DEF IInv
<1>2. /\ Open' = Open /\ Ghosts' = Ghosts /\ InTree' = InTree
      /\ \A d : BlockOf(d)' = BlockOf(d)
    BY DEF Open, Ghosts, BlockOf, InTree
<1>3. \A d : Alive(d)' = Alive(d)
    BY <1>2 DEF Alive
<1>4. \A x : Settled(x)' <=> Settled(x)
    BY DEF Settled
<1>5. \A d, x : NodeFits(d, x)' <=> NodeFits(d, x)
    BY <1>2, <1>4 DEF NodeFits
<1>6. Nesting'
    BY <1>1, <1>2 DEF Nesting
<1>7. Holding'
    BY <1>1, <1>2, <1>3, <1>5 DEF Holding
<1>8. Dooming'
    BY <1>1, <1>2, <1>4, <1>5 DEF Dooming
<1> QED
    BY <1>1, <1>2, <1>3, <1>4, <1>6, <1>7, <1>8

\* A save goes past a file that is clean.
LEMMA SkipFileHolds ==
    ASSUME IInv, SkipFile PROVE IInv'
<1>1. Saving /\ Cur \in Files /\ ~node[Cur].dirty /\ todo' = Tail(todo)
    BY DEF SkipFile, CurFile
<1>2. UNCHANGED <<free, nodes, loaded, node, disk, diskFree, doomed, pc, version, stored>>
    BY DEF SkipFile, image, source, history
<1>3. /\ Live /\ pc = "save" /\ Dir \in Open /\ Cur \in Range(nodes[Dir])
      /\ Tail(todo) \in Seq(Directories \X Ids) /\ Range(todo) = {<<Dir, Cur>>} \cup Range(Tail(todo))
    BY <1>1, SavingShape
<1>4. Shapes /\ Settling /\ Holding
    BY <1>3 DEF IInv
<1>5. /\ Open' = Open /\ Ghosts' = Ghosts /\ \A d : Alive(d)' = Alive(d)
      /\ \A x : Settled(x)' <=> Settled(x)
      /\ Tree(disk') /\ Apart(disk', free') /\ Nesting' /\ Holding' /\ Dooming'
    BY <1>2, <1>3, Stays
<1>6. ASSUME NEW d \in Open, NEW x \in Alive(d), ~Settled(x)
      PROVE  doomed = <<>> /\ (<<d, x>> \in Range(Tail(todo)) \/ <<Root, d>> \in Range(Tail(todo)))
    <2>1. doomed = <<>> /\ (<<d, x>> \in Range(todo) \/ <<Root, d>> \in Range(todo))
        BY <1>4, <1>6 DEF Settling, Coming
    <2>2. <<d, x>> # <<Dir, Cur>>
        <3> SUFFICES ASSUME d = Dir, x = Cur PROVE FALSE
            OBVIOUS
        <3>1. NodeFits(d, x)
            BY <1>4 DEF Holding
        <3> QED
            BY <1>1, <1>6, <3>1 DEF NodeFits
    <2>3. <<Root, d>> # <<Dir, Cur>>
        <3> SUFFICES ASSUME d = Cur PROVE FALSE
            OBVIOUS
        <3> QED
            BY <1>1, NodesAssumption DEF Open
    <2> QED
        BY <1>3, <2>1, <2>2, <2>3
<1>7. Settling'
    <2>1. pc' = "save"
        BY <1>2, <1>3
    <2>2. \A p \in Range(todo') : p[1] \in Open /\ p[2] \in Range(nodes[p[1]])
        BY <1>1, <1>3, <1>4 DEF Settling
    <2>3. \A d \in Open : \A x \in Alive(d) : ~Settled(x) => doomed = <<>> /\ Coming(d, x)'
        BY <1>1, <1>6 DEF Coming
    <2> QED
        BY <1>2, <1>4, <1>5, <2>1, <2>2, <2>3 DEF Settling
<1>8. Shapes'
    BY <1>1, <1>2, <1>3, <1>4 DEF Shapes
<1> QED
    BY <1>2, <1>3, <1>5, <1>7, <1>8 DEF IInv

\* The children of a directory come next.
LEMMA GoesInto ==
    ASSUME IInv, CurDir, GoInto
    PROVE  /\ todo' \in Seq(Directories \X Ids)
           /\ \A p \in Range(todo') : p[1] \in Open /\ p[2] \in Range(nodes[p[1]])
           /\ \A d \in Open : \A x \in Range(nodes[d]) :
                 Coming(d, x) /\ <<d, x>> # <<Dir, Cur>> => Coming(d, x)'
<1>1. Saving /\ Cur \in Dirs
    BY DEF CurDir
<1>2. /\ Live /\ Dir = Root /\ Cur \in Open /\ Cur \in Directories
      /\ Tail(todo) \in Seq(Directories \X Ids) /\ Range(todo) = {<<Dir, Cur>>} \cup Range(Tail(todo))
    BY <1>1, SavingShape, Standing
<1>3. nodes[Cur] \in Seq(Ids) /\ Settling
    BY <1>2, Standing DEF IInv
<1>4. PICK c : c = Children(Cur)
    OBVIOUS
<1>5. /\ c \in Seq(Directories \X Ids)
      /\ \A p \in Range(c) : p[1] = Cur /\ p[2] \in Range(nodes[Cur])
      /\ \A x \in Range(nodes[Cur]) : <<Cur, x>> \in Range(c)
    <2>1. c = Listing(Cur, nodes[Cur])
        BY <1>4 DEF Children, Listing
    <2> QED
        BY <1>2, <1>3, <2>1, ListingShape
<1>6. PICK t \in Seq(Directories \X Ids) : t = Tail(todo)
    BY <1>2
<1>7. todo' = c \o t
    BY <1>4, <1>6 DEF GoInto
<1>8. todo' \in Seq(Directories \X Ids) /\ Range(todo') = Range(c) \cup Range(t)
    BY <1>5, <1>6, <1>7, ConcatShape
<1>9. \A p \in Range(todo') : p[1] \in Open /\ p[2] \in Range(nodes[p[1]])
    BY <1>2, <1>3, <1>5, <1>6, <1>8 DEF Settling
<1>10. ASSUME NEW d \in Open, NEW x \in Range(nodes[d]), Coming(d, x), <<d, x>> # <<Dir, Cur>>
       PROVE  <<d, x>> \in Range(todo') \/ <<Root, d>> \in Range(todo')
    <2>1. CASE d = Cur
        BY <1>5, <1>8, <2>1
    <2>2. CASE d # Cur
        <3>1. <<Root, d>> # <<Dir, Cur>>
            BY <2>2
        <3> QED
            BY <1>2, <1>6, <1>8, <1>10, <3>1 DEF Coming
    <2> QED
        BY <2>1, <2>2
<1> QED
    BY <1>8, <1>9, <1>10 DEF Coming

\* A save goes into a directory that is clean.
LEMMA CleanDirectoryHolds ==
    ASSUME IInv, CleanDirectory PROVE IInv'
<1>1. CurDir /\ Saving /\ Cur \in Dirs /\ ~node[Cur].dirty /\ GoInto
    BY DEF CleanDirectory, CurDir
<1>2. UNCHANGED <<free, nodes, loaded, node, disk, diskFree, doomed, pc, version, stored>>
    BY DEF CleanDirectory, image, source, history
<1>3. Live /\ pc = "save" /\ Dir \in Open /\ Cur \in Alive(Dir)
    BY <1>1, SavingShape
<1>4. Shapes /\ Settling /\ Holding
    BY <1>3 DEF IInv
<1>5. /\ Open' = Open /\ Ghosts' = Ghosts /\ \A d : Alive(d)' = Alive(d)
      /\ \A x : Settled(x)' <=> Settled(x)
      /\ Tree(disk') /\ Apart(disk', free') /\ Nesting' /\ Holding' /\ Dooming'
    BY <1>2, <1>3, Stays
<1>6. /\ todo' \in Seq(Directories \X Ids)
      /\ \A p \in Range(todo') : p[1] \in Open /\ p[2] \in Range(nodes[p[1]])
      /\ \A d \in Open : \A x \in Range(nodes[d]) :
            Coming(d, x) /\ <<d, x>> # <<Dir, Cur>> => Coming(d, x)'
    BY <1>1, GoesInto
<1>7. Settled(Cur)
    BY <1>1, <1>3, <1>4 DEF Holding, NodeFits
<1>8. Settling'
    <2>1. \A d \in Open : \A x \in Alive(d) : ~Settled(x) => doomed = <<>> /\ Coming(d, x)'
        <3> SUFFICES ASSUME NEW d \in Open, NEW x \in Alive(d), ~Settled(x) PROVE doomed = <<>> /\ Coming(d, x)'
            OBVIOUS
        <3>1. doomed = <<>> /\ Coming(d, x) /\ x \in Range(nodes[d])
            BY <1>4 DEF Settling, Alive
        <3>2. <<d, x>> # <<Dir, Cur>>
            BY <1>7
        <3> QED
            BY <1>6, <3>1, <3>2
    <2> QED
        BY <1>2, <1>3, <1>4, <1>5, <1>6, <2>1 DEF Settling
<1>9. Shapes'
    BY <1>2, <1>4, <1>6 DEF Shapes
<1> QED
    BY <1>2, <1>3, <1>5, <1>8, <1>9 DEF IInv

\* The end of a save: the bitmap is written, and nothing is left to save.
LEMMA SaveDoneHolds ==
    ASSUME IInv, SaveDone PROVE IInv'
<1>1. /\ pc = "save" /\ todo = <<>> /\ diskFree' = free /\ pc' = IF doomed = <<>> THEN "idle" ELSE "remove"
      /\ UNCHANGED <<free, nodes, loaded, node, disk, todo, doomed, version, stored>>
    BY DEF SaveDone, SavedBitmap, image, history
<1>2. Live /\ Live'
    BY <1>1 DEF Live
<1>3. Shapes /\ Settling
    BY <1>2 DEF IInv
<1>4. /\ Open' = Open /\ Ghosts' = Ghosts /\ \A d : Alive(d)' = Alive(d)
      /\ \A x : Settled(x)' <=> Settled(x)
      /\ Tree(disk') /\ Apart(disk', free') /\ Nesting' /\ Holding' /\ Dooming'
    BY <1>1, <1>2, Stays
<1>5. \A d \in Open : \A x \in Alive(d) : Settled(x)
    BY <1>1, <1>2, AllSettled
<1>6. Settling'
    <2>1. \A d \in Open' : \A x \in Alive(d)' : Settled(x)'
        BY <1>4, <1>5
    <2>2. todo' = <<>> /\ (pc' = "idle" => doomed' = <<>> /\ diskFree' = free')
        BY <1>1
    <2> QED
        BY <2>1, <2>2, Settles
<1>7. Shapes'
    BY <1>1, <1>3 DEF Shapes
<1> QED
    BY <1>1, <1>2, <1>4, <1>6, <1>7 DEF IInv

-----------------------------------------------------------------------------
(* The entry of a node that is not saved yet *)

\* A dirty node is where its block is, and no other entry of its directory has
\* its name.
LEMMA NamesApart ==
    ASSUME IInv, Saving, node[Cur].dirty
    PROVE  /\ Live /\ Shapes /\ Tree(disk) /\ Apart(disk, free)
           /\ Dir \in Open /\ Cur \in Alive(Dir) /\ Cur \in Ids /\ node[Cur].name \in Names
           /\ BlockOf(Dir) \in DirsOn(disk) /\ HashOf[node[Cur].name] \in Slots
           /\ \A c \in In(disk, BlockOf(Dir)) :
                 c # node[Cur].block => disk[c].name # node[Cur].name
<1>1. /\ Live /\ Dir \in Open /\ Cur \in Alive(Dir) /\ Cur \in Ids /\ loaded[Dir] /\ BlockOf(Dir) \in DirsOn(disk)
      /\ ~Settled(Cur) => doomed = <<>>
    BY SavingShape
<1>2. Shapes /\ Tree(disk) /\ Apart(disk, free) /\ Holding /\ Settling
    BY <1>1 DEF IInv
<1>3. /\ NodeFits(Dir, Cur) /\ node[Cur].name \in Names
      /\ node[Cur].block # 0 => node[Cur].block \in In(disk, BlockOf(Dir))
    BY <1>1, NodeAt
<1>4. HashOf[node[Cur].name] \in Slots
    BY <1>3, HashAssumption
<1>5. ASSUME NEW c \in In(disk, BlockOf(Dir)), c # node[Cur].block, disk[c].name = node[Cur].name
      PROVE  FALSE
    <2>1. CASE Settled(Cur)
        <3>1. node[Cur].block \in In(disk, BlockOf(Dir)) /\ disk[node[Cur].block].name = node[Cur].name
            BY <1>3, <2>1 DEF Settled
        <3> QED
            BY <1>1, <1>2, <1>5, <3>1 DEF Tree
    <2>2. CASE ~Settled(Cur)
        <3>1. PICK y : y = disk[c].id
            OBVIOUS
        <3>2. doomed = <<>> /\ Range(doomed) = {}
            BY <1>1, <2>2 DEF Range
        <3>3. y \in Alive(Dir) /\ node[y].block = c
            BY <1>1, <1>2, <1>5, <3>1, <3>2 DEF Holding
        <3>4. y # Cur
            BY <1>5, <3>3
        <3>5. Settled(y)
            BY <1>1, <1>2, <2>2, <3>3, <3>4 DEF Settling
        <3>6. node[y].name = node[Cur].name
            BY <1>5, <3>3, <3>5 DEF Settled
        <3> QED
            BY <1>1, <1>2, <3>3, <3>4, <3>6 DEF Holding
    <2> QED
        BY <2>1, <2>2
<1> QED
    BY <1>1, <1>2, <1>3, <1>4, <1>5

\* The name of a new entry is not in its chain.
LEMMA NeverThere ==
    ASSUME IInv, Saving, node[Cur].dirty, IsNew
    PROVE  ~Exists(Dir, Cur)
<1>1. /\ Shapes /\ Tree(disk) /\ BlockOf(Dir) \in DirsOn(disk) /\ HashOf[node[Cur].name] \in Slots
      /\ \A c \in In(disk, BlockOf(Dir)) :
            c # node[Cur].block => disk[c].name # node[Cur].name
    BY NamesApart
<1>2. disk \in Disks
    BY <1>1 DEF Shapes
<1>3. SUFFICES ASSUME NEW b \in Range(ChainOf(Dir, Cur)), disk[b].name = node[Cur].name PROVE FALSE
    BY DEF Exists
<1>4. b \in Range(ChainOn(disk, BlockOf(Dir), HashOf[node[Cur].name]))
    BY <1>2, <1>3, Reading DEF ChainOf
<1>5. b \in In(disk, BlockOf(Dir)) /\ b \in Blocks
    <2>1. b \in In(disk, BlockOf(Dir))
        BY <1>1, <1>2, <1>4, TreeShape
    <2>2. b \in Ent(disk)
        BY <1>1, <1>2, <2>1, TreeShape
    <2> QED
        BY <2>1, <2>2 DEF Ent
<1>6. b # 0
    BY <1>5, BlocksShape
<1> QED
    BY <1>1, <1>3, <1>5, <1>6 DEF IsNew

\* A save finds another entry of the name of a new file: it cannot, since no
\* two nodes of a directory have one name.
LEMMA FileExistsHolds ==
    ASSUME IInv, FileExists PROVE IInv'
BY NeverThere DEF FileExists, CurDirty, CurFile

\* The same for a new directory.
LEMMA DirectoryExistsHolds ==
    ASSUME IInv, DirectoryExists PROVE IInv'
BY NeverThere DEF DirectoryExists, CurDir

\* blockUse throws when no block is free: the image is in use no more.
LEMMA NoBlockHolds ==
    ASSUME IInv, NoBlock PROVE IInv'
<1>1. /\ free = {} /\ pc' = "thrown" /\ todo' = <<>> /\ doomed' = <<>>
      /\ UNCHANGED <<free, nodes, loaded, node, disk, diskFree, version, stored>>
    BY DEF NoBlock, image, source, history
<1>2. Shapes
    BY DEF IInv
<1>3. Shapes'
    BY <1>1, <1>2 DEF Shapes
<1> QED
    BY <1>1, <1>3 DEF IInv, Live

\* A step in which nothing changes.
LEMMA StoppedHolds ==
    ASSUME IInv, UNCHANGED vars PROVE IInv'
<1>1. UNCHANGED <<free, nodes, loaded, node, disk, diskFree, pc, todo, doomed, version, stored>>
    BY DEF vars
<1>2. Shapes'
    BY <1>1 DEF IInv, Shapes
<1>3. CASE Live
    <2>1. Tree(disk') /\ Apart(disk', free') /\ Nesting' /\ Holding' /\ Dooming'
        BY <1>1, <1>3, Stays
    <2>2. Settling'
        BY <1>1, <1>3 DEF IInv, Settling, Coming, Open, Alive, Ghosts, Settled
    <2> QED
        BY <1>1, <1>2, <2>1, <2>2 DEF IInv, Live
<1>4. CASE ~Live
    BY <1>1, <1>2, <1>4 DEF IInv, Live
<1> QED
    BY <1>3, <1>4

\* blockUse and the link to the new block; an older entry stays where it is.
LEMMA EnteredShape ==
    ASSUME IInv, Saving, node[Cur].dirty, CanEnter
    PROVE  /\ Entered.disk \in Disks /\ Entered.free \subseteq free /\ Entered.block \in Blocks
           /\ IsNew => /\ Entered.disk = WithLink(disk, BlockOf(Dir), HashOf[node[Cur].name], Entered.block)
                       /\ Entered.block \in free /\ Entered.free = free \ {Entered.block}
           /\ ~IsNew => Entered.disk = disk /\ Entered.free = free /\ Entered.block = node[Cur].block
<1>1. /\ Live /\ Dir \in Open /\ Cur \in Alive(Dir)
      /\ Shapes /\ Tree(disk) /\ BlockOf(Dir) \in DirsOn(disk) /\ HashOf[node[Cur].name] \in Slots
    BY NamesApart
<1>2. disk \in Disks /\ free \subseteq Blocks
    BY <1>1 DEF Shapes
<1>3. CASE IsNew
    <2>1. NewBlock \in free
        BY <1>2, <1>3, NewBlockShape DEF CanEnter
    <2>2. Entered = [disk |-> Link(Dir, Cur, NewBlock), free |-> free \ {NewBlock}, block |-> NewBlock]
        BY <1>3 DEF Entered
    <2>3. Entered.disk = Link(Dir, Cur, NewBlock) /\ Entered.free = free \ {NewBlock} /\ Entered.block = NewBlock
        BY <2>2
    <2>4. Link(Dir, Cur, NewBlock) = WithLink(disk, BlockOf(Dir), HashOf[node[Cur].name], NewBlock)
        BY <1>2, Reading DEF Link, WithLink, ChainOf
    <2>5. NewBlock \in Blocks /\ NewBlock \in Pointers
        BY <1>2, <2>1 DEF Pointers
    <2>6. WithLink(disk, BlockOf(Dir), HashOf[node[Cur].name], NewBlock) \in Disks
        BY <1>1, <1>2, <2>5, LinkShape
    <2> QED
        BY <1>3, <2>1, <2>3, <2>4, <2>5, <2>6
<1>4. CASE ~IsNew
    <2>1. Entered.disk = disk /\ Entered.free = free /\ Entered.block = node[Cur].block
        BY <1>4 DEF Entered
    <2>2. node[Cur].block \in AllOn(disk)
        BY <1>1, <1>4, NodeAt DEF IsNew
    <2>3. node[Cur].block \in Blocks
        BY <1>1, <1>2, <2>2, TreeShape
    <2> QED
        BY <1>2, <1>4, <2>1, <2>3
<1> QED
    BY <1>3, <1>4

-----------------------------------------------------------------------------
(* Calls that end in an exception, or the program *)

\* A file that never got a content ends the program: nothing is asked of the
\* image after that.
LEMMA NoContentHolds ==
    ASSUME IInv, NoContent PROVE IInv'
<1>1. /\ Saving /\ node[Cur].dirty /\ CanEnter
      /\ disk' = Entered.disk /\ free' = Entered.free
      /\ node' = [node EXCEPT ![Cur].block = Entered.block]
      /\ pc' = "crashed" /\ todo' = <<>> /\ doomed' = <<>>
      /\ UNCHANGED <<nodes, loaded, diskFree, version, stored>>
    BY DEF NoContent, CurDirty, CurFile, history
<1>2. Entered.disk \in Disks /\ Entered.free \subseteq free /\ Entered.block \in Blocks
    BY <1>1, EnteredShape
<1>3. Shapes /\ Cur \in Ids
    BY <1>1, NamesApart
<1>4. node' \in [Ids -> NodeType]
    <2>1. \A r \in NodeType : [r EXCEPT !.block = Entered.block] \in NodeType
        BY <1>2 DEF NodeType, Pointers
    <2>2. node \in [Ids -> NodeType]
        BY <1>3 DEF Shapes
    <2> QED
        BY <1>1, <1>3, <2>1, <2>2
<1>5. Shapes'
    BY <1>1, <1>2, <1>3, <1>4 DEF Shapes
<1> QED
    BY <1>1, <1>5 DEF IInv, Live

\* There is room for the header of a file and not for its content:
\* blockUseSingle throws, no block is free, and the image is in use no more.
LEMMA DiskFullHolds ==
    ASSUME IInv, DiskFull PROVE IInv'
<1>1. Saving /\ node[Cur].dirty /\ CanEnter
    BY DEF DiskFull, CurDirty, CurFile
<1>2. Entered.disk \in Disks /\ Entered.free \subseteq free /\ Entered.block \in Blocks
    BY <1>1, EnteredShape
<1>3. Shapes /\ Cur \in Ids
    BY <1>1, NamesApart
<1>4. node \in [Ids -> NodeType] /\ free \subseteq Blocks
    BY <1>3 DEF Shapes
<1>5. PICK content : content = node[Cur].content
    OBVIOUS
<1>6. content \in Content
    BY <1>3, <1>4, <1>5 DEF NodeType
<1>7. PICK n \in Nat : n = Len(content)
    BY <1>6 DEF Content
<1>8. PICK room : room = Cardinality(Entered.free)
    OBVIOUS
<1>9. PICK a : a = Lowest(Entered.free, room)
    OBVIOUS
<1>10. PICK done : done = {j \in 1 .. n : DataAt(j) <= room}
    OBVIOUS
<1>11. /\ disk' = [b \in Blocks |->
              IF \E j \in done : a[DataAt(j)] = b
              THEN Data(content[CHOOSE j \in done : a[DataAt(j)] = b])
              ELSE Entered.disk[b]]
       /\ free' = {}
       /\ node' = [node EXCEPT ![Cur].block = Entered.block,
                               ![Cur].content = SubSeq(content, Cardinality(done) + 1, n)]
       /\ pc' = "thrown" /\ todo' = <<>> /\ doomed' = <<>>
       /\ UNCHANGED <<nodes, loaded, diskFree, version, stored>>
    BY <1>5, <1>7, <1>8, <1>9, <1>10 DEF DiskFull, history
<1>12. \A j \in done : content[j] \in Files \X Nat \X Nat
    BY <1>6, <1>7, <1>10 DEF Content
<1>13. disk' \in Disks
    <2>1. \A b \in Blocks : (\E j \in done : a[DataAt(j)] = b) =>
              content[CHOOSE j \in done : a[DataAt(j)] = b] \in Files \X Nat \X Nat
        BY <1>12
    <2>2. \A piece \in Files \X Nat \X Nat : Data(piece) \in BlockType
        BY DEF Data, BlockType, DataType
    <2>3. \A b \in Blocks : Entered.disk[b] \in BlockType
        BY <1>2, DiskShape
    <2>4. \A b \in Blocks : disk'[b] \in BlockType
        BY <1>11, <2>1, <2>2, <2>3
    <2>5. disk' = [b \in Blocks |-> disk'[b]]
        BY <1>11
    <2> QED
        BY <2>4, <2>5 DEF Disks
<1>14. SubSeq(content, Cardinality(done) + 1, n) \in Content
    <2>1. IsFiniteSet(1 .. n) /\ Cardinality(1 .. n) = n
        <3>1. 1 \in Int /\ n \in Int
            BY <1>7
        <3>2. IsFiniteSet(1 .. n) /\ Cardinality(1 .. n) = IF 1 > n THEN 0 ELSE n - 1 + 1
            BY <3>1, FS_Interval, Zenon
        <3>3. (IF 1 > n THEN 0 ELSE n - 1 + 1) = n
            BY <1>7
        <3> QED
            BY <3>2, <3>3
    <2>2. Cardinality(done) \in Nat /\ Cardinality(done) <= n
        BY <1>7, <1>10, <2>1, FS_Subset, FS_CardinalityType
    <2>3. PICK m \in Nat : m = Cardinality(done) + 1
        BY <2>2
    <2>4. m \in 1 .. Len(content) + 1 /\ n \in m - 1 .. Len(content)
        BY <1>7, <2>2, <2>3
    <2>5. content \in Seq(Files \X Nat \X Nat)
        BY <1>6 DEF Content
    <2>6. SubSeq(content, m, n) \in Seq(Files \X Nat \X Nat)
        BY <2>4, <2>5, SubSeqProperties
    <2> QED
        BY <2>3, <2>6 DEF Content
<1>15. node' \in [Ids -> NodeType]
    <2>1. \A r \in NodeType, c \in Content :
              [[r EXCEPT !.block = Entered.block] EXCEPT !.content = c] \in NodeType
        BY <1>2 DEF NodeType, Pointers
    <2>2. PICK s \in Content : s = SubSeq(content, Cardinality(done) + 1, n)
        BY <1>14
    <2>3. node' = [node EXCEPT ![Cur] = [[node[Cur] EXCEPT !.block = Entered.block] EXCEPT !.content = s]]
        BY <1>3, <1>4, <1>11, <2>2 DEF NodeType
    <2> QED
        BY <1>3, <1>4, <2>1, <2>3
<1>16. Shapes'
    BY <1>3, <1>4, <1>11, <1>13, <1>15 DEF Shapes
<1> QED
    BY <1>11, <1>16 DEF IInv, Live

-----------------------------------------------------------------------------
(* A node reaches the disk *)

\* The node a save looks at is on disk as it is in memory, and all other nodes
\* and entries are what they were.
LEMMA Stored ==
    ASSUME IInv, Saving, node[Cur].dirty, NEW b \in Blocks,
           node[Cur].block = b \/ (node[Cur].block = 0 /\ b \notin AllOn(disk)),
           node' \in [Ids -> NodeType], \A y \in Ids : y # Cur => node'[y] = node[y],
           node'[Cur].block = b, node'[Cur].name = node[Cur].name, ~node'[Cur].dirty,
           disk'[b].id = Cur, disk'[b].name = node[Cur].name,
           In(disk', BlockOf(Dir)) = In(disk, BlockOf(Dir)) \cup {b},
           \A d \in DirsOn(disk) : d # BlockOf(Dir) => In(disk', d) = In(disk, d),
           AllOn(disk') = AllOn(disk) \cup {b},
           \A c \in AllOn(disk) : c # b => disk'[c].name = disk[c].name /\ disk'[c].id = disk[c].id,
           UNCHANGED <<nodes, loaded, doomed, pc>>
    PROVE  /\ Nesting' /\ Holding' /\ Dooming'
           /\ Open' = Open /\ \A d : Alive(d)' = Alive(d)
           /\ \A d \in Open : \A x \in Alive(d) : ~Settled(x)' => x # Cur /\ ~Settled(x)
<1>1. /\ Live /\ pc = "save" /\ Dir \in Open /\ Cur \in Alive(Dir) /\ Cur \in Ids /\ BlockOf(Dir) \in DirsOn(disk)
      /\ Cur \in Dirs => Dir = Root
      /\ ~Settled(Cur) => doomed = <<>>
    BY SavingShape
<1>2. Shapes /\ Tree(disk) /\ Nesting /\ Holding /\ Dooming /\ Settling /\ disk \in Disks
    BY <1>1 DEF IInv, Shapes
<1>3. /\ Root \notin Ids /\ Open \subseteq Directories /\ Files \cap Dirs = {}
      /\ \A d \in Open : d # Root => d \in Dirs /\ d \in Alive(Root)
      /\ Root \in Open
    BY <1>1, Standing
<1>4. b # 0 /\ 0 \notin Blocks /\ DirsOn(disk) \subseteq Blocks
    BY <1>2, BlocksShape, TreeShape
<1>5. Dir # Cur
    <2>1. CASE Cur \in Dirs
        BY <1>1, <1>3, <2>1
    <2>2. CASE Cur \notin Dirs
        <3>1. Dir = Root \/ Dir \in Dirs
            BY <1>1, <1>3
        <3> QED
            BY <1>1, <1>3, <2>2, <3>1
    <2> QED
        BY <2>1, <2>2
<1>6. Open' = Open /\ Ghosts' = Ghosts
    BY DEF Open, Ghosts
<1>7. \A d : Alive(d)' = Alive(d)
    BY <1>6 DEF Alive
<1>8. ASSUME NEW d \in Open, d # Cur PROVE BlockOf(d)' = BlockOf(d)
    <2>1. d = Root \/ d \in Ids
        BY <1>3 DEF Ids
    <2> QED
        BY <1>8, <2>1 DEF BlockOf
<1>9. ASSUME NEW d \in Open, BlockOf(d) # 0 PROVE BlockOf(d)' = BlockOf(d) /\ BlockOf(d) \in DirsOn(disk)
    <2>1. BlockOf(d) \in DirsOn(disk)
        BY <1>1, <1>9, OpenBlocks
    <2>2. CASE d = Cur
        <3>1. d # Root /\ BlockOf(d) = node[Cur].block /\ BlockOf(d)' = node'[Cur].block
            BY <1>1, <1>3, <2>2 DEF BlockOf
        <3> QED
            BY <1>9, <2>1, <3>1
    <2> QED
        BY <1>8, <2>1, <2>2
<1>10. ASSUME NEW d \in Open, NEW x \in Alive(d), x # Cur, node[x].block # 0
       PROVE  /\ x \in Ids /\ node'[x] = node[x] /\ node[x].block # b
              /\ disk'[node[x].block].name = disk[node[x].block].name
              /\ disk'[node[x].block].id = disk[node[x].block].id
    <2>1. x \in Ids /\ node[x].block \in AllOn(disk) /\ disk[node[x].block].id = x
        BY <1>1, <1>10, NodeAt
    <2>2. node[x].block # b
        <3> SUFFICES ASSUME node[x].block = b PROVE FALSE
            OBVIOUS
        <3>1. node[Cur].block = b
            BY <2>1
        <3>2. disk[node[Cur].block].id = Cur
            BY <1>1, <1>4, <3>1, NodeAt
        <3> QED
            BY <1>10, <2>1, <3>1, <3>2
    <2> QED
        BY <1>10, <2>1, <2>2
<1>11. \A d \in Open : \A x \in Alive(d) : x \in Ids /\ node'[x].name = node[x].name /\ NodeFits(d, x)
    <2> SUFFICES ASSUME NEW d \in Open, NEW x \in Alive(d)
                 PROVE  x \in Ids /\ node'[x].name = node[x].name /\ NodeFits(d, x)
        OBVIOUS
    <2>1. x \in Ids /\ NodeFits(d, x)
        BY <1>1, NodeAt
    <2> QED
        BY <2>1
<1>12. \A x : x = Cur => Settled(x)'
    BY <1>1, <1>4 DEF Settled
<1>13. \A d \in Open : \A x \in Alive(d) : ~Settled(x)' => x # Cur /\ ~Settled(x)
    <2> SUFFICES ASSUME NEW d \in Open, NEW x \in Alive(d), x # Cur, Settled(x) PROVE Settled(x)'
        BY <1>12
    <2>1. node[x].block # 0
        BY DEF Settled
    <2>2. node'[x] = node[x] /\ disk'[node[x].block].name = disk[node[x].block].name
        BY <1>10, <2>1
    <2> QED
        BY <2>2 DEF Settled
<1>14. Nesting'
    <2>1. \A d \in Open : loaded[d] => BlockOf(d)' # 0
        BY <1>2, <1>9 DEF Nesting
    <2> QED
        BY <1>2, <1>6, <2>1 DEF Nesting
<1>15. ASSUME NEW d \in Open, NEW x \in Alive(d) PROVE NodeFits(d, x)'
    <2>1. /\ x \in Ids /\ NodeFits(d, x) /\ node'[x].name = node[x].name /\ node[x].name \in Names
          /\ BlockOf(d) # 0 /\ BlockOf(d) \in DirsOn(disk)
          /\ node[x].block # 0 =>
                /\ node[x].block \in In(disk, BlockOf(d)) /\ node[x].block \in AllOn(disk)
                /\ disk[node[x].block].id = x
                /\ HashOf[disk[node[x].block].name] = HashOf[node[x].name]
        BY <1>1, <1>11, NodeAt
    <2>2. BlockOf(d)' = BlockOf(d)
        BY <1>9, <2>1
    <2>3. CASE x = Cur
        <3>1. d = Dir
            BY <1>1, <1>2, <1>3, <2>3 DEF Nesting, Alive
        <3>2. b \in In(disk', BlockOf(d)')
            BY <2>2, <3>1
        <3> QED
            BY <1>4, <1>12, <2>1, <2>3, <3>2 DEF NodeFits
    <2>4. CASE x # Cur
        <3>1. node'[x] = node[x]
            BY <2>1, <2>4
        <3>2. node[x].block = 0 => \A c \in AllOn(disk') : disk'[c].id # x
            BY <2>1, <2>4 DEF NodeFits
        <3>3. node[x].block # 0 => /\ node[x].block \in In(disk', BlockOf(d)') /\ disk'[node[x].block].id = x
                                   /\ HashOf[disk'[node[x].block].name] = HashOf[node[x].name]
            <4> SUFFICES ASSUME node[x].block # 0
                         PROVE  /\ node[x].block \in In(disk', BlockOf(d)') /\ disk'[node[x].block].id = x
                                /\ HashOf[disk'[node[x].block].name] = HashOf[node[x].name]
                OBVIOUS
            <4>1. node[x].block \in In(disk', BlockOf(d))
                BY <2>1
            <4> QED
                BY <1>10, <2>1, <2>2, <2>4, <4>1
        <3>4. ~node[x].dirty => Settled(x)'
            BY <1>13, <2>1, <2>4 DEF NodeFits
        <3> QED
            BY <2>1, <3>1, <3>2, <3>3, <3>4 DEF NodeFits
    <2> QED
        BY <2>3, <2>4
<1>16. ASSUME NEW d \in Open, loaded[d] \/ d \in Range(doomed), NEW c \in In(disk', BlockOf(d)')
       PROVE  disk'[c].id \in Alive(d) \cup Range(doomed) /\ node'[disk'[c].id].block = c
    <2>1. BlockOf(d) # 0
        <3>1. CASE loaded[d]
            BY <1>2, <3>1 DEF Nesting
        <3>2. CASE d \in Range(doomed) /\ d # Root
            <4>1. doomed # <<>>
                BY <3>2 DEF Range
            <4>2. Settled(d)
                BY <1>2, <1>3, <3>2, <4>1 DEF Settling
            <4> QED
                BY <3>2, <4>2 DEF Settled, BlockOf
        <3>3. CASE d = Root
            BY <1>4, <3>3, GeometryAssumption DEF BlockOf
        <3> QED
            BY <1>16, <3>1, <3>2, <3>3
    <2>2. BlockOf(d)' = BlockOf(d) /\ BlockOf(d) \in DirsOn(disk)
        BY <1>9, <2>1
    <2>3. CASE c = b /\ BlockOf(d) = BlockOf(Dir)
        <3>1. d = Dir
            BY <1>1, <1>4, <2>1, <2>3, OpenBlocks
        <3> QED
            BY <1>1, <2>3, <3>1
    <2>4. CASE ~(c = b /\ BlockOf(d) = BlockOf(Dir))
        <3>1. c \in In(disk, BlockOf(d))
            BY <1>16, <2>2, <2>4
        <3>2. c \in AllOn(disk)
            BY <1>2, <2>2, <3>1, TreeShape
        <3>3. disk[c].id \in Alive(d) \cup Range(doomed) /\ node[disk[c].id].block = c
            BY <1>2, <1>16, <3>1 DEF Holding
        <3>4. c \in Blocks
            BY <1>2, <3>2, TreeShape
        <3>5. disk[c].id \in Ids
            <4>1. disk[c] \in EntryType
                BY <1>2, <3>2, TreeShape
            <4> QED
                BY <4>1 DEF EntryType
        <3>6. CASE c = b
            <4>1. node[Cur].block = b
                BY <3>2, <3>6
            <4>2. disk[b].id = Cur
                BY <1>1, <1>4, <4>1, NodeAt
            <4> QED
                BY <3>3, <3>6, <4>2
        <3>7. CASE c # b
            <4>1. disk'[c].id = disk[c].id
                BY <3>2, <3>7
            <4>2. disk[c].id # Cur
                BY <1>4, <3>3, <3>4, <3>7
            <4> QED
                BY <3>3, <3>5, <4>1, <4>2
        <3> QED
            BY <3>6, <3>7
    <2> QED
        BY <2>3, <2>4
<1>17. Holding'
    <2>1. \A d \in Open : \A x, y \in Alive(d) : node'[x].name = node'[y].name => x = y
        BY <1>2, <1>11 DEF Holding
    <2> QED
        BY <1>6, <1>7, <1>15, <1>16, <2>1 DEF Holding
<1>18. Dooming'
    <2>1. \A g \in Ghosts : ~node'[g].dirty
        <3> SUFFICES ASSUME NEW g \in Ghosts, g # Cur PROVE ~node'[g].dirty
            OBVIOUS
        <3>1. g \in Ids
            BY <1>1, <1>3, Standing DEF Ids
        <3> QED
            BY <1>2, <3>1 DEF Dooming
    <2> QED
        BY <1>1, <1>2, <1>6, <2>1 DEF Dooming
<1> QED
    BY <1>6, <1>7, <1>13, <1>14, <1>17, <1>18

-----------------------------------------------------------------------------
(* The entry a save writes *)

\* The disk with the entry in its place, before its content is written.
Base == IF IsNew THEN [Entered.disk EXCEPT ![Entered.block] = Named] ELSE disk

\* The header that setBlock writes.
LEMMA NamedShape ==
    ASSUME IInv, Saving, node[Cur].dirty
    PROVE  /\ Named \in EntryType /\ Named.id = Cur
           /\ Named.kind = IF Cur \in Files THEN "file" ELSE "dir"
           /\ Named.name = node[Cur].name /\ Named.parent = BlockOf(Dir)
           /\ IsNew => Named.next = 0 /\ Named.ext = 0 /\ Named.table = NoTable
           /\ ~IsNew => /\ node[Cur].block \in In(disk, BlockOf(Dir)) /\ node[Cur].block \in AllOn(disk)
                        /\ disk[node[Cur].block].id = Cur /\ disk[node[Cur].block].parent = BlockOf(Dir)
                        /\ HashOf[disk[node[Cur].block].name] = HashOf[node[Cur].name]
                        /\ \A f \in {"kind", "id", "next", "parent", "table", "ext"} :
                              Named[f] = disk[node[Cur].block][f]
<1>1. /\ Live /\ Shapes /\ Tree(disk) /\ Dir \in Open /\ Cur \in Alive(Dir) /\ Cur \in Ids
      /\ node[Cur].name \in Names /\ BlockOf(Dir) \in DirsOn(disk)
    BY NamesApart
<1>2. disk \in Disks
    BY <1>1 DEF Shapes
<1>3. BlockOf(Dir) \in Pointers
    BY <1>1, <1>2, TreeShape DEF Pointers
<1>4. CASE IsNew
    <2>1. NoTable \in Tables /\ 0 \in Pointers
        BY DEF NoTable, Tables, Pointers
    <2>2. PICK h : h = Header(Cur)
        OBVIOUS
    <2>3. /\ h \in [kind : EntryKinds, id : Ids, name : {0}, table : Tables, next : Pointers,
                    parent : Pointers, ext : Pointers, size : Nat]
          /\ h.kind = IF Cur \in Files THEN "file" ELSE "dir"
          /\ h.id = Cur /\ h.table = NoTable /\ h.next = 0 /\ h.ext = 0
        BY <1>1, <2>1, <2>2 DEF Header, EntryKinds
    <2>4. Named = [h EXCEPT !.name = node[Cur].name, !.parent = BlockOf(Dir)]
        BY <1>4, <2>2 DEF Named
    <2>5. Named \in EntryType
        BY <1>1, <1>3, <2>3, <2>4 DEF EntryType
    <2>6. /\ Named.name = node[Cur].name /\ Named.parent = BlockOf(Dir)
          /\ Named.kind = h.kind /\ Named.id = h.id /\ Named.next = h.next /\ Named.table = h.table /\ Named.ext = h.ext
        BY <2>3, <2>4
    <2> QED
        BY <1>4, <2>3, <2>5, <2>6
<1>5. CASE ~IsNew
    <2>1. PICK b : b = node[Cur].block
        OBVIOUS
    <2>2. /\ b \in In(disk, BlockOf(Dir)) /\ b \in AllOn(disk) /\ disk[b].id = Cur /\ disk[b].parent = BlockOf(Dir)
          /\ HashOf[disk[b].name] = HashOf[node[Cur].name]
        BY <1>1, <1>5, <2>1, NodeAt DEF IsNew
    <2>3. PICK r \in EntryType : r = disk[b]
        BY <1>1, <1>2, <2>2, TreeShape
    <2>4. r.kind = IF Cur \in Files THEN "file" ELSE "dir"
        BY <1>1, <2>2, <2>3 DEF Tree, EntryFits
    <2>5. Named = [r EXCEPT !.name = node[Cur].name, !.parent = BlockOf(Dir)]
        BY <1>5, <2>1, <2>3 DEF Named
    <2>6. Named \in EntryType
        BY <1>1, <1>3, <2>3, <2>5 DEF EntryType
    <2>7. /\ Named.name = node[Cur].name /\ Named.parent = BlockOf(Dir)
          /\ Named.kind = r.kind /\ Named.id = r.id /\ Named.next = r.next /\ Named.table = r.table /\ Named.ext = r.ext
        BY <2>3, <2>5 DEF EntryType
    <2> QED
        BY <1>5, <2>1, <2>2, <2>3, <2>4, <2>6, <2>7
<1> QED
    BY <1>4, <1>5

\* The entry is in its place, and nothing else has changed.
LEMMA Based ==
    ASSUME IInv, Saving, node[Cur].dirty, CanEnter
    PROVE  /\ Base \in Disks /\ Tree(Base) /\ Apart(Base, Entered.free)
           /\ Entered.block \in AllOn(Base)
           /\ node[Cur].block = Entered.block \/ (node[Cur].block = 0 /\ Entered.block \notin AllOn(disk))
           /\ AllOn(Base) = AllOn(disk) \cup {Entered.block}
           /\ BlockOf(Dir) \in DirsOn(Base) /\ DirsOn(disk) \subseteq DirsOn(Base)
           /\ In(Base, BlockOf(Dir)) = In(disk, BlockOf(Dir)) \cup {Entered.block}
           /\ \A d \in DirsOn(disk) : d # BlockOf(Dir) => In(Base, d) = In(disk, d)
           /\ \A c \in AllOn(disk) : Base[c].id = disk[c].id /\ Base[c].name = disk[c].name
           /\ \A c \in In(Base, BlockOf(Dir)) : c # Entered.block => Base[c].name # node[Cur].name
           /\ \A x \in Blocks : x # Entered.block => Base[x] = Entered.disk[x]
           /\ \A f \in {"kind", "id", "next", "parent", "table", "ext"} : Base[Entered.block][f] = Named[f]
           /\ HashOf[Base[Entered.block].name] = HashOf[node[Cur].name]
<1>1. /\ Live /\ Shapes /\ Tree(disk) /\ Apart(disk, free) /\ Dir \in Open /\ Cur \in Alive(Dir) /\ Cur \in Ids
      /\ node[Cur].name \in Names /\ BlockOf(Dir) \in DirsOn(disk) /\ HashOf[node[Cur].name] \in Slots
      /\ \A c \in In(disk, BlockOf(Dir)) :
            c # node[Cur].block => disk[c].name # node[Cur].name
    BY NamesApart
<1>2. disk \in Disks
    BY <1>1 DEF Shapes
<1>3. PICK b : b = Entered.block
    OBVIOUS
<1>4. PICK base : base = Base
    OBVIOUS
<1>5. PICK r : r = Named
    OBVIOUS
<1>6. /\ Entered.disk \in Disks /\ Entered.free \subseteq free /\ b \in Blocks
      /\ IsNew => /\ Entered.disk = WithLink(disk, BlockOf(Dir), HashOf[node[Cur].name], b)
                  /\ b \in free /\ Entered.free = free \ {b}
      /\ ~IsNew => Entered.disk = disk /\ Entered.free = free /\ b = node[Cur].block
    BY <1>3, EnteredShape
<1>7. /\ r \in EntryType /\ r.id = Cur
      /\ r.kind = IF Cur \in Files THEN "file" ELSE "dir"
      /\ r.name = node[Cur].name /\ r.parent = BlockOf(Dir)
      /\ IsNew => r.next = 0 /\ r.ext = 0 /\ r.table = NoTable
      /\ ~IsNew => /\ node[Cur].block \in In(disk, BlockOf(Dir)) /\ node[Cur].block \in AllOn(disk)
                   /\ HashOf[disk[node[Cur].block].name] = HashOf[node[Cur].name]
                   /\ \A f \in {"kind", "id", "next", "parent", "table", "ext"} :
                         r[f] = disk[node[Cur].block][f]
    BY <1>5, NamedShape
<1>8. CASE IsNew
    <2>1. base = [Entered.disk EXCEPT ![b] = r]
        BY <1>3, <1>4, <1>5, <1>8 DEF Base
    <2>2. PICK mid \in Disks : mid = Entered.disk
        BY <1>6
    <2>3. base = [mid EXCEPT ![b] = r]
        BY <2>1, <2>2
    <2>4. base \in Disks /\ base[b] = r /\ \A x \in Blocks : x # b => base[x] = mid[x]
        BY <1>6, <1>7, <2>3 DEF Disks, BlockType
    <2>5. b \in free /\ b \notin System /\ \A c \in AllOn(disk) : b \notin OwnOn(disk, c)
        BY <1>1, <1>6, <1>8 DEF Apart
    <2>6. b \notin AllOn(disk)
        BY <1>1, <1>2, <2>5, TreeShape
    <2>7. \A c \in AllOn(disk) : disk[c].id # base[b].id
        BY <1>1, <1>7, <1>8, <2>4, NodeAt DEF NodeFits, IsNew
    <2>8. \A c \in In(disk, BlockOf(Dir)) : disk[c].name # base[b].name
        <3> SUFFICES ASSUME NEW c \in In(disk, BlockOf(Dir)) PROVE c # 0
            BY <1>1, <1>7, <1>8, <2>4 DEF IsNew
        <3>1. c \in Ent(disk)
            BY <1>1, <1>2, TreeShape
        <3> QED
            BY <3>1, <1>2, DiskShape
    <2>9. base[b].kind = "dir" => BlockOf(Dir) = RootBlock
        BY <1>1, <1>7, <2>4, SavingShape DEF BlockOf, Ids
    <2>10. \A x \in Blocks : x # b => base[x] = WithLink(disk, BlockOf(Dir), HashOf[node[Cur].name], b)[x]
        BY <1>6, <1>8, <2>2, <2>4
    <2>11. /\ base[b].kind = IF base[b].id \in Files THEN "file" ELSE "dir"
           /\ base[b].next = 0 /\ base[b].parent = BlockOf(Dir) /\ base[b].ext = 0 /\ base[b].table = NoTable
           /\ HashOf[base[b].name] = HashOf[node[Cur].name]
        BY <1>7, <1>8, <2>4
    <2>12. /\ Tree(base) /\ AllOn(base) = AllOn(disk) \cup {b}
           /\ DirsOn(base) = DirsOn(disk) \cup (IF base[b].kind = "dir" THEN {b} ELSE {})
           /\ In(base, BlockOf(Dir)) = In(disk, BlockOf(Dir)) \cup {b}
           /\ \A d \in DirsOn(disk) : d # BlockOf(Dir) => In(base, d) = In(disk, d)
           /\ OwnOn(base, b) = {b}
           /\ \A c \in AllOn(disk) : /\ OwnOn(base, c) = OwnOn(disk, c)
                                     /\ base[c].name = disk[c].name /\ base[c].id = disk[c].id
        BY <1>1, <1>2, <1>6, <2>4, <2>5, <2>7, <2>8, <2>9, <2>10, <2>11, Entering
    <2>13. Apart(base, Entered.free)
        BY <1>1, <1>6, <1>8, <2>5, <2>12 DEF Apart
    <2>14. \A c \in In(base, BlockOf(Dir)) : c # b => base[c].name # node[Cur].name
        <3> SUFFICES ASSUME NEW c \in In(base, BlockOf(Dir)), c # b PROVE base[c].name # node[Cur].name
            OBVIOUS
        <3>1. c \in In(disk, BlockOf(Dir))
            BY <2>12
        <3>2. c \in AllOn(disk)
            BY <1>1, <1>2, <3>1, TreeShape
        <3> QED
            BY <1>7, <2>4, <2>8, <2>12, <3>1, <3>2
    <2>15. \A f \in {"kind", "id", "next", "parent", "table", "ext"} : base[b][f] = r[f]
        BY <2>4
    <2> QED
        BY <1>1, <1>3, <1>4, <1>5, <1>8, <2>2, <2>4, <2>6, <2>11, <2>12, <2>13, <2>14, <2>15 DEF IsNew
<1>9. CASE ~IsNew
    <2>1. base = disk /\ b = node[Cur].block /\ Entered.disk = disk /\ Entered.free = free
        BY <1>4, <1>6, <1>9 DEF Base
    <2>2. b \in In(disk, BlockOf(Dir)) /\ b \in AllOn(disk) /\ HashOf[disk[b].name] = HashOf[node[Cur].name]
        BY <1>7, <1>9, <2>1
    <2>3. \A f \in {"kind", "id", "next", "parent", "table", "ext"} : base[b][f] = r[f]
        BY <1>7, <1>9, <2>1
    <2> QED
        BY <1>1, <1>2, <1>3, <1>4, <1>5, <2>1, <2>2, <2>3
<1> QED
    BY <1>8, <1>9

-----------------------------------------------------------------------------
(* filesystemSaveNode *)

\* The node looked at is saved as r, and its entry takes the blocks A.
Saved(A, r) ==
    /\ disk' \in Disks /\ free' = Entered.free \ A
    /\ \A x \in Blocks : x # Entered.block /\ x \notin A => disk'[x] = Entered.disk[x]
    /\ \A f \in {"kind", "id", "name", "next", "parent"} : disk'[Entered.block][f] = Named[f]
    /\ Named.kind = "dir" => disk'[Entered.block].table = Named.table
    /\ Named.kind = "file" =>
          Proper(ExtOn(disk', Entered.block), disk'[Entered.block].ext, ExtOf(disk'))
    /\ OwnOn(disk', Entered.block) \subseteq OwnOn(Base, Entered.block) \cup A
    /\ node' = [node EXCEPT ![Cur] = r]
    /\ r.block = Entered.block /\ r.name = node[Cur].name /\ ~r.dirty
    /\ UNCHANGED <<nodes, loaded, doomed, pc>>

\* The entry is written, with blocks that were free, and the node is saved.
LEMMA Saves ==
    ASSUME IInv, Saving, node[Cur].dirty, CanEnter,
           NEW A \in SUBSET Entered.free, NEW r \in NodeType, Saved(A, r)
    PROVE  /\ Tree(disk') /\ Apart(disk', free') /\ Nesting' /\ Holding' /\ Dooming'
           /\ Open' = Open /\ \A d : Alive(d)' = Alive(d)
           /\ \A d \in Open : \A x \in Alive(d) : ~Settled(x)' => x # Cur /\ ~Settled(x)
           /\ AllOn(disk') = AllOn(disk) \cup {Entered.block} /\ disk'[Entered.block].id = Cur
           /\ \A c \in AllOn(disk) : c # Entered.block => disk'[c].id = disk[c].id
<1>0. /\ disk' \in Disks /\ free' = Entered.free \ A
      /\ \A x \in Blocks : x # Entered.block /\ x \notin A => disk'[x] = Entered.disk[x]
      /\ \A f \in {"kind", "id", "name", "next", "parent"} : disk'[Entered.block][f] = Named[f]
      /\ Named.kind = "dir" => disk'[Entered.block].table = Named.table
      /\ Named.kind = "file" =>
            Proper(ExtOn(disk', Entered.block), disk'[Entered.block].ext, ExtOf(disk'))
      /\ OwnOn(disk', Entered.block) \subseteq OwnOn(Base, Entered.block) \cup A
      /\ node' = [node EXCEPT ![Cur] = r]
      /\ r.block = Entered.block /\ r.name = node[Cur].name /\ ~r.dirty
      /\ UNCHANGED <<nodes, loaded, doomed, pc>>
    BY DEF Saved
<1>1. PICK b : b = Entered.block
    OBVIOUS
<1>2. PICK base : base = Base
    OBVIOUS
<1>3. PICK q : q = Named
    OBVIOUS
<1>4. /\ base \in Disks /\ Tree(base) /\ Apart(base, Entered.free)
      /\ b \in AllOn(base)
      /\ node[Cur].block = b \/ (node[Cur].block = 0 /\ b \notin AllOn(disk))
      /\ AllOn(base) = AllOn(disk) \cup {b}
      /\ BlockOf(Dir) \in DirsOn(base) /\ DirsOn(disk) \subseteq DirsOn(base)
      /\ In(base, BlockOf(Dir)) = In(disk, BlockOf(Dir)) \cup {b}
      /\ \A d \in DirsOn(disk) : d # BlockOf(Dir) => In(base, d) = In(disk, d)
      /\ \A c \in AllOn(disk) : base[c].id = disk[c].id /\ base[c].name = disk[c].name
      /\ \A c \in In(base, BlockOf(Dir)) : c # b => base[c].name # node[Cur].name
      /\ \A x \in Blocks : x # b => base[x] = Entered.disk[x]
      /\ \A f \in {"kind", "id", "next", "parent", "table", "ext"} : base[b][f] = q[f]
      /\ HashOf[base[b].name] = HashOf[node[Cur].name]
    BY <1>1, <1>2, <1>3, Based
<1>5. /\ Shapes /\ Cur \in Ids /\ BlockOf(Dir) \in DirsOn(disk)
    BY NamesApart
<1>6. q.id = Cur /\ q.name = node[Cur].name /\ q.parent = BlockOf(Dir)
    BY <1>3, NamedShape
<1>7. PICK dk2 \in Disks : dk2 = disk'
    BY <1>0
<1>8. /\ \A x \in Blocks : x # b /\ x \notin A => dk2[x] = base[x]
      /\ \A f \in {"kind", "id", "name", "next", "parent"} : dk2[b][f] = q[f]
      /\ q.kind = "dir" => dk2[b].table = q.table
      /\ q.kind = "file" => Proper(ExtOn(dk2, b), dk2[b].ext, ExtOf(dk2))
      /\ OwnOn(dk2, b) \subseteq OwnOn(base, b) \cup A
    BY <1>0, <1>1, <1>2, <1>3, <1>4, <1>7
<1>9. b \in Blocks /\ A \cap System = {} /\ \A c \in AllOn(base) : OwnOn(base, c) \cap A = {}
    <2>1. b \in Blocks
        BY <1>4, TreeShape
    <2> QED
        BY <1>4, <2>1 DEF Apart
<1>10. /\ dk2[b].kind = base[b].kind /\ dk2[b].id = base[b].id
       /\ dk2[b].next = base[b].next /\ dk2[b].parent = base[b].parent
       /\ HashOf[dk2[b].name] = HashOf[base[b].name]
       /\ base[b].kind = "dir" => dk2[b].table = base[b].table
       /\ base[b].kind = "file" => Proper(ExtOn(dk2, b), dk2[b].ext, ExtOf(dk2))
    BY <1>4, <1>6, <1>8
<1>11. \A c \in In(base, base[b].parent) : c # b => base[c].name # dk2[b].name
    <2>1. base[b].parent = BlockOf(Dir) /\ dk2[b].name = node[Cur].name
        BY <1>4, <1>6, <1>8
    <2> QED
        BY <1>4, <2>1
<1>12. /\ Tree(dk2) /\ DirsOn(dk2) = DirsOn(base) /\ AllOn(dk2) = AllOn(base)
       /\ \A d \in DirsOn(base) : In(dk2, d) = In(base, d)
       /\ \A c \in AllOn(base) : c # b => OwnOn(dk2, c) = OwnOn(base, c) /\ dk2[c] = base[c]
    <2>1. base \in Disks /\ Tree(base) /\ b \in AllOn(base)
        BY <1>4
    <2>2. \A c \in Blocks : c # b /\ c \notin A => dk2[c] = base[c]
        BY <1>4, <1>8
    <2>3. OwnOn(dk2, b) \subseteq OwnOn(base, b) \cup A
        BY <1>8
    <2>4. A \cap System = {} /\ \A c \in AllOn(base) : OwnOn(base, c) \cap A = {}
        BY <1>9
    <2> QED
        BY <1>10, <1>11, <2>1, <2>2, <2>3, <2>4, Rewriting
<1>13. Apart(dk2, free')
    <2>1. free' \cap System = {}
        BY <1>0, <1>4 DEF Apart
    <2>2. ASSUME NEW c \in AllOn(dk2) PROVE OwnOn(dk2, c) \cap (free' \cup System) = {}
        <3>1. OwnOn(base, c) \cap (Entered.free \cup System) = {}
            BY <1>4, <1>12, <2>2 DEF Apart
        <3>2. OwnOn(dk2, c) \subseteq OwnOn(base, c) \cup A
            BY <1>8, <1>12, <2>2
        <3> QED
            BY <1>0, <1>9, <3>1, <3>2
    <2> QED
        BY <2>1, <2>2 DEF Apart
<1>14. /\ disk'[b].id = Cur /\ disk'[b].name = node[Cur].name
       /\ In(disk', BlockOf(Dir)) = In(disk, BlockOf(Dir)) \cup {b}
       /\ \A d \in DirsOn(disk) : d # BlockOf(Dir) => In(disk', d) = In(disk, d)
       /\ AllOn(disk') = AllOn(disk) \cup {b}
       /\ \A c \in AllOn(disk) : c # b => disk'[c].name = disk[c].name /\ disk'[c].id = disk[c].id
    BY <1>4, <1>6, <1>7, <1>8, <1>12
<1>15. /\ node' \in [Ids -> NodeType] /\ \A y \in Ids : y # Cur => node'[y] = node[y]
       /\ node'[Cur].block = b /\ node'[Cur].name = node[Cur].name /\ ~node'[Cur].dirty
    <2>1. node \in [Ids -> NodeType]
        BY <1>5 DEF Shapes
    <2>2. node'[Cur] = r
        BY <1>0, <1>5, <2>1
    <2> QED
        BY <1>0, <1>1, <1>5, <2>1, <2>2
<1>16. /\ Nesting' /\ Holding' /\ Dooming'
       /\ Open' = Open /\ \A d : Alive(d)' = Alive(d)
       /\ \A d \in Open : \A x \in Alive(d) : ~Settled(x)' => x # Cur /\ ~Settled(x)
    BY <1>0, <1>4, <1>9, <1>14, <1>15, Stored
<1> QED
    BY <1>1, <1>7, <1>12, <1>13, <1>14, <1>16

\* Only the header of the entry is written.
LEMMA HeaderOnly ==
    ASSUME IInv, Saving, node[Cur].dirty, CanEnter,
           NEW dk2, dk2 = [Entered.disk EXCEPT ![Entered.block] = Named]
    PROVE  /\ dk2 \in Disks /\ dk2[Entered.block] = Named
           /\ \A x \in Blocks : x # Entered.block => dk2[x] = Entered.disk[x]
           /\ Named.kind = "file" => Proper(ExtOn(dk2, Entered.block), dk2[Entered.block].ext, ExtOf(dk2))
           /\ OwnOn(dk2, Entered.block) = OwnOn(Base, Entered.block)
<1>1. PICK b : b = Entered.block
    OBVIOUS
<1>2. PICK base : base = Base
    OBVIOUS
<1>3. PICK q : q = Named
    OBVIOUS
<1>4. /\ base \in Disks /\ Tree(base) /\ b \in AllOn(base)
      /\ \A x \in Blocks : x # b => base[x] = Entered.disk[x]
      /\ \A f \in {"kind", "id", "next", "parent", "table", "ext"} : base[b][f] = q[f]
    BY <1>1, <1>2, <1>3, Based
<1>5. b \in Blocks /\ base[b].kind \in EntryKinds
    BY <1>4, TreeShape
<1>6. PICK mid \in Disks : mid = Entered.disk
    BY EnteredShape
<1>7. q \in EntryType
    BY <1>3, NamedShape
<1>8. dk2 = [mid EXCEPT ![b] = q]
    BY <1>1, <1>3, <1>6
<1>9. dk2 \in Disks /\ dk2[b] = q /\ \A x \in Blocks : x # b => dk2[x] = mid[x]
    BY <1>5, <1>7, <1>8 DEF Disks, BlockType
<1>10. base[b].kind = "file" => /\ Proper(ExtOn(base, b), base[b].ext, ExtOf(base))
                                /\ \A e \in Range(ExtOn(base, b)) : dk2[e] = base[e]
    <2> SUFFICES ASSUME base[b].kind = "file"
                 PROVE  /\ Proper(ExtOn(base, b), base[b].ext, ExtOf(base))
                        /\ \A e \in Range(ExtOn(base, b)) : dk2[e] = base[e]
        OBVIOUS
    <2>1. Proper(ExtOn(base, b), base[b].ext, ExtOf(base))
        BY <1>4 DEF Tree, EntryFits
    <2>2. DOMAIN ExtOf(base) = {x \in Blocks : base[x].kind = "ext"}
        BY <1>4, DiskShape
    <2>3. DOMAIN ExtOf(base) \subseteq Blocks
        BY <2>2
    <2>4. Range(ExtOn(base, b)) \subseteq DOMAIN ExtOf(base)
        BY <2>1, <2>3, ProperIs
    <2>5. \A e \in Range(ExtOn(base, b)) : e \in Blocks /\ e # b
        BY <2>2, <2>4
    <2> QED
        BY <1>4, <1>6, <1>9, <2>1, <2>5
<1>11. dk2[b].kind = base[b].kind /\ dk2[b].table = base[b].table /\ dk2[b].ext = base[b].ext
    BY <1>4, <1>9
<1>12. /\ OwnOn(dk2, b) = OwnOn(base, b)
       /\ base[b].kind = "file" => Proper(ExtOn(dk2, b), dk2[b].ext, ExtOf(dk2))
    BY <1>4, <1>5, <1>9, <1>10, <1>11, OwnFrame
<1> QED
    BY <1>1, <1>2, <1>3, <1>4, <1>6, <1>9, <1>12

\* What a save has still to look at, when a node has been saved.
LEMMA SettlesOn ==
    ASSUME IInv, Saving, todo' \in Seq(Directories \X Ids), pc' = "save", UNCHANGED doomed,
           Open' = Open, \A d : Alive(d)' = Alive(d), UNCHANGED nodes,
           \A p \in Range(todo') : p[1] \in Open /\ p[2] \in Range(nodes[p[1]]),
           \A d \in Open : \A x \in Alive(d) : ~Settled(x)' => x # Cur /\ ~Settled(x),
           \A d \in Open : \A x \in Alive(d) : x # Cur /\ Coming(d, x) => Coming(d, x)'
    PROVE  Settling'
<1>1. Settling
    BY DEF IInv, Saving, Live
<1>2. \A d \in Open : \A x \in Alive(d) : ~Settled(x)' => doomed' = <<>> /\ Coming(d, x)'
    BY <1>1 DEF Settling
<1>3. \A d, e \in Open : \A x \in Alive(d), y \in Alive(e) : ~Settled(x)' /\ ~Settled(y)' => x = y
    BY <1>1 DEF Settling
<1> QED
    BY <1>2, <1>3 DEF Settling

\* What a save of a file leaves: the file's node without its content, which is in
\* the blocks the header leads to.
Filled(r) ==
    /\ r.given = node[Cur].given /\ r.content = <<>>
    /\ node[Cur].content = <<>> => disk'[Entered.block] = Named
    /\ node[Cur].content # <<>> =>
          \E a : /\ Taking(a, Needed(Len(node[Cur].content)))
                 /\ Bears(disk', Entered.block, a, node[Cur].content)

\* filesystemSaveFile: a new or an older entry gets its header, and blocks that
\* were free for its content.
LEMMA FileSaved ==
    ASSUME IInv, SaveFile
    PROVE  \E A \in SUBSET Entered.free, r \in NodeType : Saved(A, r) /\ Filled(r)
<1>1. Saving /\ node[Cur].dirty /\ CanEnter /\ Cur \in Files
    BY DEF SaveFile, CurDirty, CurFile
<1>2. PICK content : content = node[Cur].content
    OBVIOUS
<1>3. PICK a : a = Lowest(Entered.free, Needed(Len(content)))
    OBVIOUS
<1>4. PICK b : b = Entered.block
    OBVIOUS
<1>5. PICK q : q = Named
    OBVIOUS
<1>6. /\ Needed(Len(content)) <= Cardinality(Entered.free)
      /\ disk' = IF content = <<>> THEN [Entered.disk EXCEPT ![Entered.block] = Named]
                 ELSE Written(Entered.disk, q, b, a, content)
      /\ free' = Entered.free \ Range(a)
      /\ node' = [node EXCEPT ![Cur].block = b, ![Cur].content = <<>>, ![Cur].dirty = FALSE]
      /\ todo' = Tail(todo)
      /\ stored' = [stored EXCEPT ![Cur] = node[Cur].given]
      /\ UNCHANGED <<nodes, loaded, diskFree, pc, doomed, version>>
    BY <1>2, <1>3, <1>4, <1>5 DEF SaveFile
<1>7. /\ Live /\ Shapes /\ Cur \in Ids /\ Dir \in Open /\ Cur \in Alive(Dir)
    BY <1>1, NamesApart
<1>8. node \in [Ids -> NodeType] /\ free \subseteq Blocks /\ stored \in [Files -> Content \cup {Gone}]
    BY <1>7 DEF Shapes
<1>9. /\ Entered.disk \in Disks /\ Entered.free \subseteq free /\ b \in Blocks
    BY <1>1, <1>4, EnteredShape
<1>10. q \in EntryType /\ q.kind = "file"
    BY <1>1, <1>5, NamedShape
<1>11. content \in Content /\ node[Cur].given \in Content \cup {Gone}
    BY <1>2, <1>7, <1>8 DEF NodeType
<1>12. Len(content) \in Nat /\ (content # <<>> => Len(content) > 0) /\ (content = <<>> => Len(content) = 0)
    BY <1>11 DEF Content
<1>13. Needed(Len(content)) \in Nat
    <2>1. CASE Len(content) > 0
        BY <1>12, <2>1, PieceOrder
    <2>2. CASE Len(content) = 0
        BY <2>2 DEF Needed, MoreTables
    <2> QED
        BY <1>12, <2>1, <2>2
<1>14. PICK m \in Nat : m = Needed(Len(content))
    BY <1>13
<1>15. PICK S \in SUBSET Blocks : S = Entered.free
    BY <1>8, <1>9
<1>16. /\ \A i, j \in 1 .. m : a[i] = a[j] => i = j
       /\ a \in [1 .. m -> Blocks] /\ Range(a) \subseteq Entered.free
    BY <1>3, <1>6, <1>14, <1>15, LowestShape
<1>17. b \notin Range(a) /\ b \in OwnOn(Base, b)
    <2>1. PICK base \in Disks : base = Base
        BY <1>1, Based
    <2>2. Tree(base) /\ b \in AllOn(base) /\ Apart(base, Entered.free)
        BY <1>1, <1>4, <2>1, Based
    <2>3. b \in OwnOn(base, b)
        BY <2>2, TreeShape
    <2> QED
        BY <1>16, <2>1, <2>2, <2>3 DEF Apart
<1>18. /\ disk' \in Disks
       /\ \A x \in Blocks : x # b /\ x \notin Range(a) => disk'[x] = Entered.disk[x]
       /\ \A f \in {"kind", "id", "name", "next", "parent"} : disk'[b][f] = q[f]
       /\ Proper(ExtOn(disk', b), disk'[b].ext, ExtOf(disk'))
       /\ OwnOn(disk', b) \subseteq OwnOn(Base, b) \cup Range(a)
       /\ content = <<>> => disk'[b] = q
       /\ content # <<>> => Taking(a, Needed(Len(content))) /\ Bears(disk', b, a, content)
    <2>1. PICK dk2 : dk2 = disk'
        OBVIOUS
    <2>2. CASE content = <<>>
        <3>1. dk2 = [Entered.disk EXCEPT ![Entered.block] = Named]
            BY <1>6, <2>1, <2>2
        <3> QED
            BY <1>1, <1>4, <1>5, <1>10, <2>1, <2>2, <3>1, HeaderOnly
    <2>3. CASE content # <<>>
        <3>1. PICK mid \in Disks : mid = Entered.disk
            BY <1>9
        <3>2. dk2 = Written(mid, q, b, a, content)
            BY <1>6, <2>1, <2>3, <3>1
        <3>3. Taking(a, Needed(Len(content)))
            BY <1>14, <1>16 DEF Taking
        <3>4. Leads(dk2, mid, q, b, Range(a)) /\ Bears(dk2, b, a, content)
            BY <1>9, <1>10, <1>11, <1>17, <2>3, <3>2, <3>3, WrittenShape
        <3> QED
            BY <1>17, <2>1, <2>3, <3>1, <3>3, <3>4 DEF Leads
    <2> QED
        BY <2>2, <2>3
<1>19. PICK r \in NodeType : /\ node' = [node EXCEPT ![Cur] = r]
                             /\ r.block = b /\ r.name = node[Cur].name /\ ~r.dirty
                             /\ r.given = node[Cur].given /\ r.content = <<>>
    <2>1. PICK s \in NodeType : s = node[Cur]
        BY <1>7, <1>8
    <2>2. PICK r : r = [s EXCEPT !.block = b, !.content = <<>>, !.dirty = FALSE]
        OBVIOUS
    <2>3. /\ r \in NodeType /\ r.block = b /\ r.name = s.name /\ ~r.dirty
          /\ r.given = s.given /\ r.content = <<>>
        <3>1. <<>> \in Content /\ b \in Pointers
            BY <1>9 DEF Content, Pointers
        <3> QED
            BY <2>1, <2>2, <3>1 DEF NodeType
    <2>4. node' = [node EXCEPT ![Cur] = r]
        BY <1>6, <1>7, <1>8, <2>1, <2>2
    <2> QED
        BY <2>1, <2>3, <2>4
<1>20. PICK A \in SUBSET Entered.free : A = Range(a)
    BY <1>16
<1>21. /\ free' = Entered.free \ A
       /\ \A x \in Blocks : x # Entered.block /\ x \notin A => disk'[x] = Entered.disk[x]
       /\ \A f \in {"kind", "id", "name", "next", "parent"} : disk'[Entered.block][f] = Named[f]
       /\ Named.kind # "dir"
       /\ Proper(ExtOn(disk', Entered.block), disk'[Entered.block].ext, ExtOf(disk'))
       /\ OwnOn(disk', Entered.block) \subseteq OwnOn(Base, Entered.block) \cup A
       /\ r.block = Entered.block
    BY <1>4, <1>5, <1>6, <1>10, <1>18, <1>19, <1>20
<1>22. Saved(A, r)
    BY <1>6, <1>18, <1>19, <1>21 DEF Saved
<1>23. Filled(r)
    BY <1>2, <1>4, <1>5, <1>18, <1>19 DEF Filled
<1> QED
    BY <1>22, <1>23

\* After that the image is as it should be.
LEMMA SaveFileHolds ==
    ASSUME IInv, SaveFile PROVE IInv'
<1>1. Saving /\ node[Cur].dirty /\ CanEnter /\ Cur \in Files
    BY DEF SaveFile, CurDirty, CurFile
<1>2. PICK A \in SUBSET Entered.free, r \in NodeType : Saved(A, r)
    BY FileSaved
<1>3. /\ disk' \in Disks /\ free' = Entered.free \ A /\ node' = [node EXCEPT ![Cur] = r]
      /\ UNCHANGED <<nodes, loaded, doomed, pc>>
    BY <1>2 DEF Saved
<1>4. /\ todo' = Tail(todo) /\ stored' = [stored EXCEPT ![Cur] = node[Cur].given]
      /\ UNCHANGED <<diskFree, version>>
    BY DEF SaveFile
<1>5. /\ Live /\ Shapes /\ Cur \in Ids /\ Dir \in Open /\ Cur \in Alive(Dir)
    BY <1>1, NamesApart
<1>6. node \in [Ids -> NodeType] /\ free \subseteq Blocks /\ stored \in [Files -> Content \cup {Gone}]
    BY <1>5 DEF Shapes
<1>7. Entered.free \subseteq free /\ node[Cur].given \in Content \cup {Gone}
    <2>1. node[Cur] \in NodeType
        BY <1>5, <1>6
    <2> QED
        BY <1>1, <2>1, EnteredShape DEF NodeType
<1>8. /\ Tree(disk') /\ Apart(disk', free') /\ Nesting' /\ Holding' /\ Dooming'
      /\ Open' = Open /\ \A d : Alive(d)' = Alive(d)
      /\ \A d \in Open : \A x \in Alive(d) : ~Settled(x)' => x # Cur /\ ~Settled(x)
    BY <1>1, <1>2, Saves
<1>9. /\ pc = "save" /\ Tail(todo) \in Seq(Directories \X Ids) /\ Range(todo) = {<<Dir, Cur>>} \cup Range(Tail(todo))
    BY <1>1, SavingShape
<1>10. Settling'
    <2>1. \A p \in Range(todo') : p[1] \in Open /\ p[2] \in Range(nodes[p[1]])
        BY <1>4, <1>5, <1>9 DEF IInv, Settling
    <2>2. ASSUME NEW d \in Open, NEW x \in Alive(d), x # Cur, Coming(d, x) PROVE Coming(d, x)'
        <3>1. <<d, x>> # <<Dir, Cur>>
            BY <2>2
        <3>2. d \notin Files
            BY <1>5, Standing, NodesAssumption
        <3>3. <<Root, d>> # <<Dir, Cur>>
            BY <1>1, <3>2
        <3> QED
            BY <1>4, <1>9, <2>2, <3>1, <3>3 DEF Coming
    <2> QED
        BY <1>1, <1>3, <1>4, <1>8, <1>9, <2>1, <2>2, SettlesOn
<1>11. Shapes'
    <2>1. node' \in [Ids -> NodeType] /\ stored' \in [Files -> Content \cup {Gone}]
        BY <1>1, <1>2, <1>3, <1>4, <1>5, <1>6, <1>7
    <2>2. free' \subseteq Blocks
        BY <1>3, <1>6, <1>7
    <2> QED
        BY <1>3, <1>4, <1>5, <1>9, <2>1, <2>2 DEF Shapes
<1> QED
    BY <1>3, <1>5, <1>8, <1>10, <1>11 DEF IInv, Live

\* A directory is saved: a new or an older entry gets its header, and the save
\* goes into the directory.
LEMMA DirectorySaved ==
    ASSUME IInv, SaveDirectory
    PROVE  \E A \in SUBSET Entered.free, r \in NodeType : Saved(A, r)
<1>1. CurDir /\ GoInto /\ Saving /\ node[Cur].dirty /\ CanEnter /\ Cur \in Dirs /\ Cur \notin Files
    BY NodesAssumption DEF SaveDirectory, CurDir
<1>2. PICK b : b = Entered.block
    OBVIOUS
<1>3. /\ disk' = [Entered.disk EXCEPT ![Entered.block] = Named]
      /\ free' = Entered.free
      /\ node' = [node EXCEPT ![Cur].block = b, ![Cur].dirty = FALSE]
      /\ UNCHANGED <<nodes, loaded, diskFree, pc, doomed, version, stored>>
    BY <1>2 DEF SaveDirectory, history
<1>4. /\ Live /\ Shapes /\ Cur \in Ids /\ Dir \in Open /\ Cur \in Alive(Dir)
    BY <1>1, NamesApart
<1>5. node \in [Ids -> NodeType] /\ free \subseteq Blocks
    BY <1>4 DEF Shapes
<1>6. Entered.free \subseteq free /\ b \in Blocks
    BY <1>1, <1>2, EnteredShape
<1>7. Named.kind = "dir"
    BY <1>1, NamedShape
<1>8. /\ disk' \in Disks /\ disk'[Entered.block] = Named
      /\ \A x \in Blocks : x # Entered.block => disk'[x] = Entered.disk[x]
      /\ OwnOn(disk', Entered.block) = OwnOn(Base, Entered.block)
    <2>1. PICK dk2 : dk2 = disk'
        OBVIOUS
    <2>2. dk2 = [Entered.disk EXCEPT ![Entered.block] = Named]
        BY <1>3, <2>1
    <2> QED
        BY <1>1, <2>1, <2>2, HeaderOnly
<1>9. PICK r \in NodeType : /\ node' = [node EXCEPT ![Cur] = r]
                            /\ r.block = b /\ r.name = node[Cur].name /\ ~r.dirty
    <2>1. PICK s \in NodeType : s = node[Cur]
        BY <1>4, <1>5
    <2>2. PICK r : r = [s EXCEPT !.block = b, !.dirty = FALSE]
        OBVIOUS
    <2>3. r \in NodeType /\ r.block = b /\ r.name = s.name /\ ~r.dirty
        BY <1>6, <2>1, <2>2 DEF NodeType, Pointers
    <2>4. node' = [node EXCEPT ![Cur] = r]
        BY <1>3, <1>4, <1>5, <2>1, <2>2
    <2> QED
        BY <2>1, <2>3, <2>4
<1>10. PICK A \in SUBSET Entered.free : A = {}
    OBVIOUS
<1>11. /\ free' = Entered.free \ A /\ Named.kind # "file"
       /\ \A x \in Blocks : x # Entered.block /\ x \notin A => disk'[x] = Entered.disk[x]
       /\ \A f \in {"kind", "id", "name", "next", "parent"} : disk'[Entered.block][f] = Named[f]
       /\ disk'[Entered.block].table = Named.table
       /\ OwnOn(disk', Entered.block) \subseteq OwnOn(Base, Entered.block) \cup A
       /\ r.block = Entered.block
    BY <1>2, <1>3, <1>7, <1>8, <1>9, <1>10
<1>12. Saved(A, r)
    BY <1>3, <1>8, <1>9, <1>11 DEF Saved
<1> QED
    BY <1>12

\* After that the image is as it should be.
LEMMA SaveDirectoryHolds ==
    ASSUME IInv, SaveDirectory PROVE IInv'
<1>1. CurDir /\ GoInto /\ Saving /\ node[Cur].dirty /\ CanEnter
    BY DEF SaveDirectory, CurDir
<1>2. PICK A \in SUBSET Entered.free, r \in NodeType : Saved(A, r)
    BY DirectorySaved
<1>3. /\ disk' \in Disks /\ free' = Entered.free \ A /\ node' = [node EXCEPT ![Cur] = r]
      /\ UNCHANGED <<nodes, loaded, doomed, pc>>
    BY <1>2 DEF Saved
<1>4. UNCHANGED <<diskFree, version, stored>>
    BY DEF SaveDirectory, history
<1>5. Live /\ Shapes /\ Cur \in Ids
    BY <1>1, NamesApart
<1>6. node \in [Ids -> NodeType] /\ free \subseteq Blocks /\ Entered.free \subseteq free
    BY <1>1, <1>5, EnteredShape DEF Shapes
<1>7. /\ Tree(disk') /\ Apart(disk', free') /\ Nesting' /\ Holding' /\ Dooming'
      /\ Open' = Open /\ \A d : Alive(d)' = Alive(d)
      /\ \A d \in Open : \A x \in Alive(d) : ~Settled(x)' => x # Cur /\ ~Settled(x)
    BY <1>1, <1>2, Saves
<1>8. pc = "save"
    BY <1>1 DEF Saving
<1>9. /\ todo' \in Seq(Directories \X Ids)
      /\ \A p \in Range(todo') : p[1] \in Open /\ p[2] \in Range(nodes[p[1]])
      /\ \A d \in Open : \A x \in Range(nodes[d]) :
            Coming(d, x) /\ <<d, x>> # <<Dir, Cur>> => Coming(d, x)'
    BY <1>1, GoesInto
<1>10. Settling'
    <2>1. \A d \in Open : \A x \in Alive(d) : x # Cur /\ Coming(d, x) => Coming(d, x)'
        <3> SUFFICES ASSUME NEW d \in Open, NEW x \in Alive(d), x # Cur, Coming(d, x) PROVE Coming(d, x)'
            OBVIOUS
        <3>1. <<d, x>> # <<Dir, Cur>> /\ x \in Range(nodes[d])
            BY DEF Alive
        <3> QED
            BY <1>9, <3>1
    <2> QED
        BY <1>1, <1>3, <1>7, <1>8, <1>9, <2>1, SettlesOn
<1>11. Shapes'
    <2>1. node' \in [Ids -> NodeType]
        BY <1>3, <1>5, <1>6
    <2> QED
        BY <1>3, <1>4, <1>5, <1>6, <1>8, <1>9, <2>1 DEF Shapes
<1> QED
    BY <1>3, <1>5, <1>7, <1>10, <1>11 DEF IInv, Live

-----------------------------------------------------------------------------
(* filesystemRemove finds the entry of its node *)

\* The links from an entry lead to it from nowhere else: no table and no
\* directory but its own has the block of an entry.
LEMMA NotInTable ==
    ASSUME disk \in Disks, Tree(disk), NEW p \in DirsOn(disk), NEW b \in In(disk, p),
           NEW c \in In(disk, p), c # b, NEW h \in Slots
    PROVE  disk[c].table[h] # b
<1>1. /\ b \in AllOn(disk) /\ c \in AllOn(disk) /\ disk[b].parent = p /\ disk[c].parent = p
      /\ p # RootBlock => disk[c].kind = "file"
    BY TreeShape
<1>2. /\ b \in Blocks /\ c \in Blocks /\ disk[c].kind \in EntryKinds /\ b \in OwnOn(disk, b)
      /\ disk[c].kind = "dir" => c \in DirsOn(disk)
      /\ RootBlock \notin AllOn(disk)
    BY <1>1, TreeShape
<1>3. SUFFICES ASSUME disk[c].table[h] = b PROVE FALSE
    OBVIOUS
<1>4. b # 0
    BY <1>2, BlocksShape
<1>5. CASE disk[c].kind = "file"
    <2>1. b \in Held(disk[c].table)
        BY <1>3, <1>4 DEF Held
    <2>2. b \in OwnOn(disk, c)
        BY <1>5, <2>1 DEF OwnOn
    <2>3. OwnOn(disk, c) \cap OwnOn(disk, b) = {}
        BY <1>1 DEF Tree
    <2> QED
        BY <1>2, <2>2, <2>3
<1>6. CASE disk[c].kind = "dir"
    <2>1. c \in DirsOn(disk) /\ p = RootBlock
        BY <1>1, <1>2, <1>6
    <2>2. PICK e : e = ChainOn(disk, c, h)
        OBVIOUS
    <2>3. Proper(e, b, NextOf(disk)) /\ e \in Paths /\ \A z \in Range(e) : z \in In(disk, c)
        BY <1>3, <2>1, <2>2, TreeShape DEF Tree, ChainFits
    <2>4. e # <<>>
        BY <1>4, <2>3 DEF Proper
    <2>5. e[1] = b
        BY <2>3, <2>4 DEF Proper, Follows
    <2>6. e[1] \in Range(e)
        BY <2>3, <2>4, PathShape
    <2>7. b \in In(disk, c)
        BY <2>3, <2>5, <2>6
    <2>8. disk[b].parent = c
        BY <2>1, <2>7, TreeShape
    <2> QED
        BY <1>1, <1>2, <2>1, <2>8
<1> QED
    BY <1>2, <1>5, <1>6 DEF EntryKinds

\* The entry is the one of that name, and the removal links past it.
LEMMA Found ==
    ASSUME IInv, Live, NEW d \in Open, BlockOf(d) # 0, NEW x, NodeFits(d, x), Settled(x)
    PROVE  /\ IsFound(x) /\ HashOf[node[x].name] \in Slots /\ BlockOf(d) \in DirsOn(disk)
           /\ node[x].block \in In(disk, BlockOf(d)) /\ disk[node[x].block].id = x
           /\ RemoveChain(x)[Hit(x)] = node[x].block
           /\ Hit(x) \in 1 .. Len(ChainOn(disk, BlockOf(d), HashOf[node[x].name]))
           /\ ChainOn(disk, BlockOf(d), HashOf[node[x].name])[Hit(x)] = node[x].block
           /\ Unlinked(x) = Bypassed(disk, BlockOf(d), HashOf[node[x].name], Hit(x))
<1>1. Tree(disk) /\ disk \in Disks
    BY DEF IInv, Shapes
<1>2. PICK b : b = node[x].block
    OBVIOUS
<1>3. PICK p : p = BlockOf(d)
    OBVIOUS
<1>4. PICK h : h = HashOf[node[x].name]
    OBVIOUS
<1>5. p \in DirsOn(disk)
    BY <1>3, OpenBlocks
<1>6. /\ b # 0 /\ b \in In(disk, p) /\ disk[b].id = x /\ disk[b].name = node[x].name
      /\ node[x].name \in Names
    BY <1>2, <1>3 DEF Settled, NodeFits
<1>7. h \in Slots
    BY <1>4, <1>6, HashAssumption
<1>8. /\ b \in AllOn(disk) /\ disk[b].parent = p /\ b \in Range(ChainOn(disk, p, h))
    BY <1>1, <1>4, <1>5, <1>6, TreeShape
<1>9. PICK c : c = ChainOn(disk, p, h)
    OBVIOUS
<1>10. RemoveChain(x) = c
    <2>1. Parent(x) = p
        BY <1>2, <1>8 DEF Parent
    <2> QED
        BY <1>1, <1>4, <1>9, <2>1, Reading DEF RemoveChain
<1>11. IsFound(x)
    BY <1>2, <1>6, <1>8, <1>9, <1>10 DEF IsFound
<1>12. /\ c \in Paths /\ \A z \in Range(c) : z \in In(disk, p)
       /\ Proper(c, disk[p].table[h], NextOf(disk))
    BY <1>1, <1>5, <1>7, <1>9, TreeShape DEF Tree, ChainFits
<1>13. PICK n \in Nat : n = Len(c)
    BY <1>12, PathShape
<1>14. /\ DOMAIN c = 1 .. n /\ IsInjective(c)
       /\ \A j \in 1 .. n : c[j] \in Blocks /\ c[j] \in Range(c)
    BY <1>12, <1>13, PathShape
<1>15. PICK k \in 1 .. n : c[k] = b
    BY <1>8, <1>9, <1>12, <1>13, PathShape
<1>16. \A j \in 1 .. n : disk[c[j]].name = node[x].name <=> j = k
    <2> SUFFICES ASSUME NEW j \in 1 .. n, disk[c[j]].name = node[x].name PROVE j = k
        BY <1>6, <1>15
    <2>1. c[j] \in In(disk, p)
        BY <1>12, <1>14
    <2>2. c[j] = b
        BY <1>1, <1>5, <1>6, <2>1 DEF Tree
    <2> QED
        BY <1>14, <1>15, <2>2 DEF IsInjective
<1>17. Hit(x) = k
    <2>1. Hit(x) = CHOOSE i \in 1 .. n : /\ disk[c[i]].name = node[x].name
                                         /\ \A j \in 1 .. i - 1 : disk[c[j]].name # node[x].name
        BY <1>10, <1>13 DEF Hit
    <2>2. \A j \in 1 .. k - 1 : j \in 1 .. n /\ j # k
        BY <1>13
    <2>3. \A j \in 1 .. k - 1 : disk[c[j]].name # node[x].name
        BY <1>16, <2>2
    <2> QED
        BY <1>16, <2>1, <2>3
<1>18. Unlinked(x) = Bypassed(disk, p, h, k)
    <2>1. Unlinked(x) = LET before == IF k = 1 THEN p ELSE c[k - 1]
                        IN  IF disk[before].table[h] = b THEN [disk EXCEPT ![before].table[h] = disk[b].next]
                            ELSE IF before = RootBlock THEN disk
                            ELSE [disk EXCEPT ![before].next = disk[b].next]
        BY <1>2, <1>4, <1>8, <1>10, <1>15, <1>17 DEF Unlinked, Parent
    <2>2. CASE k = 1
        <3>1. disk[p].table[h] = b
            <4>1. c # <<>>
                BY <1>13, <1>15, <1>14
            <4> QED
                BY <1>12, <1>15, <2>2, <4>1 DEF Proper, Follows
        <3>2. c[1] = b
            BY <1>15, <2>2
        <3>3. Bypassed(disk, p, h, k) = [disk EXCEPT ![p].table[h] = disk[b].next]
            BY <1>9, <2>2, <3>2 DEF Bypassed
        <3> QED
            BY <2>1, <2>2, <3>1, <3>3
    <2>3. CASE k # 1
        <3>1. PICK i \in 1 .. n : i = k - 1
            BY <1>13, <2>3
        <3>2. c[i] \in In(disk, p) /\ c[i] # b
            BY <1>12, <1>13, <1>14, <1>15, <3>1 DEF IsInjective
        <3>3. disk[c[i]].table[h] # b
            BY <1>1, <1>5, <1>6, <1>7, <3>2, NotInTable
        <3>4. c[i] # RootBlock
            BY <1>1, <1>5, <3>2, TreeShape
        <3>5. Bypassed(disk, p, h, k) = [disk EXCEPT ![c[i]].next = disk[b].next]
            BY <1>9, <1>15, <2>3, <3>1 DEF Bypassed
        <3> QED
            BY <2>1, <2>3, <3>1, <3>3, <3>4, <3>5
    <2> QED
        BY <2>2, <2>3
<1> QED
    BY <1>2, <1>3, <1>4, <1>5, <1>6, <1>7, <1>9, <1>10, <1>11, <1>13, <1>15, <1>17, <1>18

-----------------------------------------------------------------------------
(* What a removal leaves *)

\* An entry has blocks of the disk only.
LEMMA OwnInBlocks ==
    ASSUME NEW dk \in Disks, Tree(dk), NEW b \in AllOn(dk)
    PROVE  OwnOn(dk, b) \subseteq Blocks
<1>1. b \in Blocks /\ dk[b].kind \in EntryKinds /\ dk[b] \in EntryType
    BY TreeShape
<1>2. CASE dk[b].kind = "dir"
    BY <1>1, <1>2 DEF OwnOn
<1>3. CASE dk[b].kind = "file"
    <2>1. PICK x : x = ExtOn(dk, b)
        OBVIOUS
    <2>2. Proper(x, dk[b].ext, ExtOf(dk)) /\ DOMAIN ExtOf(dk) \subseteq Blocks
        BY <1>3, <2>1, DiskShape DEF Tree, EntryFits
    <2>3. Range(x) \subseteq DOMAIN ExtOf(dk)
        BY <2>2, ProperIs
    <2>4. \A e \in Range(x) : e \in Blocks /\ dk[e].kind = "ext"
        BY <2>3, DiskShape
    <2>5. \A e \in Range(x) : dk[e].table \in Tables
        BY <2>4, DiskShape DEF ExtType
    <2>6. dk[b].table \in Tables
        BY <1>1 DEF EntryType
    <2>7. Held(dk[b].table) \subseteq Blocks /\ \A e \in Range(x) : Held(dk[e].table) \subseteq Blocks
        BY <2>5, <2>6, ListedIn
    <2>8. OwnOn(dk, b) = {b} \cup Held(dk[b].table) \cup Range(x) \cup UNION {Held(dk[e].table) : e \in Range(x)}
        BY <1>3, <2>1 DEF OwnOn
    <2>9. UNION {Held(dk[e].table) : e \in Range(x)} \subseteq Blocks
        BY <2>7
    <2> QED
        BY <1>1, <2>4, <2>7, <2>8, <2>9
<1> QED
    BY <1>1, <1>2, <1>3 DEF EntryKinds

\* The node whose turn it is, its directory, and its empty entry if it is one.
Removable(d, x) ==
    /\ d \in Open /\ BlockOf(d) # 0 /\ NodeFits(d, x) /\ Settled(x)
    /\ disk[node[x].block].kind = "dir" => In(disk, node[x].block) = {}

\* The blocks of the entry become free, and all others stay where they are.
LEMMA RemovedDisk ==
    ASSUME IInv, Live, NEW d, NEW x, Removable(d, x),
           disk' = Unlinked(x), free' = free \cup BlocksOf(RemoveChain(x)[Hit(x)])
    PROVE  /\ disk' \in Disks /\ free' \subseteq Blocks /\ Tree(disk') /\ Apart(disk', free')
           /\ node[x].block \in AllOn(disk) /\ disk[node[x].block].id = x
           /\ AllOn(disk') = AllOn(disk) \ {node[x].block}
           /\ \A q \in DirsOn(disk) : In(disk', q) = In(disk, q) \ {node[x].block}
           /\ \A c \in AllOn(disk) : disk'[c].name = disk[c].name /\ disk'[c].id = disk[c].id
<1>1. Tree(disk) /\ disk \in Disks /\ Apart(disk, free) /\ free \subseteq Blocks
    BY DEF IInv, Shapes
<1>2. PICK b : b = node[x].block
    OBVIOUS
<1>3. PICK p : p = BlockOf(d)
    OBVIOUS
<1>4. PICK h : h = HashOf[node[x].name]
    OBVIOUS
<1>5. PICK k : k = Hit(x)
    OBVIOUS
<1>6. /\ h \in Slots /\ p \in DirsOn(disk) /\ b \in In(disk, p) /\ disk[b].id = x
      /\ RemoveChain(x)[k] = b
      /\ k \in 1 .. Len(ChainOn(disk, p, h)) /\ ChainOn(disk, p, h)[k] = b
      /\ Unlinked(x) = Bypassed(disk, p, h, k)
    BY <1>2, <1>3, <1>4, <1>5, Found DEF Removable
<1>7. disk[b].kind = "dir" => In(disk, b) = {}
    BY <1>2 DEF Removable
<1>8. PICK dk2 : dk2 = disk'
    OBVIOUS
<1>9. /\ dk2 \in Disks /\ Tree(dk2) /\ b \in AllOn(disk) /\ AllOn(dk2) = AllOn(disk) \ {b}
      /\ In(dk2, p) = In(disk, p) \ {b}
      /\ \A q \in DirsOn(disk) : q # p => In(dk2, q) = In(disk, q)
      /\ \A c \in AllOn(disk) : c # b => OwnOn(dk2, c) = OwnOn(disk, c)
      /\ \A c \in AllOn(disk) : dk2[c].name = disk[c].name /\ dk2[c].id = disk[c].id
    <2>1. disk[ChainOn(disk, p, h)[k]].kind = "dir" => In(disk, ChainOn(disk, p, h)[k]) = {}
        BY <1>6, <1>7
    <2>2. Without(Bypassed(disk, p, h, k), disk, p, ChainOn(disk, p, h)[k])
        BY <1>1, <1>6, <2>1, Unlinking
    <2>3. Without(dk2, disk, p, b)
        BY <1>6, <1>8, <2>2
    <2> QED
        BY <2>3 DEF Without
<1>10. \A q \in DirsOn(disk) : In(dk2, q) = In(disk, q) \ {b}
    <2> SUFFICES ASSUME NEW q \in DirsOn(disk), q # p PROVE b \notin In(disk, q)
        BY <1>9
    <2>1. disk[b].parent = p
        BY <1>1, <1>6, TreeShape
    <2> QED
        BY <1>1, <2>1, TreeShape
<1>11. BlocksOf(b) \subseteq OwnOn(disk, b)
    BY <1>1, <1>7, <1>9, BlocksFound
<1>12. free' = free \cup BlocksOf(b)
    BY <1>5, <1>6
<1>13. Apart(dk2, free')
    <2>1. OwnOn(disk, b) \cap System = {}
        BY <1>1, <1>9 DEF Apart
    <2>2. free' \cap System = {}
        BY <1>1, <1>11, <1>12, <2>1 DEF Apart
    <2>3. ASSUME NEW c \in AllOn(dk2) PROVE OwnOn(dk2, c) \cap (free' \cup System) = {}
        <3>1. c \in AllOn(disk) /\ c # b /\ OwnOn(dk2, c) = OwnOn(disk, c)
            BY <1>9, <2>3
        <3>2. OwnOn(disk, c) \cap OwnOn(disk, b) = {}
            BY <1>1, <1>9, <3>1 DEF Tree
        <3>3. OwnOn(disk, c) \cap (free \cup System) = {}
            BY <1>1, <3>1 DEF Apart
        <3> QED
            BY <1>11, <1>12, <3>1, <3>2, <3>3
    <2> QED
        BY <2>2, <2>3 DEF Apart
<1>14. free' \subseteq Blocks
    <2>1. OwnOn(disk, b) \subseteq Blocks
        BY <1>1, <1>9, OwnInBlocks
    <2> QED
        BY <1>1, <1>11, <1>12, <2>1
<1> QED
    BY <1>2, <1>6, <1>8, <1>9, <1>10, <1>13, <1>14

\* The nodes that are left are on disk as they are in memory.
LEMMA RemovedNodes ==
    ASSUME IInv, Live, pc # "save", NEW d, NEW x, Removable(d, x),
           node' = node, AllOn(disk') = AllOn(disk) \ {node[x].block},
           \A q \in DirsOn(disk) : In(disk', q) = In(disk, q) \ {node[x].block},
           \A c \in AllOn(disk) : disk'[c].name = disk[c].name /\ disk'[c].id = disk[c].id,
           disk[node[x].block].id = x, node[x].block \in AllOn(disk),
           Open' \subseteq Open \ {x},
           \A e \in Open' : Alive(e)' = Alive(e) \ {x} /\ loaded'[e] = loaded[e],
           Range(doomed') = Range(doomed) \ {x}
    PROVE  /\ Holding' /\ \A e \in Open' : \A y \in Alive(e)' : Settled(y)'
           /\ \A e \in Open : BlockOf(e) # 0 /\ BlockOf(e)' = BlockOf(e)
<1>1. Tree(disk) /\ disk \in Disks /\ Holding
    BY DEF IInv, Shapes
<1>2. PICK b : b = node[x].block
    OBVIOUS
<1>3. \A e : BlockOf(e)' = BlockOf(e)
    BY DEF BlockOf
<1>4. \A e \in Open : \A y \in Alive(e) : Settled(y)
    BY AllSettled
<1>5. ASSUME NEW e \in Open PROVE BlockOf(e) # 0 /\ BlockOf(e) \in DirsOn(disk)
    <2>1. BlockOf(e) # 0
        <3>1. CASE e = Root
            BY <3>1, BlocksShape, GeometryAssumption DEF BlockOf
        <3>2. CASE e # Root
            <4>1. e \in Alive(Root) /\ Root \in Open
                BY <3>2, Standing
            <4> QED
                BY <1>4, <3>2, <4>1 DEF Settled, BlockOf
        <3> QED
            BY <3>1, <3>2
    <2> QED
        BY <2>1, OpenBlocks
<1>6. ASSUME NEW e \in Open', NEW y \in Alive(e)'
      PROVE  NodeFits(e, y)' /\ Settled(y)'
    <2>1. e \in Open /\ y \in Alive(e) /\ y # x
        OBVIOUS
    <2>2. /\ NodeFits(e, y) /\ Settled(y) /\ node[y].block # 0
        BY <1>1, <1>4, <2>1 DEF Holding, Settled
    <2>3. /\ node[y].block \in In(disk, BlockOf(e)) /\ node[y].block \in AllOn(disk) /\ disk[node[y].block].id = y
          /\ HashOf[disk[node[y].block].name] = HashOf[node[y].name]
        BY <2>1, <2>2, NodeAt
    <2>4. node[y].block # b
        BY <1>2, <2>1, <2>3
    <2>5. node[y].block \in In(disk', BlockOf(e)')
        BY <1>2, <1>3, <1>5, <2>1, <2>3, <2>4
    <2>6. /\ disk'[node[y].block].name = disk[node[y].block].name
          /\ disk'[node[y].block].id = disk[node[y].block].id
        BY <2>3
    <2>7. Settled(y)'
        BY <2>2, <2>6 DEF Settled
    <2>8. NodeFits(e, y)'
        BY <2>2, <2>3, <2>5, <2>6, <2>7 DEF NodeFits
    <2> QED
        BY <2>7, <2>8
<1>7. ASSUME NEW e \in Open', loaded'[e] \/ e \in Range(doomed'), NEW c \in In(disk', BlockOf(e)')
      PROVE  disk'[c].id \in Alive(e)' \cup Range(doomed') /\ node'[disk'[c].id].block = c
    <2>1. e \in Open /\ (loaded[e] \/ e \in Range(doomed))
        BY <1>7
    <2>2. c \in In(disk, BlockOf(e)) /\ c # b
        BY <1>2, <1>3, <1>5, <1>7, <2>1
    <2>3. disk[c].id \in Alive(e) \cup Range(doomed) /\ node[disk[c].id].block = c
        BY <1>1, <2>1, <2>2 DEF Holding
    <2>4. disk[c].id # x
        BY <1>2, <2>2, <2>3
    <2>5. c \in AllOn(disk)
        BY <1>1, <1>5, <2>1, <2>2, TreeShape
    <2> QED
        BY <1>7, <2>3, <2>4, <2>5
<1>8. Holding'
    <2>1. \A e \in Open' : \A y, z \in Alive(e)' : node'[y].name = node'[z].name => y = z
        BY <1>1 DEF Holding
    <2> QED
        BY <1>6, <1>7, <2>1 DEF Holding
<1> QED
    BY <1>3, <1>5, <1>6, <1>8

-----------------------------------------------------------------------------
(* Whose turn it is *)

\* The first of a sequence goes.
LEMMA TailShape ==
    ASSUME NEW S, NEW c \in Seq(S), IsInjective(c), c # <<>>
    PROVE  /\ c[1] \in S /\ c[1] \in Range(c) /\ Tail(c) \in Seq(S) /\ IsInjective(Tail(c))
           /\ Range(Tail(c)) = Range(c) \ {c[1]}
           /\ Len(c) \in Nat /\ Len(c) > 0 /\ Len(Tail(c)) = Len(c) - 1 /\ Last(c) = c[Len(c)]
           /\ \A j \in 1 .. Len(c) - 1 : Tail(c)[j] = c[j + 1]
           /\ Tail(c) # <<>> => Last(Tail(c)) = Last(c)
           /\ Tail(c) = <<>> <=> Len(c) = 1
           /\ DOMAIN c = 1 .. Len(c)
<1>1. PICK n \in Nat : n = Len(c)
    OBVIOUS
<1>2. n > 0 /\ DOMAIN c = 1 .. n /\ \A j \in 1 .. n : c[j] \in S
    BY <1>1
<1>3. PICK t \in Seq(S) : t = Tail(c)
    <2>1. Tail(c) \in Seq(S)
        OBVIOUS
    <2> QED
        BY <2>1
<1>4. Len(t) = n - 1 /\ DOMAIN t = 1 .. n - 1 /\ \A j \in 1 .. n - 1 : t[j] = c[j + 1] /\ j + 1 \in 1 .. n
    BY <1>1, <1>2, <1>3
<1>5. IsInjective(t)
    <2> SUFFICES ASSUME NEW i \in 1 .. n - 1, NEW j \in 1 .. n - 1, t[i] = t[j] PROVE i = j
        BY <1>4 DEF IsInjective
    <2>1. i + 1 \in 1 .. n /\ j + 1 \in 1 .. n /\ c[i + 1] = c[j + 1]
        BY <1>4
    <2>2. i + 1 = j + 1
        BY <1>2, <2>1 DEF IsInjective
    <2> QED
        BY <1>1, <2>2
<1>6. c[1] \in S /\ c[1] \in Range(c)
    BY <1>1, <1>2 DEF Range
<1>7. \A s \in Range(t) : s \in Range(c) /\ s # c[1]
    <2> SUFFICES ASSUME NEW j \in 1 .. n - 1 PROVE t[j] \in Range(c) /\ t[j] # c[1]
        BY <1>4 DEF Range
    <2>1. PICK i \in 1 .. n : i = j + 1
        BY <1>1
    <2>2. t[j] = c[i] /\ i # 1
        BY <1>1, <1>4, <2>1
    <2>3. 1 \in 1 .. n
        BY <1>1, <1>2
    <2> QED
        BY <1>2, <2>2, <2>3 DEF IsInjective, Range
<1>8. \A s \in Range(c) : s = c[1] \/ s \in Range(t)
    <2> SUFFICES ASSUME NEW i \in 1 .. n, i # 1 PROVE c[i] \in Range(t)
        BY <1>2 DEF Range
    <2>1. PICK j \in 1 .. n - 1 : j = i - 1
        BY <1>1
    <2>2. t[j] = c[i]
        BY <1>1, <1>4, <2>1
    <2> QED
        BY <1>4, <2>2 DEF Range
<1>9. Last(c) = c[n]
    BY <1>1 DEF Last
<1>10. t # <<>> => Last(t) = Last(c)
    <2> SUFFICES ASSUME t # <<>> PROVE t[n - 1] = c[n]
        BY <1>4, <1>9 DEF Last
    <2>1. Len(t) # 0
        BY <1>3
    <2>2. n - 1 \in 1 .. n - 1
        BY <1>1, <1>2, <1>4, <2>1
    <2> QED
        BY <1>1, <1>4, <2>2
<1>11. t = <<>> <=> n = 1
    <2>1. t = <<>> <=> Len(t) = 0
        BY <1>3, EmptySeq
    <2> QED
        BY <1>1, <1>4, <2>1
<1> QED
    BY <1>1, <1>2, <1>3, <1>4, <1>5, <1>6, <1>7, <1>8, <1>9, <1>10, <1>11

\* A file that is removed alone, ...
LoneFile(x) ==
    /\ x \in Files /\ Tail(doomed) = <<>> /\ Ghosts = {} /\ x \notin InTree

\* ... a file of a directory that is removed, ...
FileOf(x, d) ==
    /\ x \in Files /\ Tail(doomed) # <<>>
    /\ d \in Dirs /\ d = Last(doomed) /\ d \in Range(nodes[Root]) /\ d \in Open
    /\ x \in Range(nodes[d]) /\ x \notin Ghosts
    /\ \A j \in 1 .. Len(Tail(doomed)) - 1 : Tail(doomed)[j] \in Range(nodes[d])

\* ... and, last, the directory.
EmptyDirectory(x) ==
    /\ x \in Dirs /\ Tail(doomed) = <<>> /\ x \in Range(nodes[Root]) /\ x \in Open
    /\ Ghosts = Range(nodes[x])

\* The node whose turn it is has an entry that can go.
LEMMA Turn ==
    ASSUME IInv, pc = "remove", doomed # <<>>, NEW x, x = doomed[1]
    PROVE  /\ x \in Ids /\ \E d : Removable(d, x)
           /\ LoneFile(x) \/ EmptyDirectory(x) \/ \E d : FileOf(x, d)
<1>1. Live
    BY DEF Live
<1>2. Tree(disk) /\ disk \in Disks /\ Nesting /\ Holding /\ Dooming /\ doomed \in Seq(Ids) /\ IsInjective(doomed)
    BY <1>1 DEF IInv, Shapes, Dooming
<1>3. PICK n \in Nat : n = Len(doomed)
    BY <1>2
<1>4. /\ x \in Ids /\ x \in Range(doomed) /\ n > 0 /\ Len(Tail(doomed)) = n - 1 /\ Last(doomed) = doomed[n]
      /\ Tail(doomed) \in Seq(Ids)
      /\ \A j \in 1 .. n - 1 : Tail(doomed)[j] = doomed[j + 1]
      /\ Tail(doomed) = <<>> <=> n = 1
      /\ DOMAIN doomed = 1 .. n
    BY <1>2, <1>3, TailShape
<1>5. /\ Root \in Open /\ Root \notin Ids /\ Open \subseteq Directories /\ Files \cap Dirs = {} /\ Ghosts \subseteq Files
    BY <1>1, Standing
<1>6. \A d \in Open : \A y \in Alive(d) : Settled(y)
    BY <1>1, AllSettled
<1>7. ASSUME NEW d \in Open, BlockOf(d) # 0, NodeFits(d, x), Settled(x), x \in Files PROVE Removable(d, x)
    <2>1. node[x].block \in In(disk, BlockOf(d)) /\ disk[node[x].block].id = x
        BY <1>7 DEF Settled, NodeFits
    <2>2. BlockOf(d) \in DirsOn(disk)
        BY <1>1, <1>7, OpenBlocks
    <2>3. node[x].block \in AllOn(disk)
        BY <1>2, <2>1, <2>2, TreeShape
    <2>4. disk[node[x].block].kind = "file"
        BY <1>2, <1>7, <2>1, <2>3 DEF Tree, EntryFits
    <2> QED
        BY <1>7, <2>4 DEF Removable
<1>8. ASSUME NEW d \in Open, x \in Alive(d) PROVE BlockOf(d) # 0 /\ NodeFits(d, x) /\ Settled(x)
    BY <1>1, <1>6, <1>8, NodeAt
<1>9. CASE ~(Last(doomed) \in Dirs /\ Last(doomed) \in Range(nodes[Root])
             /\ \A j \in 1 .. Len(doomed) - 1 : doomed[j] \in Range(nodes[Last(doomed)]))
    <2>1. /\ n = 1 /\ x \in Files /\ x \notin InTree
          /\ \E d \in Open : BlockOf(d) # 0 /\ NodeFits(d, x) /\ Settled(x)
        BY <1>2, <1>3, <1>9 DEF Dooming
    <2>2. Last(doomed) = x /\ x \notin Dirs
        BY <1>4, <1>5, <2>1
    <2>3. Ghosts = {}
        BY <2>2 DEF Ghosts
    <2>4. Tail(doomed) = <<>>
        BY <1>4, <2>1
    <2> QED
        BY <1>4, <1>7, <2>1, <2>3, <2>4 DEF LoneFile
<1>10. CASE /\ Last(doomed) \in Dirs /\ Last(doomed) \in Range(nodes[Root])
            /\ \A j \in 1 .. Len(doomed) - 1 : doomed[j] \in Range(nodes[Last(doomed)])
    <2>1. PICK d : d = Last(doomed)
        OBVIOUS
    <2>2. /\ d \in Dirs /\ d \in Range(nodes[Root]) /\ d \in Open /\ Range(nodes[d]) \subseteq Files
          /\ Ghosts = Range(nodes[d]) \ Range(doomed)
        BY <1>2, <1>10, <2>1 DEF Open, Nesting, Ghosts
    <2>3. CASE n # 1
        <3>1. 1 \in 1 .. n - 1
            BY <1>3, <1>4, <2>3
        <3>2. x \in Range(nodes[d])
            BY <1>3, <1>10, <2>1, <3>1
        <3>3. x \notin Ghosts /\ x \in Alive(d)
            BY <1>4, <2>2, <3>2 DEF Alive
        <3>4. Tail(doomed) # <<>>
            BY <1>4, <2>3
        <3>5. \A j \in 1 .. Len(Tail(doomed)) - 1 : Tail(doomed)[j] \in Range(nodes[d])
            <4> SUFFICES ASSUME NEW j \in 1 .. n - 1 - 1 PROVE Tail(doomed)[j] \in Range(nodes[d])
                BY <1>4
            <4>1. PICK i \in 1 .. n - 1 : i = j + 1
                BY <1>3
            <4>2. Tail(doomed)[j] = doomed[i] /\ j \in 1 .. n - 1
                BY <1>3, <1>4, <4>1
            <4> QED
                BY <1>3, <1>10, <2>1, <4>2
        <3>6. FileOf(x, d)
            BY <2>1, <2>2, <3>2, <3>3, <3>4, <3>5 DEF FileOf
        <3>7. Removable(d, x)
            BY <1>7, <1>8, <2>2, <3>2, <3>3
        <3> QED
            BY <1>4, <3>6, <3>7
    <2>4. CASE n = 1
        <3>1. x = d /\ Range(doomed) = {x} /\ Tail(doomed) = <<>>
            <4>1. DOMAIN doomed = {1}
                BY <1>4, <2>4
            <4>2. x = d /\ Range(doomed) = {doomed[1]}
                BY <1>4, <2>1, <2>4, <4>1 DEF Range
            <4> QED
                BY <1>4, <2>4, <4>2
        <3>2. Ghosts = Range(nodes[x])
            BY <1>5, <2>2, <3>1
        <3>3. EmptyDirectory(x)
            BY <2>2, <3>1, <3>2 DEF EmptyDirectory
        <3>4. x \in Alive(Root) /\ x # Root
            BY <1>4, <1>5, <2>2, <3>1 DEF Alive
        <3>5. BlockOf(Root) # 0 /\ NodeFits(Root, x) /\ Settled(x)
            BY <1>5, <1>8, <3>4
        <3>6. PICK b : b = node[x].block
            OBVIOUS
        <3>7. BlockOf(x) = b /\ b # 0
            BY <3>4, <3>5, <3>6 DEF BlockOf, Settled
        <3>8. b \in DirsOn(disk) /\ b # RootBlock /\ b \in In(disk, RootBlock)
            BY <1>1, <2>2, <3>1, <3>4, <3>7, OpenBlocks
        <3>9. ASSUME NEW c \in In(disk, b) PROVE FALSE
            <4>1. disk[c].id \in Alive(x) \cup Range(doomed) /\ node[disk[c].id].block = c
                BY <1>2, <1>4, <2>2, <3>1, <3>7, <3>9 DEF Holding
            <4>2. disk[c].id = x
                BY <3>1, <3>2, <4>1 DEF Alive
            <4>3. c = b
                BY <3>6, <4>1, <4>2
            <4>4. disk[c].parent = b /\ disk[b].parent = RootBlock
                <5>1. RootBlock \in DirsOn(disk)
                    BY <1>2, TreeShape
                <5> QED
                    BY <1>2, <3>8, <3>9, <5>1, TreeShape
            <4> QED
                BY <3>8, <4>3, <4>4
        <3>10. Removable(Root, x)
            BY <1>5, <3>5, <3>6, <3>9 DEF Removable
        <3> QED
            BY <1>4, <3>3, <3>10
    <2> QED
        BY <2>3, <2>4
<1> QED
    BY <1>9, <1>10

\* A file has gone; in a directory that is removed, its node stays.
LEMMA FileGoes ==
    ASSUME IInv, pc = "remove", doomed # <<>>, NEW x, x = doomed[1], Settled(x),
           LoneFile(x) \/ \E d : FileOf(x, d),
           UNCHANGED <<nodes, loaded, node>>, doomed' = Tail(doomed)
    PROVE  /\ Open' = Open /\ x \notin Open
           /\ \A e \in Open : Alive(e)' = Alive(e) \ {x}
           /\ Nesting' /\ Dooming'
<1>1. Live
    BY DEF Live
<1>2. Nesting /\ Dooming /\ doomed \in Seq(Ids) /\ IsInjective(doomed)
    BY <1>1 DEF IInv, Shapes, Dooming
<1>3. PICK t : t = Tail(doomed)
    OBVIOUS
<1>4. /\ x \in Range(doomed) /\ t \in Seq(Ids) /\ IsInjective(t) /\ Range(t) = Range(doomed) \ {x}
      /\ t # <<>> => Last(t) = Last(doomed)
      /\ doomed' = t
    BY <1>2, <1>3, TailShape
<1>5. x \in Files /\ x \notin Dirs /\ Open \subseteq Directories /\ Root \notin Ids
    BY <1>1, Standing DEF LoneFile, FileOf
<1>6. Open' = Open /\ x \notin Open
    BY <1>5 DEF Open, Ids
<1>7. Nesting'
    <2>1. \A e : BlockOf(e)' = BlockOf(e)
        BY DEF BlockOf
    <2> QED
        BY <1>2, <1>6, <2>1 DEF Nesting
<1>8. CASE LoneFile(x)
    <2>1. t = <<>> /\ Ghosts = {} /\ x \notin InTree
        BY <1>3, <1>8 DEF LoneFile
    <2>2. Ghosts' = {}
        BY <1>4, <2>1 DEF Ghosts
    <2>3. \A e \in Open : x \notin Range(nodes[e])
        BY <2>1 DEF InTree
    <2>4. \A e \in Open : Alive(e)' = Alive(e) \ {x}
        BY <2>1, <2>2, <2>3 DEF Alive
    <2>5. Dooming'
        BY <1>4, <2>1, <2>2 DEF Dooming
    <2> QED
        BY <1>6, <1>7, <2>4, <2>5
<1>9. ASSUME NEW d, FileOf(x, d) PROVE Dooming' /\ \A e \in Open : Alive(e)' = Alive(e) \ {x}
    <2>1. /\ t # <<>> /\ d \in Dirs /\ d = Last(doomed) /\ d \in Range(nodes[Root]) /\ d \in Open
          /\ x \in Range(nodes[d])
          /\ \A j \in 1 .. Len(t) - 1 : t[j] \in Range(nodes[d])
        BY <1>3, <1>9 DEF FileOf
    <2>2. Ghosts = Range(nodes[d]) \ Range(doomed)
        BY <2>1 DEF Ghosts
    <2>3. Ghosts' = Range(nodes[d]) \ Range(t)
        BY <1>4, <2>1 DEF Ghosts
    <2>4. Ghosts' = Ghosts \cup {x}
        BY <1>4, <2>1, <2>2, <2>3
    <2>5. \A e \in Open : Alive(e)' = Alive(e) \ {x}
        BY <2>4 DEF Alive
    <2>6. ~node[x].dirty
        BY <1>5 DEF Settled
    <2>7. \A g \in Ghosts' : ~node'[g].dirty
        BY <1>2, <2>4, <2>6 DEF Dooming
    <2>8. Dooming'
        BY <1>4, <2>1, <2>7 DEF Dooming
    <2> QED
        BY <2>5, <2>8
<1> QED
    BY <1>6, <1>7, <1>8, <1>9

\* A directory has gone, and its nodes with it.
LEMMA DirectoryGoes ==
    ASSUME IInv, pc = "remove", doomed # <<>>, NEW x, x = doomed[1], EmptyDirectory(x),
           \A e \in Open : BlockOf(e) # 0,
           nodes' = [nodes EXCEPT ![x] = <<>>, ![Root] = RemoveFirst(nodes[Root], x)],
           loaded' = [loaded EXCEPT ![x] = FALSE], node' = node, doomed' = Tail(doomed)
    PROVE  /\ nodes' \in [Directories -> Seq(Ids)] /\ \A e \in Directories : IsInjective(nodes'[e])
           /\ loaded' \in [Directories -> BOOLEAN]
           /\ Open' = Open \ {x}
           /\ \A e \in Open' : Alive(e)' = Alive(e) \ {x} /\ loaded'[e] = loaded[e]
           /\ Nesting' /\ Dooming'
<1>1. Live
    BY DEF Live
<1>2. /\ Nesting /\ nodes \in [Directories -> Seq(Ids)] /\ \A e \in Directories : IsInjective(nodes[e])
      /\ loaded \in [Directories -> BOOLEAN]
    BY <1>1 DEF IInv, Shapes
<1>3. /\ x \in Dirs /\ x \in Range(nodes[Root]) /\ x \in Open /\ Ghosts = Range(nodes[x])
      /\ doomed' = <<>>
    BY DEF EmptyDirectory
<1>4. /\ Root \notin Ids /\ Open \subseteq Directories /\ Root \in Open /\ Files \cap Dirs = {}
      /\ x # Root /\ x \in Ids /\ x \in Directories /\ Root \in Directories
      /\ \A d \in Directories : Range(nodes[d]) \subseteq Ids
    <2>1. x \in Ids /\ x \in Directories /\ Root \in Directories
        BY <1>3 DEF Ids, Directories
    <2> QED
        BY <1>1, <2>1, Standing
<1>5. PICK r \in Seq(Ids) : r = RemoveFirst(nodes[Root], x) /\ IsInjective(r) /\ Range(r) = Range(nodes[Root]) \ {x}
    <2>1. nodes[Root] \in Seq(Ids) /\ IsInjective(nodes[Root])
        BY <1>2, <1>4
    <2> QED
        BY <1>3, <2>1, RemoveShape
<1>6. /\ nodes' \in [Directories -> Seq(Ids)] /\ nodes'[x] = <<>> /\ nodes'[Root] = r
      /\ \A e \in Directories : e # x /\ e # Root => nodes'[e] = nodes[e]
    <2>1. <<>> \in Seq(Ids)
        OBVIOUS
    <2>2. PICK e : e = <<>>
        OBVIOUS
    <2>3. PICK m : m = [nodes EXCEPT ![x] = e]
        OBVIOUS
    <2>4. m \in [Directories -> Seq(Ids)] /\ m[x] = e /\ \A d \in Directories : d # x => m[d] = nodes[d]
        BY <1>2, <1>4, <2>1, <2>2, <2>3
    <2>5. nodes' = [m EXCEPT ![Root] = r]
        BY <1>5, <2>2, <2>3
    <2>6. /\ nodes' \in [Directories -> Seq(Ids)] /\ nodes'[Root] = r
          /\ \A d \in Directories : d # Root => nodes'[d] = m[d]
        <3>1. PICK c : c = nodes'
            OBVIOUS
        <3>2. c = [m EXCEPT ![Root] = r]
            BY <2>5, <3>1
        <3>3. Root \in Directories /\ r \in Seq(Ids)
            BY <1>4
        <3>4. c \in [Directories -> Seq(Ids)]
            BY <2>4, <3>2, <3>3
        <3>5. c[Root] = r /\ \A d \in Directories : d # Root => c[d] = m[d]
            BY <2>4, <3>2, <3>3
        <3> QED
            BY <3>1, <3>4, <3>5
    <2> QED
        BY <1>4, <2>2, <2>4, <2>6
<1>7. /\ loaded' \in [Directories -> BOOLEAN] /\ ~loaded'[x] /\ \A e \in Directories : e # x => loaded'[e] = loaded[e]
    BY <1>2, <1>4
<1>8. \A e \in Directories : IsInjective(nodes'[e])
    <2>1. IsInjective(<<>>)
        BY DEF IsInjective
    <2> QED
        BY <1>2, <1>5, <1>6, <2>1
<1>9. Range(nodes'[x]) = {}
    <2>1. Range(<<>>) = {}
        BY DEF Range
    <2> QED
        BY <1>6, <2>1
<1>10. Open' = Open \ {x}
    BY <1>3, <1>4, <1>5, <1>6 DEF Open
<1>11. Ghosts' = {}
    BY <1>3 DEF Ghosts
<1>12. \A e \in Open' : Alive(e)' = Alive(e) \ {x} /\ loaded'[e] = loaded[e]
    <2> SUFFICES ASSUME NEW e \in Open' PROVE Alive(e)' = Alive(e) \ {x} /\ loaded'[e] = loaded[e]
        OBVIOUS
    <2>1. e \in Directories /\ e # x
        BY <1>4, <1>10
    <2>2. Range(nodes[e]) \cap Range(nodes[x]) = {}
        BY <1>2, <1>4, <2>1 DEF Nesting
    <2>3. Range(nodes'[e]) = Range(nodes[e]) \ {x}
        <3>1. CASE e = Root
            BY <1>5, <1>6, <3>1
        <3>2. CASE e # Root
            <4>1. x \notin Range(nodes[e])
                BY <1>2, <1>3, <1>4, <2>1, <3>2 DEF Nesting
            <4> QED
                BY <1>6, <2>1, <3>2, <4>1
        <3> QED
            BY <3>1, <3>2
    <2> QED
        BY <1>3, <1>7, <1>11, <2>1, <2>2, <2>3 DEF Alive
<1>13. \A e \in Directories : Range(nodes'[e]) \subseteq Range(nodes[e])
    BY <1>5, <1>6, <1>9
<1>14. Nesting'
    <2>1. \A e \in Dirs : Range(nodes'[e]) \subseteq Files
        BY <1>2, <1>13 DEF Nesting, Directories
    <2>2. \A e, g \in Directories : e # g => Range(nodes'[e]) \cap Range(nodes'[g]) = {}
        BY <1>2, <1>13 DEF Nesting
    <2>3. \A e \in Dirs : e \notin Range(nodes'[Root]) => ~loaded'[e]
        BY <1>2, <1>5, <1>6, <1>7 DEF Nesting, Directories
    <2>4. \A e \in Directories : ~loaded'[e] => nodes'[e] = <<>>
        <3> SUFFICES ASSUME NEW e \in Directories, ~loaded'[e], e # x PROVE nodes'[e] = <<>>
            BY <1>6
        <3>1. ~loaded[e] /\ nodes[e] = <<>>
            BY <1>2, <1>7 DEF Nesting
        <3>2. e # Root
            BY <1>3, <3>1 DEF Range
        <3> QED
            BY <1>6, <3>1, <3>2
    <2>5. \A e \in Open' : BlockOf(e)' # 0
        BY <1>10 DEF BlockOf
    <2> QED
        BY <2>1, <2>2, <2>3, <2>4, <2>5 DEF Nesting
<1>15. Dooming'
    <2>1. IsInjective(<<>>)
        BY DEF IsInjective
    <2> QED
        BY <1>3, <1>11, <2>1 DEF Dooming
<1> QED
    BY <1>6, <1>7, <1>8, <1>10, <1>12, <1>14, <1>15

\* The entry of the node whose turn it is leaves the disk, and the node its directory.
LEMMA Removes ==
    ASSUME IInv, RemoveNode, NEW x, x = doomed[1]
    PROVE  /\ x \in Ids /\ disk' = Unlinked(x) /\ \E d : Removable(d, x)
           /\ disk' \in Disks /\ free' \subseteq Blocks /\ Tree(disk') /\ Apart(disk', free')
           /\ node[x].block \in AllOn(disk) /\ disk[node[x].block].id = x
           /\ AllOn(disk') = AllOn(disk) \ {node[x].block}
           /\ \A q \in DirsOn(disk) : In(disk', q) = In(disk, q) \ {node[x].block}
           /\ \A c \in AllOn(disk) : disk'[c].name = disk[c].name /\ disk'[c].id = disk[c].id
           /\ nodes' \in [Directories -> Seq(Ids)] /\ \A e \in Directories : IsInjective(nodes'[e])
           /\ loaded' \in [Directories -> BOOLEAN]
           /\ Open' \subseteq Open \ {x}
           /\ \A e \in Open' : Alive(e)' = Alive(e) \ {x} /\ loaded'[e] = loaded[e]
           /\ Nesting' /\ Dooming'
<1>1. /\ pc = "remove" /\ doomed # <<>> /\ doomed' = Tail(doomed)
      /\ node' = node /\ diskFree' = diskFree /\ version' = version /\ BeginSave
      /\ IsFound(x) => disk' = Unlinked(x) /\ free' = free \cup BlocksOf(RemoveChain(x)[Hit(x)])
      /\ nodes' = IF x \in Dirs THEN [nodes EXCEPT ![x] = <<>>, ![Root] = RemoveFirst(nodes[Root], x)] ELSE nodes
      /\ loaded' = IF x \in Dirs THEN [loaded EXCEPT ![x] = FALSE] ELSE loaded
      /\ stored' = IF x \in Files THEN [stored EXCEPT ![x] = Gone] ELSE stored
    BY DEF RemoveNode
<1>2. Live
    BY <1>1 DEF Live
<1>3. Shapes /\ doomed \in Seq(Ids) /\ IsInjective(doomed)
    BY <1>2 DEF IInv, Shapes, Dooming
<1>4. /\ x \in Ids /\ \E d : Removable(d, x)
      /\ LoneFile(x) \/ EmptyDirectory(x) \/ \E d : FileOf(x, d)
    BY <1>1, Turn
<1>5. PICK d : Removable(d, x)
    BY <1>4
<1>6. d \in Open /\ BlockOf(d) # 0 /\ NodeFits(d, x) /\ Settled(x)
    BY <1>5 DEF Removable
<1>7. IsFound(x)
    BY <1>2, <1>6, Found
<1>8. /\ disk' \in Disks /\ free' \subseteq Blocks /\ Tree(disk') /\ Apart(disk', free')
      /\ node[x].block \in AllOn(disk) /\ disk[node[x].block].id = x
      /\ AllOn(disk') = AllOn(disk) \ {node[x].block}
      /\ \A q \in DirsOn(disk) : In(disk', q) = In(disk, q) \ {node[x].block}
      /\ \A c \in AllOn(disk) : disk'[c].name = disk[c].name /\ disk'[c].id = disk[c].id
    BY <1>1, <1>2, <1>5, <1>7, RemovedDisk
<1>9. Files \cap Dirs = {} /\ Root \in Directories
    BY NodesAssumption DEF Directories
<1>10. \A e \in Open : BlockOf(e) # 0
    <2> SUFFICES ASSUME NEW e \in Open PROVE BlockOf(e) # 0
        OBVIOUS
    <2>1. CASE e = Root
        BY <2>1, BlocksShape, GeometryAssumption DEF BlockOf
    <2>2. CASE e # Root
        <3>1. Root \in Open /\ e \in Alive(Root)
            BY <1>2, <2>2, Standing
        <3>2. Settled(e)
            BY <1>1, <1>2, <3>1, AllSettled
        <3> QED
            BY <2>2, <3>2 DEF Settled, BlockOf
    <2> QED
        BY <2>1, <2>2
<1>11. /\ nodes' \in [Directories -> Seq(Ids)] /\ \A e \in Directories : IsInjective(nodes'[e])
       /\ loaded' \in [Directories -> BOOLEAN]
       /\ Open' \subseteq Open \ {x}
       /\ \A e \in Open' : Alive(e)' = Alive(e) \ {x} /\ loaded'[e] = loaded[e]
       /\ Nesting' /\ Dooming'
    <2>1. CASE EmptyDirectory(x)
        <3>1. x \in Dirs
            BY <2>1 DEF EmptyDirectory
        <3> QED
            BY <1>1, <1>10, <2>1, <3>1, DirectoryGoes
    <2>2. CASE LoneFile(x) \/ \E g : FileOf(x, g)
        <3>1. x \notin Dirs
            BY <1>9, <2>2 DEF LoneFile, FileOf
        <3>2. UNCHANGED <<nodes, loaded, node>>
            BY <1>1, <3>1
        <3>3. /\ Open' = Open /\ x \notin Open
              /\ \A e \in Open : Alive(e)' = Alive(e) \ {x}
              /\ Nesting' /\ Dooming'
            BY <1>1, <1>6, <2>2, <3>2, FileGoes
        <3> QED
            BY <1>3, <3>2, <3>3 DEF Shapes
    <2> QED
        BY <1>4, <2>1, <2>2
<1> QED
    BY <1>1, <1>4, <1>7, <1>8, <1>11

\* filesystemRemove: the entry of the node whose turn it is leaves its chain, and
\* its blocks become free.
LEMMA RemoveNodeHolds ==
    ASSUME IInv, RemoveNode PROVE IInv'
<1>1. PICK x : x = doomed[1]
    OBVIOUS
<1>2. /\ pc = "remove" /\ doomed # <<>> /\ doomed' = Tail(doomed)
      /\ node' = node /\ diskFree' = diskFree /\ version' = version /\ BeginSave
      /\ stored' = IF x \in Files THEN [stored EXCEPT ![x] = Gone] ELSE stored
    BY <1>1 DEF RemoveNode
<1>3. Live
    BY <1>2 DEF Live
<1>4. Shapes /\ doomed \in Seq(Ids) /\ IsInjective(doomed)
    BY <1>3 DEF IInv, Shapes, Dooming
<1>5. PICK d : Removable(d, x)
    BY <1>1, Removes
<1>6. /\ disk' \in Disks /\ free' \subseteq Blocks /\ Tree(disk') /\ Apart(disk', free')
      /\ node[x].block \in AllOn(disk) /\ disk[node[x].block].id = x
      /\ AllOn(disk') = AllOn(disk) \ {node[x].block}
      /\ \A q \in DirsOn(disk) : In(disk', q) = In(disk, q) \ {node[x].block}
      /\ \A c \in AllOn(disk) : disk'[c].name = disk[c].name /\ disk'[c].id = disk[c].id
    BY <1>1, Removes
<1>7. /\ nodes' \in [Directories -> Seq(Ids)] /\ \A e \in Directories : IsInjective(nodes'[e])
      /\ loaded' \in [Directories -> BOOLEAN]
      /\ Open' \subseteq Open \ {x}
      /\ \A e \in Open' : Alive(e)' = Alive(e) \ {x} /\ loaded'[e] = loaded[e]
      /\ Nesting' /\ Dooming'
    BY <1>1, Removes
<1>8. Files \cap Dirs = {} /\ Root \in Directories
    BY NodesAssumption DEF Directories
<1>9. Tail(doomed) \in Seq(Ids) /\ Range(doomed') = Range(doomed) \ {x}
    BY <1>1, <1>2, <1>4, TailShape
<1>10. Holding' /\ \A e \in Open' : \A y \in Alive(e)' : Settled(y)'
    BY <1>2, <1>3, <1>5, <1>6, <1>7, <1>9, RemovedNodes
<1>11. todo' = Listing(Root, nodes'[Root]) /\ pc' = "save"
    BY <1>2 DEF BeginSave, Listing
<1>12. PICK c \in Seq(Ids) : c = nodes'[Root]
    BY <1>8, <1>7
<1>13. todo' \in Seq(Directories \X Ids) /\ \A p \in Range(todo') : p[1] = Root /\ p[2] \in Range(c)
    BY <1>8, <1>11, <1>12, ListingShape
<1>14. Settling'
    <2>1. Root \in Open'
        BY DEF Open
    <2>2. \A p \in Range(todo') : p[1] \in Open' /\ p[2] \in Range(nodes'[p[1]])
        BY <1>12, <1>13, <2>1
    <2> QED
        BY <1>10, <1>11, <2>2 DEF Settling
<1>15. Shapes'
    <2>1. stored' \in [Files -> Content \cup {Gone}]
        BY <1>2, <1>4 DEF Shapes
    <2>2. doomed' \in Seq(Ids) /\ pc' \in {"idle", "save", "remove", "thrown", "crashed"}
        BY <1>2, <1>9, <1>11
    <2> QED
        BY <1>2, <1>4, <1>6, <1>7, <1>13, <2>1, <2>2 DEF Shapes
<1> QED
    BY <1>6, <1>7, <1>10, <1>11, <1>14, <1>15 DEF IInv, Live

-----------------------------------------------------------------------------
(* The theorems *)

\* Every call, and every step of a save and of a removal.
LEMMA NextHolds ==
    ASSUME IInv, Distinct, [Next]_vars PROVE IInv'
<1>1. CASE Format
    BY <1>1, FormatHolds
<1>2. CASE Load
    BY <1>2, LoadHolds
<1>3. CASE OpenDirectory
    BY <1>3, OpenDirectoryHolds
<1>4. CASE AddFile
    BY <1>4, AddFileHolds
<1>5. CASE AddDirectory
    BY <1>5, AddDirectoryHolds
<1>6. CASE SetContent
    BY <1>6, SetContentHolds
<1>7. CASE Rename
    BY <1>7, RenameHolds
<1>8. CASE SaveStep
    <2>1. CASE SkipFile
        BY <2>1, SkipFileHolds
    <2>2. CASE SaveFile
        BY <2>2, SaveFileHolds
    <2>3. CASE FileExists
        BY <2>3, FileExistsHolds
    <2>4. CASE NoBlock
        BY <2>4, NoBlockHolds
    <2>5. CASE DiskFull
        BY <2>5, DiskFullHolds
    <2>6. CASE NoContent
        BY <2>6, NoContentHolds
    <2>7. CASE CleanDirectory
        BY <2>7, CleanDirectoryHolds
    <2>8. CASE SaveDirectory
        BY <2>8, SaveDirectoryHolds
    <2>9. CASE DirectoryExists
        BY <2>9, DirectoryExistsHolds
    <2>10. CASE SaveDone
        BY <2>10, SaveDoneHolds
    <2> QED
        BY <1>8, <2>1, <2>2, <2>3, <2>4, <2>5, <2>6, <2>7, <2>8, <2>9, <2>10 DEF SaveStep
<1>9. CASE RemoveFile
    BY <1>9, RemoveFileHolds
<1>10. CASE RemoveDirectory
    BY <1>10, RemoveDirectoryHolds
<1>11. CASE RemoveNode
    BY <1>11, RemoveNodeHolds
<1>12. CASE UNCHANGED vars
    BY <1>12, StoppedHolds
<1>13. Stopped => UNCHANGED vars
    BY DEF Stopped
<1> QED
    BY <1>1, <1>2, <1>3, <1>4, <1>5, <1>6, <1>7, <1>8, <1>9, <1>10, <1>11, <1>12, <1>13 DEF Next

\* The inductive invariant holds of every image, at each step of each call.
THEOREM Invariant ==
    ASSUME Distinct PROVE Spec => []IInv
<1>1. Init => IInv
    BY InitHolds
<1>2. IInv /\ [Next]_vars => IInv'
    BY NextHolds
<1> QED
    BY <1>1, <1>2, PTL DEF Spec

\* The state of an image has its types.
THEOREM Types ==
    ASSUME Distinct PROVE Spec => []TypeOK
BY Invariant, IInvTypes, PTL

\* At each step of each call, and after a save that throws, the map in memory
\* (mBitmapBlocks) has no block free that can be reached on the disk: what
\* blockSingleUnused hands out next is nobody's.
THEOREM MapAlwaysCovers ==
    ASSUME Distinct PROVE Spec => []MapCovers
<1>1. IInv => MapCovers
    BY IInvMeans
<1> QED
    BY <1>1, Invariant, PTL

\* Between two calls the same holds of the saved map: filesystemBitmapSave comes
\* after all that a save or a removal writes.
THEOREM FreeIsUnused ==
    ASSUME Distinct PROVE Spec => []FreeMeansUnused
<1>1. IInv => FreeMeansUnused
    BY IInvMeans
<1> QED
    BY <1>1, Invariant, PTL

\* No two entries share a block, as long as the client keeps the names of a
\* directory apart: a removal frees what belongs to its own entry.
THEOREM NeverCrossLinked ==
    ASSUME Distinct PROVE Spec => []NoCrossLinks
<1>1. IInv => NoCrossLinks
    BY IInvMeans
<1> QED
    BY <1>1, Invariant, PTL

\* Each entry is in the chain of the hash of its name, and in the directory its
\* parent field names: a lookup by name finds it.
THEOREM AlwaysPlaced ==
    ASSUME Distinct PROVE Spec => []Placed
<1>1. IInv => Placed
    BY IInvMeans
<1> QED
    BY <1>1, Invariant, PTL

-----------------------------------------------------------------------------
(* What a file on a disk reads back as *)

\* DataBlocks and ReadBack on any disk.
ListsOn(dk, b) ==
    Listed(dk[b].table)
        \o FlattenSeq([k \in 1 .. Len(ExtOn(dk, b)) |-> Listed(dk[ExtOn(dk, b)[k]].table)])
ReadOn(dk, b) ==
    LET c == ListsOn(dk, b)
        n == IF dk[b].size < Len(c) THEN dk[b].size ELSE Len(c)
    IN  [j \in 1 .. n |-> dk[c[j]]]
As(content) == [j \in 1 .. Len(content) |-> Data(content[j])]

\* What a file's node holds: the content it was last given, or nothing when the file
\* is as it was saved, or never had a content.
Kept(x) ==
    /\ node[x].given \in Content
    /\ IF node[x].content = <<>>
       THEN IF node[x].block = 0 THEN node[x].given = <<>> ELSE node[x].given = stored[x]
       ELSE node[x].given = node[x].content

\* The files on disk are those that are stored, and read back as they were; the
\* nodes in memory hold what they were given.
OnDiskAsStored ==
    \A b \in AllOn(disk) : disk[b].id \in Files =>
        stored[disk[b].id] # Gone /\ ReadOn(disk, b) = As(stored[disk[b].id])
StoredOnDisk == \A f \in Files : stored[f] # Gone => \E b \in AllOn(disk) : disk[b].id = f
NodesKeep == \A d \in Open : \A x \in Alive(d) : x \in Files => Kept(x)
Faithful == Live => OnDiskAsStored /\ StoredOnDisk /\ NodesKeep

\* Gone is no content.
LEMMA GoneApart == Gone \notin Content
<1> SUFFICES ASSUME Gone \in Content PROVE FALSE
    OBVIOUS
<1>1. Len(Gone) = 1 /\ Gone[1] = <<>>
    BY DEF Gone
<1>2. \A S : Gone \in Seq(S) => Gone[1] \in S
    <2>1. \A S : \A c \in Seq(S) : Len(c) = 1 => c[1] \in S
        OBVIOUS
    <2> QED
        BY <1>1, <2>1
<1>3. \A p \in Files \X Nat \X Nat : p # <<>>
    <2>1. \A f, v, j : Len(<<f, v, j>>) = 3
        OBVIOUS
    <2>2. \A p \in Files \X Nat \X Nat : p = <<p[1], p[2], p[3]>>
        OBVIOUS
    <2>3. Len(<<>>) = 0
        OBVIOUS
    <2>4. \A p \in Files \X Nat \X Nat : Len(p) = 3
        BY <2>1, <2>2, Zenon
    <2>5. 3 # 0
        OBVIOUS
    <2> QED
        BY <2>3, <2>4, <2>5, Zenon
<1>4. Gone[1] \in Files \X Nat \X Nat
    BY <1>2, Zenon DEF Content
<1> QED
    BY <1>1, <1>3, <1>4, Zenon

\* What a file lists are blocks that its tables hold.
LEMMA ListsShape ==
    ASSUME NEW dk \in Disks, NEW b \in Blocks, dk[b].kind = "file", ExtOn(dk, b) \in Paths,
           Range(ExtOn(dk, b)) \subseteq DOMAIN ExtOf(dk)
    PROVE  /\ ListsOn(dk, b) \in Seq(Blocks)
           /\ Range(ListsOn(dk, b)) \subseteq OwnOn(dk, b)
<1> DEFINE c == ExtOn(dk, b)
           ss == [k \in 1 .. Len(c) |-> Listed(dk[c[k]].table)]
<1>1. dk[b].table \in Tables
    BY DiskShape, KindShape DEF EntryType, EntryKinds, Ent
<1>2. /\ Listed(dk[b].table) \in Seq(Blocks)
      /\ Range(Listed(dk[b].table)) \subseteq Held(dk[b].table)
    BY <1>1, ListedIn
<1>3. /\ Len(c) \in Nat
      /\ \A k \in 1 .. Len(c) : c[k] \in Range(c)
    BY PathShape
<1>4. \A k \in 1 .. Len(c) : dk[c[k]].table \in Tables
    BY <1>3, DiskShape DEF ExtType
<1>5. \A k \in 1 .. Len(c) : /\ Listed(dk[c[k]].table) \in Seq(Blocks)
                             /\ Range(Listed(dk[c[k]].table)) \subseteq Held(dk[c[k]].table)
    BY <1>4, ListedIn
<1>6. ss \in Seq(Seq(Blocks)) /\ Len(ss) = Len(c) /\ \A k \in 1 .. Len(c) : ss[k] = Listed(dk[c[k]].table)
    BY <1>3, <1>5
<1>7. /\ FlattenSeq(ss) \in Seq(Blocks)
      /\ Range(FlattenSeq(ss)) = UNION {Range(ss[i]) : i \in 1 .. Len(ss)}
    <2> HIDE DEF ss
    <2> QED
        BY <1>6, FlatShape
<1>8. ListsOn(dk, b) = Listed(dk[b].table) \o FlattenSeq(ss)
    BY Zenon DEF ListsOn
<1> HIDE DEF ss, c
<1>9. /\ ListsOn(dk, b) \in Seq(Blocks)
      /\ Range(ListsOn(dk, b)) = Range(Listed(dk[b].table)) \cup Range(FlattenSeq(ss))
    BY <1>2, <1>7, <1>8, ConcatShape
<1>10. Range(FlattenSeq(ss)) \subseteq UNION {Held(dk[e].table) : e \in Range(c)}
    <2>1. \A i \in 1 .. Len(ss) : c[i] \in Range(c) /\ Range(ss[i]) \subseteq Held(dk[c[i]].table)
        BY <1>3, <1>5, <1>6
    <2> QED
        BY <1>7, <2>1, Zenon
<1>11. OwnOn(dk, b) = {b} \cup Held(dk[b].table) \cup Range(c) \cup UNION {Held(dk[e].table) : e \in Range(c)}
    BY DEF OwnOn, c
<1> QED
    BY <1>2, <1>9, <1>10, <1>11

\* A file reads back the same while the blocks it has stay as they are, and its
\* header leads to them.
LEMMA ReadFrame ==
    ASSUME NEW dk \in Disks, NEW dk2 \in Disks, NEW c \in Blocks, dk[c].kind = "file",
           Proper(ExtOn(dk, c), dk[c].ext, ExtOf(dk)),
           \A f \in {"kind", "table", "ext", "size"} : dk2[c][f] = dk[c][f],
           \A x \in OwnOn(dk, c) : x # c => dk2[x] = dk[x],
           NEW s \in Content, ReadOn(dk, c) = As(s)
    PROVE  ReadOn(dk2, c) = As(s)
<1> DEFINE e == ExtOn(dk, c)
           ls == ListsOn(dk, c)
           n == IF dk[c].size < Len(ls) THEN dk[c].size ELSE Len(ls)
<1>1. /\ dk2[c].kind = "file" /\ dk2[c].table = dk[c].table /\ dk2[c].ext = dk[c].ext
      /\ dk2[c].size = dk[c].size
    OBVIOUS
<1>2. /\ e \in Paths /\ Range(e) \subseteq DOMAIN ExtOf(dk) /\ Range(e) \subseteq OwnOn(dk, c)
    BY DEF Proper, Follows, OwnOn
<1>3. \A x \in Range(e) : dk[x].kind = "ext" /\ x # c /\ dk2[x] = dk[x]
    BY <1>2, DiskShape
<1>4. ExtOn(dk2, c) = e
    BY <1>1, <1>3, OwnFrame DEF EntryKinds
<1>5. Len(e) \in Nat /\ \A k \in 1 .. Len(e) : e[k] \in Range(e)
    BY <1>2, PathShape
<1>6. [k \in 1 .. Len(e) |-> Listed(dk2[e[k]].table)] = [k \in 1 .. Len(e) |-> Listed(dk[e[k]].table)]
    BY <1>3, <1>5
<1>7. ListsOn(dk2, c) = ls
    BY <1>1, <1>4, <1>6, Zenon DEF ListsOn
<1>8. ls \in Seq(Blocks) /\ Range(ls) \subseteq OwnOn(dk, c)
    BY <1>2, ListsShape
<1>9. dk[c].size \in Nat
    BY DiskShape, KindShape DEF EntryType, EntryKinds, Ent
<1> HIDE DEF ls, e
<1>10. n \in Nat /\ n <= Len(ls)
    BY <1>8, <1>9
<1>11. ReadOn(dk, c) = [j \in 1 .. n |-> dk[ls[j]]]
    BY Zenon DEF ReadOn, ls
<1>12. ReadOn(dk2, c) = [j \in 1 .. n |-> dk2[ls[j]]]
    BY <1>1, <1>7, Zenon DEF ReadOn, ls
<1> HIDE DEF n
<1>13. ASSUME NEW j \in 1 .. n PROVE dk2[ls[j]] = dk[ls[j]]
    <2>1. ls[j] \in Range(ls) /\ ls[j] \in OwnOn(dk, c)
        BY <1>8, <1>10 DEF Range
    <2>2. Len(s) \in Nat /\ As(s) = [i \in 1 .. Len(s) |-> Data(s[i])]
        BY DEF As, Content
    <2>3. j \in 1 .. Len(s)
        BY <1>11, <2>2
    <2>6. ReadOn(dk, c)[j] = dk[ls[j]]
        BY <1>11
    <2>7. As(s)[j] = Data(s[j])
        BY <2>2, <2>3
    <2>4. dk[ls[j]] = Data(s[j])
        BY <2>6, <2>7
    <2>5. ls[j] # c
        BY <2>4 DEF Data
    <2> QED
        BY <2>1, <2>5
<1>14. ReadOn(dk2, c) = ReadOn(dk, c)
    BY <1>11, <1>12, <1>13
<1> QED
    BY <1>14

\* What a file's header says of its content.
LeadsAs(r, s) == r.kind = s.kind /\ r.table = s.table /\ r.ext = s.ext /\ r.size = s.size

\* A file reads back the same while only other entries, the root and blocks that
\* nobody has are written, and its header leads to what it has.
LEMMA ReadsStill ==
    ASSUME NEW dk \in Disks, NEW dk2 \in Disks, Tree(dk), NEW fr, Apart(dk, fr),
           \A x \in Blocks : x \notin fr \cup {RootBlock} \cup AllOn(dk) => dk2[x] = dk[x],
           NEW c \in AllOn(dk), dk[c].id \in Files, LeadsAs(dk2[c], dk[c]),
           NEW s \in Content, ReadOn(dk, c) = As(s)
    PROVE  ReadOn(dk2, c) = As(s)
<1>1. c \in Blocks /\ EntryFits(dk, c)
    BY TreeShape DEF Tree
<1>2. dk[c].kind = "file" /\ Proper(ExtOn(dk, c), dk[c].ext, ExtOf(dk))
    BY <1>1 DEF EntryFits
<1>3. ASSUME NEW x \in OwnOn(dk, c), x # c PROVE dk2[x] = dk[x]
    <2>1. x \in Blocks
        BY OwnInBlocks
    <2>2. x \notin fr /\ x # RootBlock
        BY DEF Apart, System
    <2>3. x \notin AllOn(dk)
        <3>1. x \in AllOn(dk) => x \in OwnOn(dk, x)
            BY TreeShape
        <3>2. \A b \in AllOn(dk) : b # c => OwnOn(dk, b) \cap OwnOn(dk, c) = {}
            BY DEF Tree
        <3> QED
            BY <1>3, <3>1, <3>2
    <2> QED
        BY <2>1, <2>2, <2>3
<1>4. \A f \in {"kind", "table", "ext", "size"} : dk2[c][f] = dk[c][f]
    BY DEF LeadsAs
<1> QED
    BY <1>1, <1>2, <1>3, <1>4, ReadFrame

\* A disk on which entries and the root were linked anew: nothing else is written,
\* and each file's header leads to what it did.
Relinked(dk2, dk) ==
    /\ \A x \in Blocks : x \notin {RootBlock} \cup AllOn(dk) => dk2[x] = dk[x]
    /\ \A c \in AllOn(dk) : dk[c].kind = "file" => LeadsAs(dk2[c], dk[c])

\* The next entry of an entry, or an entry of a table of hashes, is no content.
LEMMA Relinks ==
    ASSUME NEW dk \in Disks, Tree(dk), NEW dk2, NEW L, NEW N,
           \/ L \in DirsOn(dk) /\ \E h : dk2 = [dk EXCEPT ![L].table[h] = N]
           \/ L \in AllOn(dk) /\ dk2 = [dk EXCEPT ![L].next = N]
    PROVE  Relinked(dk2, dk)
<1>1. \A d \in DirsOn(dk) : d \in {RootBlock} \cup AllOn(dk) /\ dk[d].kind # "file" /\ d \in Blocks
    BY TreeShape
<1>2. \A c \in AllOn(dk) : c \in Blocks /\ dk[c] \in EntryType
    BY TreeShape
<1>3. L \in {RootBlock} \cup AllOn(dk) /\ L \in Blocks
    BY <1>1, <1>2
<1>4. \A x \in Blocks : x # L => dk2[x] = dk[x]
    BY DEF Disks
<1>5. ASSUME NEW c \in AllOn(dk), dk[c].kind = "file" PROVE LeadsAs(dk2[c], dk[c])
    <2>1. CASE c # L
        BY <1>2, <1>4, <2>1 DEF LeadsAs
    <2>2. CASE c = L
        <3>1. dk2 = [dk EXCEPT ![c].next = N]
            BY <1>1, <1>5, <2>2
        <3>2. dk2[c] = [dk[c] EXCEPT !.next = N]
            BY <1>2, <3>1 DEF Disks
        <3>3. dk[c] \in EntryType
            BY <1>2
        <3> QED
            BY <3>2, <3>3 DEF EntryType, LeadsAs
    <2> QED
        BY <2>1, <2>2
<1> QED
    BY <1>3, <1>4, <1>5 DEF Relinked

\* Linking a new entry (Link) is such a change ...
LEMMA LinkReads ==
    ASSUME NEW dk \in Disks, Tree(dk), NEW d \in DirsOn(dk), NEW h \in Slots, NEW b
    PROVE  Relinked(WithLink(dk, d, h, b), dk)
<1> DEFINE c == ChainOn(dk, d, h)
<1>1. c \in Paths /\ \A x \in Range(c) : x \in In(dk, d)
    BY TreeShape
<1>2. \A x \in In(dk, d) : x \in AllOn(dk)
    BY TreeShape
<1>3. c # <<>> => Last(c) \in AllOn(dk)
    BY <1>1, <1>2, PathShape
<1>4. c = <<>> => \E g : WithLink(dk, d, h, b) = [dk EXCEPT ![d].table[g] = b]
    BY DEF WithLink
<1>5. c # <<>> => WithLink(dk, d, h, b) = [dk EXCEPT ![Last(c)].next = b]
    BY DEF WithLink
<1> QED
    BY <1>3, <1>4, <1>5, Relinks

\* ... and so is taking one out of its chain (Unlinked).
LEMMA BypassReads ==
    ASSUME NEW dk \in Disks, Tree(dk), NEW d \in DirsOn(dk), NEW h \in Slots,
           NEW k \in 1 .. Len(ChainOn(dk, d, h))
    PROVE  Relinked(Bypassed(dk, d, h, k), dk)
<1> DEFINE c == ChainOn(dk, d, h)
<1>1. c \in Paths /\ \A x \in Range(c) : x \in In(dk, d)
    BY TreeShape
<1>2. \A x \in In(dk, d) : x \in AllOn(dk)
    BY TreeShape
<1>3. Len(c) \in Nat /\ \A j \in 1 .. Len(c) : c[j] \in Range(c)
    BY <1>1, PathShape
<1>4. k # 1 => c[k - 1] \in AllOn(dk)
    BY <1>1, <1>2, <1>3
<1>5. k = 1 => \E g : Bypassed(dk, d, h, k) = [dk EXCEPT ![d].table[g] = dk[c[1]].next]
    BY DEF Bypassed
<1>6. k # 1 => Bypassed(dk, d, h, k) = [dk EXCEPT ![c[k - 1]].next = dk[c[k]].next]
    BY DEF Bypassed
<1> QED
    BY <1>4, <1>5, <1>6, Relinks

\* A table that is filled from its end lists what it is filled with.
LEMMA ListedRun ==
    ASSUME NEW table \in Tables, NEW m \in 0 .. TableSize,
           \A j \in 1 .. TableSize : table[TableSize - j] # 0 <=> j <= m
    PROVE  Listed(table) = [j \in 1 .. m |-> table[TableSize - j]]
<1> DEFINE full == {i \in Slots : \A j \in i .. TableSize - 1 : table[j] # 0}
<1>1. TableSize \in Nat \ {0} /\ m \in Nat /\ m <= TableSize
    BY GeometryAssumption
<1>2. \A i \in Slots : table[i] # 0 <=> TableSize - i <= m
    <2> SUFFICES ASSUME NEW i \in Slots PROVE table[i] # 0 <=> TableSize - i <= m
        OBVIOUS
    <2>1. TableSize - i \in 1 .. TableSize /\ TableSize - (TableSize - i) = i
        BY <1>1 DEF Slots
    <2>2. table[TableSize - (TableSize - i)] # 0 <=> TableSize - i <= m
        BY <2>1
    <2> QED
        BY <2>1, <2>2
<1>3. full = TableSize - m .. TableSize - 1
    <2>1. ASSUME NEW i \in full PROVE i \in TableSize - m .. TableSize - 1
        <3>1. i \in 0 .. TableSize - 1 /\ i \in i .. TableSize - 1
            BY <1>1 DEF Slots
        <3>2. table[i] # 0
            BY <3>1
        <3> QED
            BY <1>1, <1>2, <3>1, <3>2
    <2>2. ASSUME NEW i \in TableSize - m .. TableSize - 1 PROVE i \in full
        <3>1. i \in Slots
            BY <1>1 DEF Slots
        <3>2. ASSUME NEW j \in i .. TableSize - 1 PROVE table[j] # 0
            <4>1. j \in Slots /\ TableSize - j <= m
                BY <1>1, <3>1 DEF Slots
            <4> QED
                BY <1>2, <4>1
        <3> QED
            BY <3>1, <3>2
    <2> QED
        BY <2>1, <2>2
<1>4. Cardinality(full) = m
    <2>1. TableSize - m \in Int /\ TableSize - 1 \in Int
        BY <1>1
    <2>2. Cardinality(TableSize - m .. TableSize - 1)
            = IF TableSize - m > TableSize - 1 THEN 0 ELSE TableSize - 1 - (TableSize - m) + 1
        BY <2>1, FS_Interval, Zenon
    <2>3. Cardinality(TableSize - m .. TableSize - 1) = m
        BY <1>1, <2>2
    <2> QED
        BY <1>3, <2>3
<1> QED
    BY <1>4 DEF Listed

\* The blocks of m pieces, after those of the first lo.
Run(a, lo, m) == [j \in 1 .. m |-> a[DataAt(lo + j)]]

\* Two runs of pieces, one after the other, are one.
LEMMA RunsJoin ==
    ASSUME NEW a, NEW lo \in Nat, NEW m \in Nat, NEW p \in Nat,
           \A j \in lo + 1 .. lo + m + p : a[DataAt(j)] \in Blocks
    PROVE  /\ Run(a, lo, m) \in Seq(Blocks)
           /\ Run(a, lo, m) \o Run(a, lo + m, p) = Run(a, lo, m + p)
<1> DEFINE r == Run(a, lo, m)
           s == Run(a, lo + m, p)
           t == Run(a, lo, m + p)
<1>1. r \in Seq(Blocks) /\ Len(r) = m /\ \A j \in 1 .. m : r[j] = a[DataAt(lo + j)]
    <2>1. \A j \in 1 .. m : a[DataAt(lo + j)] \in Blocks
        OBVIOUS
    <2> QED
        BY <2>1 DEF Run
<1>2. s \in Seq(Blocks) /\ Len(s) = p /\ \A j \in 1 .. p : s[j] = a[DataAt(lo + m + j)]
    <2>1. \A j \in 1 .. p : lo + m + j \in lo + 1 .. lo + m + p
        OBVIOUS
    <2>2. \A j \in 1 .. p : a[DataAt(lo + m + j)] \in Blocks
        BY <2>1
    <2> QED
        BY <2>2 DEF Run
<1>3. t \in Seq(Blocks) /\ Len(t) = m + p /\ \A j \in 1 .. m + p : t[j] = a[DataAt(lo + j)]
    <2>1. \A j \in 1 .. m + p : lo + j \in lo + 1 .. lo + m + p
        OBVIOUS
    <2>2. \A j \in 1 .. m + p : a[DataAt(lo + j)] \in Blocks
        BY <2>1
    <2>3. m + p \in Nat
        OBVIOUS
    <2> QED
        BY <2>2, <2>3 DEF Run
<1> HIDE DEF r, s, t
<1>4. /\ r \o s \in Seq(Blocks) /\ Len(r \o s) = m + p
      /\ \A j \in 1 .. m : (r \o s)[j] = r[j]
      /\ \A j \in m + 1 .. m + p : (r \o s)[j] = s[j - m]
    <2>1. r \in Seq(Blocks) /\ s \in Seq(Blocks)
        BY <1>1, <1>2
    <2>2. /\ r \o s \in Seq(Blocks) /\ Len(r \o s) = Len(r) + Len(s)
          /\ \A i \in 1 .. Len(r) + Len(s) :
                (r \o s)[i] = IF i <= Len(r) THEN r[i] ELSE s[i - Len(r)]
        BY <2>1, ConcatProperties
    <2> QED
        BY <1>1, <1>2, <2>2
<1>5. ASSUME NEW j \in 1 .. m + p PROVE (r \o s)[j] = t[j]
    <2>1. CASE j <= m
        <3>1. j \in 1 .. m
            BY <2>1
        <3> QED
            BY <1>1, <1>3, <1>4, <3>1
    <2>2. CASE ~(j <= m)
        <3>1. j \in m + 1 .. m + p /\ j - m \in 1 .. p /\ lo + m + (j - m) = lo + j
            BY <2>2
        <3>2. s[j - m] = a[DataAt(lo + m + (j - m))]
            BY <1>2, <3>1
        <3> QED
            BY <1>3, <1>4, <3>1, <3>2
    <2> QED
        BY <2>1, <2>2
<1>6. r \o s = t
    BY <1>3, <1>4, <1>5, SeqEqual
<1> QED
    BY <1>1, <1>6 DEF r, s, t

\* The pieces up to the end of table k.
Upto(n, k) == IF n < (k + 1) * TableSize THEN n ELSE (k + 1) * TableSize

\* Each table lists the blocks of its pieces.
LEMMA TableListed ==
    ASSUME NEW n \in Nat, n > 0, NEW a, \A j \in 1 .. n : a[DataAt(j)] \in Blocks,
           NEW k \in 0 .. MoreTables(n)
    PROVE  /\ k * TableSize \in Nat /\ k * TableSize < n
           /\ Upto(n, k) \in Nat /\ Upto(n, k) <= n /\ k * TableSize < Upto(n, k)
           /\ Listed(TableFor(a, k, n)) = Run(a, k * TableSize, Upto(n, k) - k * TableSize)
           /\ Listed(TableFor(a, k, n)) \in Seq(Blocks)
<1> DEFINE T == TableSize
           M == MoreTables(n)
           table == TableFor(a, k, n)
<1>1. T \in Nat \ {0}
    BY GeometryAssumption
<1>2. M \in Nat /\ M * T <= n - 1 /\ k \in Nat
    <2>1. PICK p \in Nat : p = n - 1
        OBVIOUS
    <2>2. M = p \div T
        BY <2>1 DEF MoreTables
    <2>3. p \div T \in Nat /\ p % T \in 0 .. T - 1 /\ p = T * (p \div T) + (p % T)
        BY <1>1, <2>1
    <2>4. M * T = T * M
        <3>1. \A x, y \in Nat : x * y = y * x
            OBVIOUS
        <3>2. M \in Nat
            BY <2>2, <2>3
        <3> HIDE DEF M, T
        <3> QED
            BY <1>1, <3>1, <3>2
    <2> HIDE DEF M, T
    <2> QED
        BY <1>1, <2>1, <2>2, <2>3, <2>4
<1> HIDE DEF M
<1>3. PICK q \in Nat : q = k * T
    BY <1>1, <1>2
<1>4. (k + 1) * T = q + T
    BY <1>1, <1>2, <1>3
<1>5. q <= M * T
    BY <1>1, <1>2, <1>3, Multiples DEF M
<1>6. q < n
    BY <1>1, <1>2, <1>5
<1>7. PICK m : m = IF n < q + T THEN n - q ELSE T
    OBVIOUS
<1>8. m \in 1 .. T /\ q + m <= n /\ (m = T \/ q + m = n)
    BY <1>1, <1>6, <1>7
<1>9. Upto(n, k) = q + m
    BY <1>1, <1>4, <1>7 DEF Upto
<1>10. ASSUME NEW j \in 1 .. T
       PROVE  /\ T - j \in Slots
              /\ table[T - j] = IF j <= m THEN a[DataAt(q + j)] ELSE 0
    <2>1. T - j \in Slots
        BY <1>1 DEF Slots
    <2>2. PICK p : p = (k + 1) * T
        OBVIOUS
    <2>3. table[T - j] = IF p - (T - j) <= n THEN a[DataAt(p - (T - j))] ELSE 0
        BY <2>1, <2>2 DEF TableFor
    <2>4. p - (T - j) = q + j
        BY <1>1, <1>4, <2>2
    <2>5. (q + j <= n) <=> (j <= m)
        BY <1>1, <1>6, <1>8
    <2> HIDE DEF T, table
    <2> QED
        BY <2>1, <2>3, <2>4, <2>5
<1>11. \A j \in 1 .. m : j \in 1 .. T /\ q + j \in 1 .. n
    BY <1>1, <1>8
<1>12. table \in Tables
    <2>1. ASSUME NEW i \in Slots PROVE table[i] \in Pointers
        <3>1. T - i \in 1 .. T /\ T - (T - i) = i
            BY <1>1 DEF Slots
        <3>2. table[T - (T - i)] = IF T - i <= m THEN a[DataAt(q + (T - i))] ELSE 0
            BY <1>10, <3>1
        <3>3. T - i <= m => q + (T - i) \in 1 .. n
            BY <1>1, <1>11, <3>1
        <3> HIDE DEF table, T
        <3>4. table[i] = IF T - i <= m THEN a[DataAt(q + (T - i))] ELSE 0
            BY <3>1, <3>2
        <3> QED
            BY <3>3, <3>4 DEF Pointers
    <2>2. table = [i \in Slots |-> table[i]]
        BY DEF TableFor
    <2> HIDE DEF table
    <2> QED
        BY <2>1, <2>2 DEF Tables
<1>13. \A j \in 1 .. T : table[T - j] # 0 <=> j <= m
    <2> SUFFICES ASSUME NEW j \in 1 .. T PROVE table[T - j] # 0 <=> j <= m
        OBVIOUS
    <2>1. j <= m => a[DataAt(q + j)] \in Blocks
        BY <1>1, <1>8, <1>11
    <2>2. 0 \notin Blocks
        BY BlocksShape
    <2> HIDE DEF table, T
    <2> QED
        BY <1>10, <2>1, <2>2
<1>14. Listed(table) = [j \in 1 .. m |-> table[T - j]]
    <2>1. m \in 0 .. TableSize
        BY <1>1, <1>8
    <2> HIDE DEF table
    <2> QED
        BY <1>12, <1>13, <2>1, ListedRun
<1>15. Listed(table) = Run(a, q, m)
    <2>1. \A j \in 1 .. m : table[T - j] = a[DataAt(q + j)]
        BY <1>8, <1>10, <1>11
    <2> HIDE DEF table, T
    <2> QED
        BY <1>14, <2>1 DEF Run
<1>16. Listed(table) \in Seq(Blocks)
    BY <1>12, ListedIn
<1>17. Upto(n, k) - k * T = m /\ Upto(n, k) \in Nat /\ q < Upto(n, k) /\ Upto(n, k) <= n
    BY <1>1, <1>3, <1>8, <1>9
<1> QED
    BY <1>3, <1>6, <1>15, <1>16, <1>17

\* All tables but the last one are full.
LEMMA TablesFull ==
    ASSUME NEW n \in Nat, n > 0
    PROVE  /\ MoreTables(n) \in Nat
           /\ \A k \in Nat : k < MoreTables(n) => Upto(n, k) = (k + 1) * TableSize
           /\ Upto(n, MoreTables(n)) = n
<1> DEFINE T == TableSize
           M == MoreTables(n)
<1>1. T \in Nat \ {0}
    BY GeometryAssumption
<1>2. M \in Nat /\ M * T <= n - 1 /\ n - 1 < M * T + T
    <2>1. PICK p \in Nat : p = n - 1
        OBVIOUS
    <2>2. M = p \div T
        BY <2>1 DEF MoreTables
    <2>3. p \div T \in Nat /\ p % T \in 0 .. T - 1 /\ p = T * (p \div T) + (p % T)
        BY <1>1, <2>1
    <2>4. M * T = T * M
        <3>1. \A x, y \in Nat : x * y = y * x
            OBVIOUS
        <3>2. M \in Nat
            BY <2>2, <2>3
        <3> HIDE DEF M, T
        <3> QED
            BY <1>1, <3>1, <3>2
    <2> HIDE DEF M, T
    <2> QED
        BY <1>1, <2>1, <2>2, <2>3, <2>4
<1> HIDE DEF M
<1>3. ASSUME NEW k \in Nat, k < M PROVE Upto(n, k) = (k + 1) * T
    <2>1. k + 1 \in Nat /\ k + 1 <= M
        BY <1>2, <1>3
    <2>2. (k + 1) * T <= M * T /\ (k + 1) * T \in Nat /\ M * T \in Nat
        BY <1>1, <1>2, <2>1, Multiples
    <2>3. PICK q \in Nat : q = (k + 1) * T
        BY <2>2
    <2>4. ~(n < q)
        BY <1>2, <2>2, <2>3
    <2> QED
        BY <2>3, <2>4 DEF Upto
<1>4. Upto(n, M) = n
    <2>1. (M + 1) * T = M * T + T /\ M * T \in Nat
        BY <1>1, <1>2
    <2>2. n < (M + 1) * T \/ n = (M + 1) * T
        BY <1>1, <1>2, <2>1
    <2> QED
        BY <2>2 DEF Upto
<1> QED
    BY <1>2, <1>3, <1>4 DEF M

\* A file whose tables list the blocks of its pieces reads back as what was written.
LEMMA BornReads ==
    ASSUME NEW dk \in Disks, NEW block \in Blocks, NEW content \in Content, content # <<>>,
           NEW a, Taking(a, Needed(Len(content))), ExtOn(dk, block) \in Paths,
           Bears(dk, block, a, content)
    PROVE  ReadOn(dk, block) = As(content)
<1> DEFINE n == Len(content)
           M == MoreTables(n)
           T == TableSize
           c == ExtOn(dk, block)
           ss == [k \in 1 .. Len(c) |-> Listed(dk[c[k]].table)]
<1>1. n \in Nat /\ n > 0
    BY EmptySeq DEF Content
<1>2. /\ dk[block].kind = "file" /\ dk[block].size = n /\ dk[block].table = TableFor(a, 0, n)
      /\ Len(c) = M
      /\ \A k \in 1 .. M : dk[c[k]].table = TableFor(a, k, n)
      /\ \A j \in 1 .. n : dk[a[DataAt(j)]] = Data(content[j])
    BY DEF Bears
<1>3. a \in [1 .. Needed(n) -> Blocks]
    BY DEF Taking
<1>4. ListsOn(dk, block) = Listed(dk[block].table) \o FlattenSeq(ss)
    BY Zenon DEF ListsOn
<1>5. ReadOn(dk, block) = [j \in 1 .. (IF n < Len(ListsOn(dk, block)) THEN n ELSE Len(ListsOn(dk, block))) |->
                              dk[ListsOn(dk, block)[j]]]
    BY <1>2 DEF ReadOn
<1>6. As(content) = [j \in 1 .. n |-> Data(content[j])]
    BY DEF As
<1> HIDE DEF n, c
<1>7. \A j \in 1 .. n : a[DataAt(j)] \in Blocks
    <2>1. \A j \in 1 .. n : DataAt(j) \in 1 .. Needed(n)
        BY <1>1, PieceOrder
    <2> QED
        BY <1>3, <2>1
<1>8. /\ M \in Nat /\ Upto(n, M) = n
      /\ \A k \in Nat : k < M => Upto(n, k) = (k + 1) * T
    BY <1>1, TablesFull
<1>9. T \in Nat \ {0}
    BY GeometryAssumption
<1> HIDE DEF M
<1>10. ASSUME NEW k \in 0 .. M
       PROVE  /\ k * T \in Nat /\ k * T < n
              /\ Upto(n, k) \in Nat /\ Upto(n, k) <= n /\ k * T < Upto(n, k)
              /\ Listed(TableFor(a, k, n)) = Run(a, k * T, Upto(n, k) - k * T)
              /\ Listed(TableFor(a, k, n)) \in Seq(Blocks)
    BY <1>1, <1>7, <1>10, TableListed DEF M
<1>11. Listed(dk[block].table) = Run(a, 0, Upto(n, 0)) /\ Upto(n, 0) \in Nat /\ Upto(n, 0) <= n
    <2>1. 0 \in 0 .. M /\ 0 * T = 0
        BY <1>8, <1>9
    <2>2. Listed(TableFor(a, 0, n)) = Run(a, 0 * T, Upto(n, 0) - 0 * T) /\ Upto(n, 0) \in Nat /\ Upto(n, 0) <= n
        BY <1>10, <2>1
    <2>3. Upto(n, 0) - 0 = Upto(n, 0)
        BY <2>2
    <2> QED
        BY <1>2, <2>1, <2>2, <2>3
<1>12. /\ ss \in Seq(Seq(Blocks)) /\ Len(ss) = M
       /\ \A k \in 1 .. M : ss[k] = Run(a, k * T, Upto(n, k) - k * T)
    <2>1. \A k \in 1 .. M : k \in 0 .. M
        BY <1>8
    <2>2. \A k \in 1 .. Len(c) : /\ Listed(dk[c[k]].table) = Run(a, k * T, Upto(n, k) - k * T)
                                 /\ Listed(dk[c[k]].table) \in Seq(Blocks)
        BY <1>2, <1>10, <2>1
    <2>3. ss \in Seq(Seq(Blocks)) /\ Len(ss) = Len(c) /\ \A k \in 1 .. Len(c) : ss[k] = Listed(dk[c[k]].table)
        BY <1>2, <1>8, <2>2
    <2> QED
        BY <1>2, <2>2, <2>3
<1> HIDE DEF ss
<1>13. ListsOn(dk, block) = Run(a, 0, n)
    <2>1. CASE M = 0
        <3>1. FlattenSeq(ss) \in Seq(Blocks) /\ Range(FlattenSeq(ss)) = {}
            <4>1. Range(FlattenSeq(ss)) = UNION {Range(ss[i]) : i \in 1 .. Len(ss)}
                BY <1>12, FlatShape
            <4>2. 1 .. Len(ss) = {}
                BY <1>12, <2>1
            <4> QED
                BY <1>12, <4>1, <4>2, FlatShape
        <3>2. FlattenSeq(ss) = <<>>
            BY <3>1 DEF Range
        <3>3. Run(a, 0, n) \in Seq(Blocks)
            BY <1>8, <1>10, <1>11, <1>2, <2>1
        <3> QED
            BY <1>4, <1>8, <1>11, <2>1, <3>2, <3>3
    <2>2. CASE M # 0
        <3>1. ss # <<>> /\ Len(ss) = M
            BY <1>8, <1>12, <2>2, EmptySeq
        <3>2. PICK g : /\ g \in [1 .. Len(ss) -> Seq(Blocks)] /\ g[1] = ss[1]
                       /\ \A i \in 2 .. Len(ss) : g[i] = g[i - 1] \o ss[i]
                       /\ FlattenSeq(ss) = g[Len(ss)]
            BY <1>12, <3>1, FlatSteps
        <3> DEFINE S == {i \in 0 .. M - 1 : g[i + 1] = Run(a, T, Upto(n, i + 1) - T)}
        <3>3. 0 \in S
            <4>1. 1 \in 1 .. M /\ 1 * T = T
                BY <1>8, <1>9, <2>2
            <4>2. ss[1] = Run(a, 1 * T, Upto(n, 1) - 1 * T)
                BY <1>12, <4>1
            <4>3. g[1] = Run(a, T, Upto(n, 1) - T)
                BY <3>2, <4>1, <4>2
            <4>4. 0 \in 0 .. M - 1 /\ 0 + 1 = 1
                BY <1>8, <2>2
            <4> QED
                BY <4>3, <4>4
        <3>4. ASSUME NEW i \in 1 .. M - 1, i - 1 \in S PROVE i \in S
            <4>1. i \in Nat /\ i < M /\ i - 1 + 1 = i /\ i + 1 \in 1 .. M /\ i + 1 \in 0 .. M /\ i + 1 \in 2 .. Len(ss)
                  /\ i + 1 - 1 = i /\ i \in 0 .. M
                BY <1>8, <3>1
            <4>2. g[i] = Run(a, T, Upto(n, i) - T)
                BY <3>4, <4>1
            <4>3. g[i + 1] = g[i] \o ss[i + 1]
                <5>1. PICK l \in 2 .. Len(ss) : l = i + 1
                    BY <4>1
                <5>2. l - 1 = i
                    BY <4>1, <5>1
                <5>3. g[l] = g[l - 1] \o ss[l]
                    BY <3>2
                <5> QED
                    BY <5>1, <5>2, <5>3, Zenon
            <4>4. PICK q \in Nat : q = (i + 1) * T
                BY <1>9, <4>1
            <4>5. Upto(n, i) = q
                BY <1>8, <4>1, <4>4
            <4>6. ss[i + 1] = Run(a, q, Upto(n, i + 1) - q)
                BY <1>12, <4>1, <4>4
            <4>7. Upto(n, i + 1) \in Nat /\ Upto(n, i + 1) <= n /\ q < Upto(n, i + 1)
                BY <1>10, <4>1, <4>4
            <4>8. T <= q
                <5>1. q = i * T + T /\ i * T \in Nat
                    BY <1>9, <4>1, <4>4
                <5> HIDE DEF T
                <5> QED
                    BY <1>9, <5>1
            <4>9. PICK m \in Nat : m = q - T
                BY <1>9, <4>4, <4>8
            <4>10. PICK p \in Nat : p = Upto(n, i + 1) - q
                BY <4>7
            <4>11. T + m = q /\ T + m + p <= n /\ m + p = Upto(n, i + 1) - T
                BY <1>9, <4>7, <4>9, <4>10
            <4>12. \A j \in T + 1 .. T + m + p : a[DataAt(j)] \in Blocks
                BY <1>1, <1>7, <1>9, <4>11
            <4>13. Run(a, T, m) \o Run(a, T + m, p) = Run(a, T, m + p)
                BY <1>9, <4>12, RunsJoin
            <4>14. g[i + 1] = Run(a, T, m + p)
                BY <4>2, <4>3, <4>5, <4>6, <4>9, <4>10, <4>11, <4>13
            <4> QED
                BY <4>11, <4>14
        <3> HIDE DEF S
        <3>5. \A i \in 0 .. M - 1 : i \in S
            <4>1. M - 1 \in Nat
                BY <1>8, <2>2
            <4> QED
                BY <3>3, <3>4, <4>1, Induct
        <3>6. g[M] = Run(a, T, n - T)
            <4>1. M - 1 \in S /\ M - 1 + 1 = M
                BY <1>8, <2>2, <3>5
            <4> QED
                BY <1>8, <4>1 DEF S
        <3>7. Upto(n, 0) = T
            <4>1. 0 \in Nat /\ 0 < M /\ (0 + 1) * T = T
                BY <1>8, <1>9, <2>2
            <4> QED
                BY <1>8, <4>1
        <3>8. PICK p \in Nat : p = n - T
            BY <1>1, <1>9, <1>11, <3>7
        <3>9. T + p = n /\ 0 + T = T /\ 0 + T + p = n
            BY <1>1, <1>9, <3>8
        <3>10. \A j \in 0 + 1 .. 0 + T + p : a[DataAt(j)] \in Blocks
            BY <1>7, <3>9
        <3>11. Run(a, 0, T) \o Run(a, 0 + T, p) = Run(a, 0, T + p)
            <4>1. PICK z \in Nat : z = 0
                OBVIOUS
            <4>2. \A j \in z + 1 .. z + T + p : a[DataAt(j)] \in Blocks
                BY <3>10, <4>1
            <4>3. Run(a, z, T) \o Run(a, z + T, p) = Run(a, z, T + p)
                BY <1>9, <4>2, RunsJoin
            <4> QED
                BY <4>1, <4>3, Zenon
        <3>12. Run(a, 0, T) \o Run(a, T, p) = Run(a, 0, n)
            BY <3>9, <3>11, Zenon
        <3> QED
            BY <1>4, <1>11, <3>1, <3>2, <3>6, <3>7, <3>8, <3>12
    <2> QED
        BY <2>1, <2>2
<1>14. Len(Run(a, 0, n)) = n /\ \A j \in 1 .. n : Run(a, 0, n)[j] = a[DataAt(j)]
    <2>1. \A j \in 1 .. n : 0 + j = j
        BY <1>1
    <2> QED
        BY <1>1, <2>1 DEF Run
<1>15. ReadOn(dk, block) = [j \in 1 .. n |-> dk[Run(a, 0, n)[j]]]
    BY <1>1, <1>5, <1>13, <1>14
<1> QED
    BY <1>2, <1>6, <1>14, <1>15

-----------------------------------------------------------------------------
(* What is read back, step by step *)

\* The client of Readable: it also gives no file a content of no bytes in the place
\* of another, of which a save writes nothing (SaveFile).
Filling == Distinct /\ "empty" \notin Ops

\* Nothing is stored and nothing on disk: so it is to begin with, and once an image
\* is created anew.
LEMMA NothingStored ==
    ASSUME AllOn(disk') = {}, nodes' = NoNodes, stored' = [f \in Files |-> Gone]
    PROVE  Faithful'
<1>1. \A d \in Open' : Alive(d)' = {}
    <2>1. Open' \subseteq Directories
        BY OpenInNext
    <2>2. \A d \in Directories : Range(nodes'[d]) = {}
        BY DEF NoNodes, Range
    <2> QED
        BY <2>1, <2>2 DEF Alive
<1>2. \A f \in Files : stored'[f] = Gone
    OBVIOUS
<1>3. OnDiskAsStored' /\ StoredOnDisk' /\ NodesKeep'
    BY <1>1, <1>2 DEF OnDiskAsStored, StoredOnDisk, NodesKeep
<1> QED
    BY <1>3 DEF Faithful

\* Format is such a step.
LEMMA FormatFaithful ==
    ASSUME IInv, Format PROVE Faithful'
<1>1. Shapes
    BY DEF IInv
<1>2. disk' \in Disks /\ disk'[RootBlock] = EmptyRoot /\ disk'[RootBlock + 1] = Blank
    <2>1. RootBlock \in Nat /\ RootBlock \in Blocks /\ RootBlock + 1 \in Blocks
        BY GeometryAssumption, BlocksShape
    <2>2. RootBlock + 1 # RootBlock
        BY <2>1
    <2>3. disk' = [disk EXCEPT ![RootBlock] = EmptyRoot, ![RootBlock + 1] = Blank] /\ disk \in [Blocks -> BlockType]
        BY <1>1 DEF Format, Formatted, Shapes, Disks
    <2>4. NoTable \in Tables
        BY DEF NoTable, Tables, Pointers
    <2>5. EmptyRoot \in BlockType /\ Blank \in BlockType
        BY <2>4 DEF EmptyRoot, Blank, BlockType, RootType
    <2> QED
        BY <2>1, <2>2, <2>3, <2>5 DEF Disks
<1>3. AllOn(disk') = {}
    BY <1>2, EmptyTree
<1> QED
    BY <1>3, NothingStored DEF Format

\* A file's node holds what it was given while its content and its block stay.
LEMMA KeptStill ==
    ASSUME NEW x, Kept(x), stored'[x] = stored[x], node'[x].given = node[x].given,
           node'[x].content = node[x].content, node'[x].block = node[x].block
    PROVE  Kept(x)'
BY DEF Kept

\* The parts on disk stay while disk and history do.
LEMMA SameOnDisk ==
    ASSUME Faithful, Live, disk' = disk, stored' = stored,
           \A d \in Open' : \A x \in Alive(d)' : x \in Files => Kept(x)'
    PROVE  Faithful'
BY DEF Faithful, OnDiskAsStored, StoredOnDisk, NodesKeep

\* A step that leaves the nodes as they are, and opens nothing.
LEMMA SameFaithful ==
    ASSUME IInv, Faithful, Live, UNCHANGED <<node, disk, stored>>,
           \A d \in Open' : d \in Open /\ Alive(d)' \subseteq Alive(d)
    PROVE  Faithful'
<1>1. ASSUME NEW d \in Open', NEW x \in Alive(d)', x \in Files PROVE Kept(x)'
    BY <1>1, KeptStill DEF Faithful, NodesKeep
<1> QED
    BY <1>1, SameOnDisk

\* A loaded image has no nodes.
LEMMA LoadFaithful ==
    ASSUME IInv, Faithful, Load PROVE Faithful'
<1>1. pc = "idle" /\ Live /\ disk' = disk /\ stored' = stored /\ nodes' = NoNodes
    BY DEF Load, Live, source, history
<1>2. \A d \in Open' : Alive(d)' = {}
    <2>1. Open' \subseteq Directories
        BY OpenInNext
    <2>2. \A d \in Directories : Range(nodes'[d]) = {}
        BY <1>1 DEF NoNodes, Range
    <2> QED
        BY <2>1, <2>2 DEF Alive
<1> QED
    BY <1>1, <1>2, SameOnDisk

\* The steps of a save that look at a node that is not dirty, and its end, change
\* nothing of this.
LEMMA SkipFaithful ==
    ASSUME IInv, Faithful, SkipFile \/ CleanDirectory \/ SaveDone PROVE Faithful'
<1>1. UNCHANGED <<free, nodes, loaded, node, disk, doomed, stored>> /\ pc = "save"
    BY DEF SkipFile, CleanDirectory, SaveDone, CurFile, CurDir, Saving, image, source, history
<1>2. Live
    BY <1>1 DEF Live
<1>3. Open' = Open /\ \A d : Alive(d)' = Alive(d)
    BY <1>1 DEF Open, Alive, Ghosts
<1> QED
    BY <1>1, <1>2, <1>3, SameFaithful

\* Nor does a step in which nothing changes.
LEMMA StoppedFaithful ==
    ASSUME IInv, Faithful, UNCHANGED vars PROVE Faithful'
<1>1. UNCHANGED <<nodes, node, disk, doomed, stored, pc>>
    BY DEF vars
<1>2. Open' = Open /\ (\A d : Alive(d)' = Alive(d)) /\ (Live' <=> Live)
    BY <1>1 DEF Open, Alive, Ghosts, Live
<1>3. CASE Live
    BY <1>1, <1>2, <1>3, SameFaithful
<1>4. CASE ~Live
    BY <1>2, <1>4 DEF Faithful
<1> QED
    BY <1>3, <1>4

\* After an exception nothing is promised.
LEMMA ThrownFaithful ==
    ASSUME NoBlock \/ DiskFull \/ NoContent PROVE Faithful'
<1>1. pc' \in {"thrown", "crashed"}
    BY DEF NoBlock, DiskFull, NoContent
<1> QED
    BY <1>1 DEF Faithful, Live

\* No entry is ever found in the place of a new one.
LEMMA ExistsFaithful ==
    ASSUME IInv, FileExists \/ DirectoryExists PROVE Faithful'
BY NeverThere DEF FileExists, DirectoryExists, CurDirty, CurFile, CurDir

\* A file that is removed leaves its directory.
LEMMA RemoveFileFaithful ==
    ASSUME IInv, Faithful, RemoveFile PROVE Faithful'
<1>1. /\ pc = "idle" /\ UNCHANGED <<node, disk, stored>>
    BY DEF RemoveFile, source, history
<1>2. /\ Live /\ doomed = <<>> /\ \A d \in Directories : Alive(d) = Range(nodes[d])
    BY <1>1, Resting
<1>3. PICK d \in Open : \E f \in Range(nodes[d]) \cap Files : nodes' = [nodes EXCEPT ![d] = RemoveFirst(nodes[d], f)]
    BY DEF RemoveFile
<1>4. PICK f \in Range(nodes[d]) \cap Files : nodes' = [nodes EXCEPT ![d] = RemoveFirst(nodes[d], f)]
    BY <1>3
<1>5. /\ Open \subseteq Directories
      /\ \A e \in Directories : nodes[e] \in Seq(Ids) /\ IsInjective(nodes[e])
    BY <1>2, Standing
<1>6. Range(RemoveFirst(nodes[d], f)) = Range(nodes[d]) \ {f}
    BY <1>5, RemoveShape
<1>7. nodes \in [Directories -> Seq(Ids)]
    BY DEF IInv, Shapes
<1>8. \A e \in Directories : Range(nodes'[e]) \subseteq Range(nodes[e])
    BY <1>4, <1>5, <1>6, <1>7
<1>9. Open' \subseteq Directories /\ Root \in Directories
    BY OpenInNext DEF Directories
<1>10. \A e \in Open' : e \in Open /\ Alive(e)' \subseteq Alive(e)
    <2>1. Open' \subseteq Open
        BY <1>8, <1>9 DEF Open
    <2>2. \A e \in Open' : Alive(e)' \subseteq Range(nodes'[e])
        BY DEF Alive
    <2> QED
        BY <1>2, <1>8, <1>9, <2>1, <2>2
<1> QED
    BY <1>1, <1>2, <1>10, SameFaithful

\* The nodes of the entries of a directory hold what is stored of their files.
LEMMA LookedKeeps ==
    ASSUME IInv, Faithful, pc = "idle", NEW d \in Open, BlockOf(d) # 0, ~loaded[d], EntriesLoad(d),
           UNCHANGED <<disk, stored>>,
           \A y \in Files : LET n == NodesLoaded(d)[y] IN
                node'[y].given = n.given /\ node'[y].content = n.content /\ node'[y].block = n.block
    PROVE  Faithful'
<1>1. /\ Live /\ \A e \in Directories : Alive(e) = Range(nodes[e])
    BY Resting
<1>2. /\ \A e \in Directories : e # d => nodes'[e] = nodes[e]
      /\ Range(nodes'[d]) = {disk[b].id : b \in In(disk, BlockOf(d))}
      /\ \A b \in In(disk, BlockOf(d)) :
            /\ \A e \in Directories : disk[b].id \notin Range(nodes[e])
            /\ NodesLoaded(d)[disk[b].id] = LoadedNode(b)
      /\ \A y \in Ids : y \notin Range(nodes'[d]) => NodesLoaded(d)[y] = node[y]
    <2>1. /\ \A e \in Directories : e # d => nodes'[e] = nodes[e]
          /\ Range(nodes'[d]) = {disk[b].id : b \in In(disk, BlockOf(d))}
        BY LooksIn, Zenon
    <2>2. \A b \in In(disk, BlockOf(d)) :
            /\ \A e \in Directories : disk[b].id \notin Range(nodes[e])
            /\ NodesLoaded(d)[disk[b].id] = LoadedNode(b)
        BY LooksIn, Zenon
    <2>3. \A y \in Ids : y \notin Range(nodes'[d]) => NodesLoaded(d)[y] = node[y]
        BY LooksIn, Zenon
    <2> QED
        BY <2>1, <2>2, <2>3
<1>3. \A e \in Directories : \A x \in Range(nodes[e]) : e \in Open
    BY <1>1, Standing
<1>4. Shapes /\ Tree(disk) /\ BlockOf(d) \in DirsOn(disk) /\ disk \in Disks
    BY <1>1, OpenBlocks DEF IInv, Shapes
<1>5. ASSUME NEW e \in Open', NEW x \in Alive(e)', x \in Files PROVE Kept(x)'
    <2>1. e \in Directories /\ x \in Range(nodes'[e]) /\ x \in Ids
        BY <1>5, OpenInNext DEF Alive, Ids
    <2>2. CASE e # d
        <3>1. x \in Range(nodes[e]) /\ e \in Open /\ x \in Alive(e)
            BY <1>1, <1>2, <1>3, <2>1, <2>2
        <3>2. x \notin Range(nodes'[d])
            BY <1>2, <2>1, <3>1
        <3>3. NodesLoaded(d)[x] = node[x]
            BY <1>2, <2>1, <3>2
        <3>4. Kept(x)
            BY <1>1, <1>5, <3>1 DEF Faithful, NodesKeep
        <3> QED
            BY <1>5, <3>3, <3>4, KeptStill
    <2>3. CASE e = d
        <3>1. PICK b \in In(disk, BlockOf(d)) : x = disk[b].id
            BY <1>2, <2>1, <2>3
        <3>2. NodesLoaded(d)[x] = LoadedNode(b)
            BY <1>2, <3>1
        <3>3. b \in AllOn(disk) /\ b \in Blocks
            BY <1>4, TreeShape
        <3>4. b # 0
            BY <3>3, BlocksShape
        <3>5. stored[x] # Gone /\ stored \in [Files -> Content \cup {Gone}]
            BY <1>1, <1>4, <1>5, <3>1, <3>3 DEF Faithful, OnDiskAsStored, Shapes
        <3>6. stored[x] \in Content
            BY <1>5, <3>5
        <3>7. LoadedNode(b).content = <<>> /\ LoadedNode(b).block = b /\ LoadedNode(b).given = stored[x]
            BY <1>5, <3>1 DEF LoadedNode
        <3>8. node'[x].content = <<>> /\ node'[x].block = b /\ node'[x].given = stored[x]
            BY <1>5, <3>2, <3>7
        <3> QED
            BY <3>4, <3>6, <3>8 DEF Kept
    <2> QED
        BY <2>2, <2>3
<1> QED
    BY <1>1, <1>5, SameOnDisk

\* A directory is looked into.
LEMMA OpenDirectoryFaithful ==
    ASSUME IInv, Faithful, OpenDirectory PROVE Faithful'
<1>1. PICK d \in Open : ~loaded[d] /\ BlockOf(d) # 0 /\ EntriesLoad(d) /\ node' = NodesLoaded(d)
    BY DEF OpenDirectory
<1>2. pc = "idle" /\ UNCHANGED <<disk, stored>>
    BY DEF OpenDirectory, source, history
<1> QED
    BY <1>1, <1>2, LookedKeeps

\* A directory that will be removed is looked into as well, if it was not.
LEMMA RemoveDirectoryFaithful ==
    ASSUME IInv, Faithful, RemoveDirectory PROVE Faithful'
<1>1. PICK d \in Open \cap Dirs :
          /\ node[d].block # 0
          /\ IF loaded[d] THEN UNCHANGED <<nodes, loaded>> ELSE EntriesLoad(d)
          /\ node' = [(IF loaded[d] THEN node ELSE NodesLoaded(d)) EXCEPT ![d].dirty = TRUE]
    BY DEF RemoveDirectory
<1>2. pc = "idle" /\ UNCHANGED <<disk, stored>>
    BY DEF RemoveDirectory, source, history
<1>3. /\ Live /\ \A e \in Directories : Alive(e) = Range(nodes[e])
    BY <1>2, Resting
<1>4. Shapes /\ BlockOf(d) # 0 /\ d # Root /\ \A y \in Files : y # d /\ y \in Ids
    BY <1>1, NodesAssumption DEF IInv, BlockOf, Ids
<1>5. CASE loaded[d]
    <2>1. nodes' = nodes /\ node' = [node EXCEPT ![d].dirty = TRUE]
        BY <1>1, <1>5
    <2>2. \A y \in Files : node'[y] = node[y]
        BY <1>4, <2>1 DEF Shapes
    <2>3. ASSUME NEW e \in Open', NEW x \in Alive(e)', x \in Files PROVE Kept(x)'
        <3>1. e \in Directories /\ x \in Range(nodes[e]) /\ e \in Open
            BY <2>1, OpenInNext DEF Alive, Open
        <3>2. Kept(x)
            BY <1>3, <2>3, <3>1 DEF Faithful, NodesKeep
        <3> QED
            BY <1>2, <2>2, <2>3, <3>2, KeptStill
    <2> QED
        BY <1>2, <1>3, <2>3, SameOnDisk
<1>6. CASE ~loaded[d]
    <2>1. EntriesLoad(d) /\ node' = [NodesLoaded(d) EXCEPT ![d].dirty = TRUE]
        BY <1>1, <1>6
    <2>2. \A y \in Files : node'[y] = NodesLoaded(d)[y]
        BY <1>4, <2>1 DEF NodesLoaded
    <2> QED
        BY <1>1, <1>2, <1>4, <1>6, <2>1, <2>2, LookedKeeps
<1> QED
    BY <1>5, <1>6

\* A new node holds its content, and has no block; the others stay.
LEMMA AddFaithful ==
    ASSUME IInv, Faithful, NEW d, NEW x \in Ids, NEW content \in Content, NEW bare,
           Add(d, x, content, bare), stored' = stored
    PROVE  Faithful'
<1>1. /\ pc = "idle" /\ d \in Open /\ disk' = disk /\ doomed' = doomed
      /\ nodes' = [nodes EXCEPT ![d] = Append(@, x)]
    BY DEF Add, source
<1>2. /\ Live /\ \A e \in Directories : Alive(e) = Range(nodes[e])
    BY <1>1, Resting
<1>3. PICK name : node' = [y \in Ids |-> IF y = x THEN NewNode(name, content, bare)
                                         ELSE IF y = d THEN [node[y] EXCEPT !.dirty = TRUE]
                                         ELSE node[y]]
    BY DEF Add
<1>4. /\ Open \subseteq Directories
      /\ \A e \in Directories : nodes[e] \in Seq(Ids) /\ Range(nodes[e]) \subseteq Ids
      /\ \A e \in Directories : \A y \in Range(nodes[e]) : e \in Open
      /\ \A e \in Open : e # Root => e \in Dirs
      /\ Files \cap Dirs = {} /\ Root \notin Ids
    BY <1>2, Standing
<1>5. nodes \in [Directories -> Seq(Ids)] /\ node \in [Ids -> NodeType]
    BY DEF IInv, Shapes
<1>6. ASSUME NEW e \in Directories, NEW y \in Range(nodes'[e]) PROVE y = x \/ y \in Range(nodes[e])
    <2>1. nodes'[e] = IF e = d THEN Append(nodes[e], x) ELSE nodes[e]
        BY <1>1, <1>4, <1>5
    <2>2. Range(Append(nodes[e], x)) = Range(nodes[e]) \cup {x}
        BY <1>4, AppendProperties DEF Range
    <2> QED
        BY <2>1, <2>2
<1>7. ASSUME NEW e \in Open', NEW y \in Alive(e)', y \in Files PROVE Kept(y)'
    <2>1. e \in Directories /\ y \in Range(nodes'[e]) /\ y \in Ids
        BY <1>7, OpenInNext DEF Alive, Ids
    <2>2. CASE y = x
        <3>1. node'[y] = NewNode(name, content, bare)
            BY <1>3, <2>1, <2>2
        <3>2. node'[y].given = content /\ node'[y].content = content /\ node'[y].block = 0
            BY <3>1 DEF NewNode
        <3> QED
            BY <3>2 DEF Kept
    <2>3. CASE y # x
        <3>1. y \in Range(nodes[e]) /\ e \in Open
            BY <1>4, <1>6, <2>1, <2>3
        <3>2. Kept(y)
            BY <1>2, <1>7, <2>1, <3>1 DEF Faithful, NodesKeep
        <3>3. y # d
            BY <1>1, <1>4, <1>7, NodesAssumption
        <3>4. node'[y] = node[y]
            BY <1>3, <2>1, <2>3, <3>3
        <3> QED
            BY <1>7, <3>2, <3>4, KeptStill
    <2> QED
        BY <2>2, <2>3
<1> QED
    BY <1>1, <1>2, <1>7, SameOnDisk

\* A file is added ...
LEMMA AddFileFaithful ==
    ASSUME IInv, Faithful, AddFile PROVE Faithful'
<1>1. PICK d \in Directories, f \in Files, n \in Sizes, bare \in {FALSE} \cup {"bare" \in Ops} :
          Add(d, f, Pieces(f, version[f] + 1, n), bare) /\ stored' = stored
    BY DEF AddFile
<1>2. version[f] + 1 \in Nat /\ n \in Nat /\ f \in Ids
    BY SizesAssumption DEF IInv, Shapes, Ids
<1>3. Pieces(f, version[f] + 1, n) \in Content
    BY <1>2, PiecesType
<1> QED
    BY <1>1, <1>2, <1>3, AddFaithful

\* ... or a directory.
LEMMA AddDirectoryFaithful ==
    ASSUME IInv, Faithful, AddDirectory PROVE Faithful'
<1>1. PICK x \in Dirs : Add(Root, x, <<>>, TRUE)
    BY DEF AddDirectory
<1>2. stored' = stored /\ x \in Ids /\ <<>> \in Content
    BY DEF AddDirectory, Ids, Content
<1> QED
    BY <1>1, <1>2, AddFaithful

\* A node is changed, and the tree stays as it is.
LEMMA ChangeFaithful ==
    ASSUME IInv, Faithful, pc = "idle", UNCHANGED <<nodes, disk, doomed, stored>>,
           NEW x \in Ids, NEW r, node' = [node EXCEPT ![x] = r],
           x \in Files => \/ /\ r.given = node[x].given /\ r.content = node[x].content
                             /\ r.block = node[x].block
                          \/ r.given \in Content /\ r.content = r.given /\ r.content # <<>>
    PROVE  Faithful'
<1>1. Live
    BY DEF Live
<1>2. Open' = Open /\ \A d : Alive(d)' = Alive(d)
    BY DEF Open, Alive, Ghosts
<1>3. node \in [Ids -> NodeType]
    BY DEF IInv, Shapes
<1>4. ASSUME NEW e \in Open', NEW y \in Alive(e)', y \in Files PROVE Kept(y)'
    <2>1. y \in Ids /\ Kept(y)
        BY <1>1, <1>2, <1>4 DEF Faithful, NodesKeep, Ids
    <2>2. CASE y # x
        <3>1. node'[y] = node[y]
            BY <1>3, <2>1, <2>2
        <3> QED
            BY <1>4, <2>1, <3>1, KeptStill
    <2>3. CASE y = x /\ r.given = node[x].given /\ r.content = node[x].content /\ r.block = node[x].block
        <3>1. node'[y] = r
            BY <1>3, <2>1, <2>3
        <3> QED
            BY <1>4, <2>1, <2>3, <3>1, KeptStill
    <2>4. CASE y = x /\ r.given \in Content /\ r.content = r.given /\ r.content # <<>>
        <3>1. node'[y] = r
            BY <1>3, <2>1, <2>4
        <3> QED
            BY <2>4, <3>1 DEF Kept
    <2> QED
        BY <1>4, <2>2, <2>3, <2>4
<1> QED
    BY <1>1, <1>4, SameOnDisk

\* A file is given a content that is not empty.
LEMMA SetContentFaithful ==
    ASSUME IInv, Faithful, Filling, SetContent PROVE Faithful'
<1>1. PICK f \in InTree \cap Files, n \in Sizes :
          /\ n = 0 => "empty" \in Ops
          /\ LET c == Pieces(f, version[f] + 1, n) IN
                node' = [node EXCEPT ![f].content = c, ![f].given = c, ![f].bare = FALSE, ![f].dirty = TRUE]
    BY DEF SetContent
<1>2. pc = "idle" /\ UNCHANGED <<nodes, disk, doomed, stored>>
    BY DEF SetContent, source
<1>3. f \in Ids /\ f \in Files /\ version[f] + 1 \in Nat /\ n \in Nat /\ n # 0
    BY <1>1, SizesAssumption DEF IInv, Shapes, Ids, Filling
<1>4. node \in [Ids -> NodeType]
    BY DEF IInv, Shapes
<1>5. PICK c : c = Pieces(f, version[f] + 1, n)
    OBVIOUS
<1>6. c \in Content /\ Len(c) = n
    BY <1>3, <1>5, PiecesType
<1>7. c # <<>>
    BY <1>3, <1>6, EmptySeq DEF Content
<1>8. PICK r : r = [[[[node[f] EXCEPT !.content = c] EXCEPT !.given = c] EXCEPT !.bare = FALSE] EXCEPT !.dirty = TRUE]
    OBVIOUS
<1>9. node' = [node EXCEPT ![f] = r]
    <2>1. node' = [node EXCEPT ![f].content = c, ![f].given = c, ![f].bare = FALSE, ![f].dirty = TRUE]
        BY <1>1, <1>5
    <2> QED
        BY <1>3, <1>4, <1>8, <2>1
<1>10. r.given = c /\ r.content = c
    <2>1. node[f] \in NodeType
        BY <1>3, <1>4
    <2> QED
        BY <1>8, <2>1 DEF NodeType
<1> QED
    BY <1>2, <1>3, <1>6, <1>7, <1>9, <1>10, ChangeFaithful

\* A node gets another name.
LEMMA RenameFaithful ==
    ASSUME IInv, Faithful, Rename PROVE Faithful'
<1>1. PICK d \in Open : \E x \in Range(nodes[d]), name \in Names \ Taken(d) :
          node' = [node EXCEPT ![x].name = name, ![x].dirty = TRUE]
    BY DEF Rename
<1>2. PICK x \in Range(nodes[d]), name \in Names :
          node' = [node EXCEPT ![x].name = name, ![x].dirty = TRUE]
    BY <1>1
<1>3. pc = "idle" /\ UNCHANGED <<nodes, disk, doomed, stored>>
    BY DEF Rename, source, history
<1>4. Live
    BY <1>3 DEF Live
<1>5. x \in Ids
    BY <1>4, Standing
<1>6. node \in [Ids -> NodeType]
    BY DEF IInv, Shapes
<1>7. PICK r : r = [[node[x] EXCEPT !.name = name] EXCEPT !.dirty = TRUE]
    OBVIOUS
<1>8. node' = [node EXCEPT ![x] = r]
    BY <1>2, <1>5, <1>6, <1>7
<1>9. r.given = node[x].given /\ r.content = node[x].content /\ r.block = node[x].block
    <2>1. node[x] \in NodeType
        BY <1>5, <1>6
    <2> QED
        BY <1>7, <2>1 DEF NodeType
<1> QED
    BY <1>3, <1>5, <1>8, <1>9, ChangeFaithful

-----------------------------------------------------------------------------
(* Saves and removals *)

\* What a save writes outside its own entry is in blocks that were free, or a link.
LEMMA SavedElsewhere ==
    ASSUME IInv, Saving, node[Cur].dirty, CanEnter,
           NEW A \in SUBSET Entered.free, NEW r \in NodeType, Saved(A, r)
    PROVE  /\ disk \in Disks /\ disk' \in Disks /\ Tree(disk) /\ Apart(disk, free)
           /\ Entered.block \in AllOn(disk)
                 => Entered.block = node[Cur].block /\ disk[Entered.block].id = Cur /\ ~IsNew
           /\ Entered.block \notin AllOn(disk) => Entered.block \in free /\ IsNew
           /\ \A x \in Blocks : x \notin free \cup {RootBlock} \cup AllOn(disk) => disk'[x] = disk[x]
           /\ \A c \in AllOn(disk) :
                 c # Entered.block /\ disk[c].id \in Files => LeadsAs(disk'[c], disk[c])
<1>1. /\ Live /\ Shapes /\ Tree(disk) /\ Apart(disk, free) /\ Dir \in Open /\ Cur \in Alive(Dir)
      /\ BlockOf(Dir) \in DirsOn(disk) /\ HashOf[node[Cur].name] \in Slots
    BY NamesApart
<1>2. disk \in Disks
    BY <1>1 DEF Shapes
<1>3. disk' \in Disks /\ \A x \in Blocks : x # Entered.block /\ x \notin A => disk'[x] = Entered.disk[x]
    BY DEF Saved
<1>4. PICK b \in Blocks : b = Entered.block
    BY EnteredShape
<1>5. PICK mid \in Disks : mid = Entered.disk
    BY EnteredShape
<1>6. A \subseteq free
    BY EnteredShape
<1>7. \A c \in AllOn(disk) : c \in Blocks /\ c \notin free
    BY <1>1, <1>2, TreeShape DEF Apart
<1>8. \A c \in AllOn(disk) : disk[c].id \in Files => disk[c].kind = "file"
    BY <1>1 DEF Tree, EntryFits
<1>9. Relinked(mid, disk) /\ (b \in AllOn(disk) => b = node[Cur].block /\ disk[b].id = Cur /\ ~IsNew)
      /\ (b \notin AllOn(disk) => b \in free /\ IsNew)
    <2>1. CASE IsNew
        <3>1. mid = WithLink(disk, BlockOf(Dir), HashOf[node[Cur].name], b) /\ b \in free
            BY <1>4, <1>5, <2>1, EnteredShape
        <3>2. Relinked(mid, disk)
            BY <1>1, <1>2, <3>1, LinkReads
        <3> QED
            BY <1>7, <2>1, <3>1, <3>2
    <2>2. CASE ~IsNew
        <3>1. mid = disk /\ b = node[Cur].block
            BY <1>4, <1>5, <2>2, EnteredShape
        <3>2. b \in AllOn(disk) /\ disk[b].id = Cur
            BY <2>2, <3>1, NamedShape
        <3>3. Relinked(mid, disk)
            BY <3>1 DEF Relinked, LeadsAs
        <3> QED
            BY <2>2, <3>1, <3>2, <3>3
    <2> QED
        BY <2>1, <2>2
<1>10. ASSUME NEW x \in Blocks, x \notin free \cup {RootBlock} \cup AllOn(disk) PROVE disk'[x] = disk[x]
    <2>1. x # b /\ x \notin A
        BY <1>6, <1>9, <1>10
    <2>2. disk'[x] = mid[x]
        BY <1>3, <1>4, <1>5, <2>1
    <2>3. mid[x] = disk[x]
        BY <1>9, <1>10 DEF Relinked
    <2> QED
        BY <2>2, <2>3
<1>11. ASSUME NEW c \in AllOn(disk), c # b, disk[c].id \in Files PROVE LeadsAs(disk'[c], disk[c])
    <2>1. c \in Blocks /\ c \notin A
        BY <1>6, <1>7
    <2>2. disk'[c] = mid[c]
        BY <1>3, <1>4, <1>5, <1>11, <2>1
    <2>3. LeadsAs(mid[c], disk[c])
        BY <1>8, <1>9, <1>11 DEF Relinked
    <2> QED
        BY <2>2, <2>3
<1> QED
    BY <1>1, <1>2, <1>3, <1>4, <1>9, <1>10, <1>11

\* All other files read back as they did.
LEMMA OthersRead ==
    ASSUME IInv, Faithful, Saving, node[Cur].dirty, CanEnter,
           NEW A \in SUBSET Entered.free, NEW r \in NodeType, Saved(A, r)
    PROVE  /\ \A c \in AllOn(disk') : c # Entered.block =>
                 /\ c \in AllOn(disk) /\ disk'[c].id = disk[c].id /\ disk'[c].id # Cur
                 /\ disk'[c].id \in Files =>
                       stored[disk'[c].id] # Gone /\ ReadOn(disk', c) = As(stored[disk'[c].id])
           /\ \A f \in Files : f # Cur /\ stored[f] # Gone => \E c \in AllOn(disk') : disk'[c].id = f
<1>1. Live /\ Shapes
    BY NamesApart
<1>2. PICK dk2 \in Disks : dk2 = disk'
    BY SavedElsewhere
<1>3. PICK b : b = Entered.block
    OBVIOUS
<1>4. /\ disk \in Disks /\ Tree(disk) /\ Apart(disk, free)
      /\ b \in AllOn(disk) => disk[b].id = Cur
      /\ \A x \in Blocks : x \notin free \cup {RootBlock} \cup AllOn(disk) => dk2[x] = disk[x]
      /\ \A c \in AllOn(disk) : c # b /\ disk[c].id \in Files => LeadsAs(dk2[c], disk[c])
    BY <1>2, <1>3, SavedElsewhere
<1>5. /\ Tree(dk2) /\ AllOn(dk2) = AllOn(disk) \cup {b} /\ dk2[b].id = Cur
      /\ \A c \in AllOn(disk) : c # b => dk2[c].id = disk[c].id
    BY <1>2, <1>3, Saves
<1>6. OnDiskAsStored /\ StoredOnDisk
    BY <1>1 DEF Faithful
<1>7. ASSUME NEW c \in AllOn(dk2), c # b
      PROVE  /\ c \in AllOn(disk) /\ dk2[c].id = disk[c].id /\ dk2[c].id # Cur
             /\ dk2[c].id \in Files =>
                   stored[dk2[c].id] # Gone /\ ReadOn(dk2, c) = As(stored[dk2[c].id])
    <2>1. c \in AllOn(disk) /\ dk2[c].id = disk[c].id
        BY <1>5, <1>7
    <2>2. dk2[c].id # Cur
        <3>1. \A x, y \in AllOn(dk2) : dk2[x].id = dk2[y].id => x = y
            BY <1>5 DEF Tree
        <3>2. b \in AllOn(dk2)
            BY <1>5
        <3> QED
            BY <1>5, <1>7, <3>1, <3>2
    <2>3. ASSUME disk[c].id \in Files
          PROVE  stored[disk[c].id] # Gone /\ ReadOn(dk2, c) = As(stored[disk[c].id])
        <3>1. PICK s : s = stored[disk[c].id]
            OBVIOUS
        <3>2. s # Gone /\ ReadOn(disk, c) = As(s)
            BY <1>6, <2>1, <2>3, <3>1 DEF OnDiskAsStored
        <3>3. s \in Content
            BY <1>1, <2>3, <3>1, <3>2 DEF Shapes
        <3>4. LeadsAs(dk2[c], disk[c])
            BY <1>4, <1>7, <2>1, <2>3
        <3>5. ReadOn(dk2, c) = As(s)
            BY <1>4, <2>1, <2>3, <3>2, <3>3, <3>4, ReadsStill
        <3> QED
            BY <3>1, <3>2, <3>5
    <2> QED
        BY <2>1, <2>2, <2>3
<1>8. ASSUME NEW f \in Files, f # Cur, stored[f] # Gone PROVE \E c \in AllOn(dk2) : dk2[c].id = f
    <2>1. PICK c \in AllOn(disk) : disk[c].id = f
        BY <1>6, <1>8 DEF StoredOnDisk
    <2>2. c # b
        BY <1>4, <1>8, <2>1
    <2> QED
        BY <1>5, <2>1, <2>2
<1> QED
    BY <1>2, <1>3, <1>7, <1>8

\* The nodes keep what they were given: the file that is saved, in its blocks.
LEMMA SavedKeep ==
    ASSUME IInv, Faithful, Saving, node[Cur].dirty, CanEnter,
           NEW A \in SUBSET Entered.free, NEW r \in NodeType, Saved(A, r),
           \A y \in Files : y # Cur => stored'[y] = stored[y],
           \A y \in Files : y = Cur => Kept(y)'
    PROVE  NodesKeep'
<1>1. Live /\ Shapes /\ Cur \in Ids
    BY NamesApart
<1>2. Open' = Open /\ \A d : Alive(d)' = Alive(d)
    BY Saves
<1>3. node \in [Ids -> NodeType] /\ node' = [node EXCEPT ![Cur] = r]
    BY <1>1 DEF Shapes, Saved
<1>4. ASSUME NEW d \in Open', NEW x \in Alive(d)', x \in Files PROVE Kept(x)'
    <2>1. d \in Open /\ x \in Alive(d)
        BY <1>2, <1>4
    <2>2. CASE x = Cur
        BY <1>4, <2>2
    <2>3. CASE x # Cur
        <3>1. Kept(x)
            BY <1>1, <1>4, <2>1 DEF Faithful, NodesKeep
        <3>2. x \in Ids
            BY <1>4 DEF Ids
        <3>3. node'[x] = node[x] /\ stored'[x] = stored[x]
            BY <1>3, <1>4, <2>3, <3>2
        <3> QED
            BY <3>1, <3>3, KeptStill
    <2> QED
        BY <2>2, <2>3
<1> QED
    BY <1>4 DEF NodesKeep

\* The entry of a directory is saved: no file is written.
LEMMA SaveDirectoryFaithful ==
    ASSUME IInv, Faithful, SaveDirectory PROVE Faithful'
<1>1. /\ Saving /\ node[Cur].dirty /\ CanEnter /\ Cur \in Dirs
      /\ stored' = stored
    BY DEF SaveDirectory, CurDir, history
<1>2. PICK A \in SUBSET Entered.free, r \in NodeType : Saved(A, r)
    BY DirectorySaved
<1>3. Cur \notin Files
    BY <1>1, NodesAssumption
<1>4. disk'[Entered.block].id = Cur
    BY <1>1, <1>2, Saves
<1>5. OnDiskAsStored'
    <2> SUFFICES ASSUME NEW c \in AllOn(disk'), disk'[c].id \in Files
                 PROVE  stored[disk'[c].id] # Gone /\ ReadOn(disk', c) = As(stored[disk'[c].id])
        BY <1>1 DEF OnDiskAsStored
    <2>1. c # Entered.block
        BY <1>3, <1>4
    <2> QED
        BY <1>1, <1>2, <2>1, OthersRead
<1>6. StoredOnDisk'
    <2> SUFFICES ASSUME NEW f \in Files, stored[f] # Gone PROVE \E c \in AllOn(disk') : disk'[c].id = f
        BY <1>1 DEF StoredOnDisk
    <2> QED
        BY <1>1, <1>2, <1>3, OthersRead
<1>7. NodesKeep'
    BY <1>1, <1>2, <1>3, SavedKeep
<1> QED
    BY <1>5, <1>6, <1>7 DEF Faithful

\* The entry of a file that is saved reads back as what its node was given: what is
\* in the node's buffer, or, when that is empty, what is there from the last save.
LEMMA OwnReads ==
    ASSUME IInv, Faithful, Saving, node[Cur].dirty, CanEnter, NEW y \in Files, y = Cur,
           NEW A \in SUBSET Entered.free, NEW r \in NodeType, Saved(A, r), Filled(r)
    PROVE  /\ node[y].given \in Content
           /\ ReadOn(disk', Entered.block) = As(node[y].given)
<1>1. Live /\ Shapes /\ Dir \in Open /\ y \in Alive(Dir)
    BY NamesApart
<1>2. PICK dk2 \in Disks : dk2 = disk'
    BY SavedElsewhere
<1>3. PICK b \in Blocks : b = Entered.block
    BY EnteredShape
<1>4. PICK given : given = node[y].given
    OBVIOUS
<1>5. PICK content : content = node[y].content
    OBVIOUS
<1>6. /\ given \in Content
      /\ IF content = <<>>
         THEN IF node[y].block = 0 THEN given = <<>> ELSE given = stored[y]
         ELSE given = content
    BY <1>1, <1>4, <1>5 DEF Faithful, NodesKeep, Kept
<1>7. /\ content = <<>> => dk2[b] = Named
      /\ content # <<>> => \E a : Taking(a, Needed(Len(content))) /\ Bears(dk2, b, a, content)
    BY <1>2, <1>3, <1>5 DEF Filled
<1>8. Tree(dk2) /\ b \in AllOn(dk2) /\ dk2[b].id = y
    BY <1>2, <1>3, Saves
<1>9. /\ dk2[b].kind = "file" /\ ExtOn(dk2, b) \in Paths
      /\ Range(ExtOn(dk2, b)) \subseteq DOMAIN ExtOf(dk2)
    <2>1. dk2[b].kind = "file" /\ Proper(ExtOn(dk2, b), dk2[b].ext, ExtOf(dk2))
        BY <1>8 DEF Tree, EntryFits
    <2>2. DOMAIN ExtOf(dk2) \subseteq Blocks
        BY DiskShape
    <2> QED
        BY <2>1, <2>2, ProperIs
<1>10. CASE content # <<>>
    <2>1. PICK a : Taking(a, Needed(Len(content))) /\ Bears(dk2, b, a, content)
        BY <1>7, <1>10
    <2>2. content \in Content
        BY <1>6, <1>10
    <2>3. ReadOn(dk2, b) = As(content)
        BY <1>9, <1>10, <2>1, <2>2, BornReads
    <2> QED
        BY <1>2, <1>3, <1>4, <1>6, <1>10, <2>3
<1>11. CASE content = <<>> /\ IsNew
    <2>1. given = <<>>
        BY <1>6, <1>11 DEF IsNew
    <2>2. dk2[b].size = 0
        <3>1. Named = [Header(Cur) EXCEPT !.name = node[Cur].name, !.parent = BlockOf(Dir)]
            BY <1>11 DEF Named
        <3>2. Named.size = 0
            BY <3>1 DEF Header
        <3> QED
            BY <1>7, <1>11, <3>2
    <2>3. PICK c \in Seq(Blocks) : c = ListsOn(dk2, b)
        BY <1>9, ListsShape
    <2>4. ReadOn(dk2, b) = [j \in 1 .. 0 |-> dk2[c[j]]]
        BY <2>2, <2>3 DEF ReadOn
    <2>5. As(given) = [j \in 1 .. 0 |-> Data(given[j])]
        BY <2>1 DEF As
    <2>6. ReadOn(dk2, b) = As(given)
        BY <2>4, <2>5
    <2> QED
        BY <1>2, <1>3, <1>4, <1>6, <2>6
<1>12. CASE content = <<>> /\ ~IsNew
    <2>1. /\ disk \in Disks /\ Tree(disk) /\ Apart(disk, free)
          /\ \A x \in Blocks : x \notin free \cup {RootBlock} \cup AllOn(disk) => dk2[x] = disk[x]
          /\ b \notin AllOn(disk) => IsNew
          /\ b \in AllOn(disk) => b = node[Cur].block /\ disk[b].id = Cur
        BY <1>2, <1>3, SavedElsewhere
    <2>2. b \in AllOn(disk) /\ disk[b].id = y /\ b = node[Cur].block
        BY <1>12, <2>1
    <2>3. given = stored[y]
        BY <1>6, <1>12 DEF IsNew
    <2>4. ReadOn(disk, b) = As(given)
        BY <1>1, <2>2, <2>3 DEF Faithful, OnDiskAsStored
    <2>5. LeadsAs(dk2[b], disk[b])
        <3>1. disk[b] \in EntryType
            BY <2>1, <2>2, TreeShape
        <3>2. dk2[b] = [disk[b] EXCEPT !.name = node[Cur].name, !.parent = BlockOf(Dir)]
            BY <1>7, <1>12, <2>2 DEF Named
        <3> QED
            BY <3>1, <3>2 DEF LeadsAs, EntryType
    <2>6. ReadOn(dk2, b) = As(given)
        BY <1>6, <2>1, <2>2, <2>4, <2>5, ReadsStill
    <2> QED
        BY <1>2, <1>3, <1>4, <1>6, <2>6
<1> QED
    BY <1>10, <1>11, <1>12

\* A file is saved, and its entry reads back as it was given.
LEMMA SaveFileFaithful ==
    ASSUME IInv, Faithful, SaveFile PROVE Faithful'
<1>1. PICK y : y = Cur
    OBVIOUS
<1>2. /\ Saving /\ node[Cur].dirty /\ CanEnter /\ y \in Files
      /\ stored' = [stored EXCEPT ![y] = node[y].given]
    BY <1>1 DEF SaveFile, CurDirty, CurFile
<1>3. PICK A \in SUBSET Entered.free, r \in NodeType : Saved(A, r) /\ Filled(r)
    BY FileSaved
<1>4. /\ Live /\ Shapes /\ y \in Ids
    BY <1>1, <1>2, NamesApart
<1>5. PICK b \in Blocks : b = Entered.block
    BY <1>2, EnteredShape
<1>6. disk'[b].id = y /\ b \in AllOn(disk')
    BY <1>1, <1>2, <1>3, <1>5, Saves
<1>7. node[y].given \in Content /\ ReadOn(disk', b) = As(node[y].given)
    BY <1>1, <1>2, <1>3, <1>5, OwnReads
<1>8. stored'[y] = node[y].given /\ \A f \in Files : f # y => stored'[f] = stored[f]
    BY <1>2, <1>4 DEF Shapes
<1>9. OnDiskAsStored'
    <2> SUFFICES ASSUME NEW c \in AllOn(disk'), disk'[c].id \in Files
                 PROVE  stored'[disk'[c].id] # Gone /\ ReadOn(disk', c) = As(stored'[disk'[c].id])
        BY DEF OnDiskAsStored
    <2>1. CASE c = b
        BY <1>6, <1>7, <1>8, <2>1, GoneApart
    <2>2. CASE c # b
        <3>1. /\ disk'[c].id # y /\ stored[disk'[c].id] # Gone
              /\ ReadOn(disk', c) = As(stored[disk'[c].id])
            BY <1>1, <1>2, <1>3, <1>5, <2>2, OthersRead
        <3> QED
            BY <1>8, <3>1
    <2> QED
        BY <2>1, <2>2
<1>10. StoredOnDisk'
    <2> SUFFICES ASSUME NEW f \in Files, stored'[f] # Gone PROVE \E c \in AllOn(disk') : disk'[c].id = f
        BY DEF StoredOnDisk
    <2>1. CASE f = y
        BY <1>6, <2>1
    <2>2. CASE f # y
        <3>1. stored[f] # Gone
            BY <1>8, <2>2
        <3> QED
            BY <1>1, <1>2, <1>3, <2>2, <3>1, OthersRead
    <2> QED
        BY <2>1, <2>2
<1>11. Kept(y)'
    <2>1. node' = [node EXCEPT ![y] = r] /\ r.block = b
        BY <1>1, <1>3, <1>5 DEF Saved
    <2>2. node'[y] = r
        BY <1>4, <2>1 DEF Shapes
    <2>3. r.given = node[y].given /\ r.content = <<>>
        BY <1>1, <1>3 DEF Filled
    <2>4. b # 0
        BY <1>5, BlocksShape
    <2> QED
        BY <1>7, <1>8, <2>1, <2>2, <2>3, <2>4 DEF Kept
<1>12. NodesKeep'
    BY <1>1, <1>2, <1>3, <1>8, <1>11, SavedKeep
<1> QED
    BY <1>9, <1>10, <1>12 DEF Faithful

\* A removal takes the entry of its file, and no other.
LEMMA RemoveNodeFaithful ==
    ASSUME IInv, Faithful, RemoveNode PROVE Faithful'
<1>1. PICK x : x = doomed[1]
    OBVIOUS
<1>2. /\ pc = "remove" /\ node' = node
      /\ stored' = IF x \in Files THEN [stored EXCEPT ![x] = Gone] ELSE stored
    BY <1>1 DEF RemoveNode
<1>3. Live /\ Shapes /\ disk \in Disks /\ Tree(disk) /\ Apart(disk, free)
    BY <1>2 DEF IInv, Live, Shapes
<1>4. PICK dk2 \in Disks : dk2 = disk'
    BY <1>1, Removes
<1>5. /\ x \in Ids /\ dk2 = Unlinked(x)
      /\ node[x].block \in AllOn(disk) /\ disk[node[x].block].id = x
      /\ AllOn(dk2) = AllOn(disk) \ {node[x].block}
      /\ \A c \in AllOn(disk) : dk2[c].id = disk[c].id
      /\ Open' \subseteq Open \ {x}
      /\ \A e \in Open' : Alive(e)' = Alive(e) \ {x}
    BY <1>1, <1>4, Removes
<1>6. PICK d : Removable(d, x)
    BY <1>1, Removes
<1>7. Relinked(dk2, disk)
    <2>1. d \in Open /\ BlockOf(d) # 0 /\ NodeFits(d, x) /\ Settled(x)
        BY <1>6 DEF Removable
    <2>2. /\ HashOf[node[x].name] \in Slots /\ BlockOf(d) \in DirsOn(disk)
          /\ Hit(x) \in 1 .. Len(ChainOn(disk, BlockOf(d), HashOf[node[x].name]))
          /\ Unlinked(x) = Bypassed(disk, BlockOf(d), HashOf[node[x].name], Hit(x))
        BY <1>3, <2>1, Found
    <2> QED
        BY <1>3, <1>5, <2>2, BypassReads
<1>8. \A f \in Files : f # x => stored'[f] = stored[f]
    BY <1>2, <1>3 DEF Shapes
<1>9. x \in Files => stored'[x] = Gone
    BY <1>2, <1>3 DEF Shapes
<1>10. OnDiskAsStored'
    <2> SUFFICES ASSUME NEW c \in AllOn(dk2), dk2[c].id \in Files
                 PROVE  stored'[dk2[c].id] # Gone /\ ReadOn(dk2, c) = As(stored'[dk2[c].id])
        BY <1>4 DEF OnDiskAsStored
    <2>1. c \in AllOn(disk) /\ c # node[x].block /\ dk2[c].id = disk[c].id
        BY <1>5
    <2>2. disk[c].id # x
        BY <1>3, <1>5, <2>1 DEF Tree
    <2>3. PICK s : s = stored[disk[c].id]
        OBVIOUS
    <2>4. s # Gone /\ ReadOn(disk, c) = As(s)
        BY <1>3, <2>1, <2>3 DEF Faithful, OnDiskAsStored
    <2>5. s \in Content
        BY <1>3, <2>1, <2>3, <2>4 DEF Shapes
    <2>6. disk[c].kind = "file"
        BY <1>3, <2>1 DEF Tree, EntryFits
    <2>7. /\ LeadsAs(dk2[c], disk[c])
          /\ \A y \in Blocks : y \notin free \cup {RootBlock} \cup AllOn(disk) => dk2[y] = disk[y]
        BY <1>7, <2>1, <2>6 DEF Relinked
    <2>8. ReadOn(dk2, c) = As(s)
        BY <1>3, <2>1, <2>4, <2>5, <2>7, ReadsStill
    <2> QED
        BY <1>8, <2>1, <2>2, <2>3, <2>4, <2>8
<1>11. StoredOnDisk'
    <2> SUFFICES ASSUME NEW f \in Files, stored'[f] # Gone PROVE \E c \in AllOn(dk2) : dk2[c].id = f
        BY <1>4 DEF StoredOnDisk
    <2>1. f # x /\ stored[f] # Gone
        BY <1>8, <1>9
    <2>2. PICK c \in AllOn(disk) : disk[c].id = f
        BY <1>3, <2>1 DEF Faithful, StoredOnDisk
    <2> QED
        BY <1>5, <2>1, <2>2
<1>12. NodesKeep'
    <2>1. ASSUME NEW e \in Open', NEW y \in Alive(e)', y \in Files PROVE Kept(y)'
        <3>1. e \in Open /\ y \in Alive(e) /\ y # x
            BY <1>5, <2>1
        <3>2. Kept(y)
            BY <1>3, <2>1, <3>1 DEF Faithful, NodesKeep
        <3> QED
            BY <1>2, <1>8, <2>1, <3>1, <3>2, KeptStill
    <2> QED
        BY <2>1 DEF NodesKeep
<1> QED
    BY <1>10, <1>11, <1>12 DEF Faithful

-----------------------------------------------------------------------------
(* Every step, and what follows between two calls *)

\* Nothing is stored in an image just created.
LEMMA InitFaithful == Init => Faithful
<1> SUFFICES ASSUME Init PROVE Faithful
    OBVIOUS
<1>1. disk \in Disks
    BY InitHolds DEF IInv, Shapes
<1>2. disk[RootBlock] = EmptyRoot /\ disk[RootBlock + 1] = Blank
    <2>1. RootBlock \in Nat /\ RootBlock \in Blocks /\ RootBlock + 1 \in Blocks
        BY GeometryAssumption, BlocksShape
    <2>2. RootBlock + 1 # RootBlock
        BY <2>1
    <2>3. disk = [b \in Blocks |-> IF b = RootBlock THEN EmptyRoot ELSE Blank]
        BY DEF Init
    <2> QED
        BY <2>1, <2>2, <2>3
<1>3. AllOn(disk) = {}
    BY <1>1, <1>2, EmptyTree
<1>4. \A d \in Open : Alive(d) = {}
    <2>1. Open \subseteq Directories
        BY NodesAssumption, InitHolds, Standing DEF Live, Init
    <2>2. \A d \in Directories : Range(nodes[d]) = {}
        BY DEF Init, NoNodes, Range
    <2> QED
        BY <2>1, <2>2 DEF Alive
<1>5. \A f \in Files : stored[f] = Gone
    BY DEF Init
<1> QED
    BY <1>3, <1>4, <1>5 DEF Faithful, OnDiskAsStored, StoredOnDisk, NodesKeep

\* Every call, and every step of a save and of a removal.
LEMMA NextFaithful ==
    ASSUME IInv, Faithful, Filling, [Next]_vars PROVE Faithful'
<1>1. CASE Format
    BY <1>1, FormatFaithful
<1>2. CASE Load
    BY <1>2, LoadFaithful
<1>3. CASE OpenDirectory
    BY <1>3, OpenDirectoryFaithful
<1>4. CASE AddFile
    BY <1>4, AddFileFaithful
<1>5. CASE AddDirectory
    BY <1>5, AddDirectoryFaithful
<1>6. CASE SetContent
    BY <1>6, SetContentFaithful
<1>7. CASE Rename
    BY <1>7, RenameFaithful
<1>8. CASE SaveStep
    <2>1. CASE SkipFile \/ CleanDirectory \/ SaveDone
        BY <2>1, SkipFaithful
    <2>2. CASE SaveFile
        BY <2>2, SaveFileFaithful
    <2>3. CASE SaveDirectory
        BY <2>3, SaveDirectoryFaithful
    <2>4. CASE FileExists \/ DirectoryExists
        BY <2>4, ExistsFaithful
    <2>5. CASE NoBlock \/ DiskFull \/ NoContent
        BY <2>5, ThrownFaithful
    <2> QED
        BY <1>8, <2>1, <2>2, <2>3, <2>4, <2>5 DEF SaveStep
<1>9. CASE RemoveFile
    BY <1>9, RemoveFileFaithful
<1>10. CASE RemoveDirectory
    BY <1>10, RemoveDirectoryFaithful
<1>11. CASE RemoveNode
    BY <1>11, RemoveNodeFaithful
<1>12. CASE UNCHANGED vars
    BY <1>12, StoppedFaithful
<1>13. Stopped => UNCHANGED vars
    BY DEF Stopped
<1> QED
    BY <1>1, <1>2, <1>3, <1>4, <1>5, <1>6, <1>7, <1>8, <1>9, <1>10, <1>11, <1>12, <1>13 DEF Next

\* Each stored file has its one entry, which reads back as it was stored.
LEMMA FaithfulReads == IInv /\ Faithful => Readable
<1> SUFFICES ASSUME IInv, Faithful, pc = "idle", NEW f \in Files
             PROVE  LET here == {b \in Entries : disk[b].id = f}
                    IN  IF stored[f] = Gone THEN here = {}
                        ELSE \E b \in here :
                               /\ here = {b}
                               /\ ReadBack(b) = [j \in 1 .. Len(stored[f]) |-> Data(stored[f][j])]
    BY Zenon DEF Readable
<1>1. Live
    BY DEF Live
<1>2. disk \in Disks /\ Tree(disk)
    BY <1>1 DEF IInv, Shapes
<1>3. PICK E : E = AllOn(disk)
    OBVIOUS
<1>4. Entries = E
    BY <1>2, <1>3, Reached
<1>5. \A b : ReadBack(b) = ReadOn(disk, b)
    <2>1. \A b : Extensions(b) = ExtOn(disk, b)
        BY <1>2, Reading
    <2> QED
        BY <2>1 DEF ReadBack, ReadOn, DataBlocks, ListsOn
<1>6. \A b \in E : disk[b].id = f =>
          stored[f] # Gone /\ ReadBack(b) = [j \in 1 .. Len(stored[f]) |-> Data(stored[f][j])]
    BY <1>1, <1>3, <1>5 DEF Faithful, OnDiskAsStored, As
<1>7. stored[f] # Gone => \E b \in E : disk[b].id = f
    BY <1>1, <1>3 DEF Faithful, StoredOnDisk
<1>8. \A b, c \in E : disk[b].id = f /\ disk[c].id = f => b = c
    BY <1>2, <1>3 DEF Tree
<1>9. CASE stored[f] = Gone
    BY <1>4, <1>6, <1>9
<1>10. CASE stored[f] # Gone
    <2>1. PICK b \in E : disk[b].id = f
        BY <1>7, <1>10
    <2>2. {c \in E : disk[c].id = f} = {b}
        BY <1>8, <2>1
    <2>3. ReadBack(b) = [j \in 1 .. Len(stored[f]) |-> Data(stored[f][j])]
        BY <1>6, <2>1
    <2> QED
        BY <1>4, <1>10, <2>2, <2>3
<1> QED
    BY <1>9, <1>10

\* Between two calls the files on disk are those that were saved and not removed,
\* each with one entry, and filesystemRead gets from it what was saved last, pieces
\* and order ("Compare content", firy-test.cpp:67): whatever was added, renamed,
\* written over, looked into and removed since, by a client that keeps the names of
\* a directory apart and gives a file some content.
THEOREM SavedIsReadable ==
    ASSUME Filling PROVE Spec => []Readable
<1>1. Init => IInv /\ Faithful
    BY InitHolds, InitFaithful
<1>2. IInv /\ Faithful /\ [Next]_vars => IInv' /\ Faithful'
    BY NextHolds, NextFaithful DEF Filling
<1>3. IInv /\ Faithful => Readable
    BY FaithfulReads
<1> QED
    BY <1>1, <1>2, <1>3, PTL DEF Spec
=============================================================================
