-------------------------------- MODULE D64 --------------------------------
(***************************************************************************)
(* A Commodore disk image: cD64 (src/source/images/d64.cpp) with the tree  *)
(* of files above it (filesystem/filesystem.cpp) and the source below.     *)
(*                                                                         *)
(* The source is a store of sectors (what ImageStore calls mem).  A file's *)
(* content is a sequence of sector-sized pieces; a piece is identified by  *)
(* its file, version and number.  A sector is at once a link (its first    *)
(* two bytes), a piece and a set of directory entries: writing it as one   *)
(* of them spoils the other.  One image object is used by one thread, so   *)
(* each call runs alone; a save and a removal take several steps.          *)
(***************************************************************************)
EXTENDS D64Bam, SequencesExt

CONSTANTS
    Files,          \* names of files
    EntryCount,     \* directory entries in a sector: 8
    MaxVersions,    \* bound: contents each file is given
    MaxPieces,      \* bound: pieces of a content
    Ops             \* what the client does, see Clients

ASSUME EntryAssumption == EntryCount \in 1 .. 8
ASSUME BoundsAssumption == MaxVersions \in Nat \ {0} /\ MaxPieces \in Nat

\* "content", "rename": a file of this session; "recontent", "relabel": a file
\* that was loaded; "empty": a file is given no bytes; "format": an image that
\* is in use is created anew.
Clients == {"add", "content", "rename", "recontent", "relabel", "empty",
            "load", "read", "remove", "format"}
ASSUME OpsAssumption == Ops \subseteq Clients

VARIABLES
    bam,        \* mBam
    nodes,      \* mFsRoot->mNodes, by name
    node,       \* the file objects
    link,       \* source: first two bytes of each sector
    piece,      \* source: the piece of content in each sector
    entries,    \* source: the directory entries in each sector
    diskBam,    \* source: the saved availability map
    pc, at,     \* the call in progress; the index of the node it is at
    version,    \* history: contents given to each file so far
    stored      \* history: content of each file as last saved

image == <<bam, nodes, node>>
source == <<link, piece, entries, diskBam>>
history == <<version, stored>>
vars == <<bam, nodes, node, link, piece, entries, diskBam, pc, at, version, stored>>

End == <<0, 0>>                 \* a link to track 0 ends a chain
NoSlot == [ts |-> End, offset |-> 0]    \* a node that has no entry yet
NoPiece == <<>>
Unused == [file |-> "none", start |-> End, size |-> 0]  \* an entry with no start
Junk == [file |-> "junk", start |-> End, size |-> 0]    \* bytes that are no entry
SystemSectors == BamSectors \cup {HeaderSector}
Slots == 0 .. EntryCount - 1

-----------------------------------------------------------------------------
(* Chains and the directory *)

\* The chain of links from a sector, until a link leads out or back into it.
ChainFrom(start) ==
    LET walk[n \in 0 .. Cardinality(Sectors)] ==
            IF n = 0 THEN <<>>
            ELSE LET c == walk[n - 1]
                     next == IF c = <<>> THEN start ELSE link[Last(c)]
                 IN  IF next \in Sectors /\ next \notin Range(c) THEN Append(c, next) ELSE c
    IN  walk[Cardinality(Sectors)]

\* The sectors of the directory; a link to sector 0 of a track ends it as well.
Directory ==
    LET walk[n \in 1 .. Cardinality(Sectors)] ==
            IF n = 1 THEN <<DirStart>>
            ELSE LET c == walk[n - 1]
                     next == link[Last(c)]
                 IN  IF next \in Sectors /\ next[2] # 0 /\ next \notin Range(c)
                     THEN Append(c, next) ELSE c
    IN  walk[Cardinality(Sectors)]

\* A slot is a sector and the offset of an entry in it.
SlotsIn(s, unused) ==
    {[ts |-> s, offset |-> i * 32] : i \in {j \in Slots : (entries[s][j] = Unused) = unused}}
FirstOf(slots) == CHOOSE x \in slots : \A y \in slots : x.offset <= y.offset
EntryAt(slot) == entries[slot.ts][slot.offset \div 32]

\* Slots of the directory that hold an entry, and the j-th of them.
InUse == UNION {SlotsIn(s, FALSE) : s \in Range(Directory)}
SlotBefore(x, y) ==
    \E d, e \in 1 .. Len(Directory) :
        /\ Directory[d] = x.ts /\ Directory[e] = y.ts
        /\ d < e \/ (d = e /\ x.offset < y.offset)
SlotAt(j) == CHOOSE x \in InUse : Cardinality({y \in InUse : SlotBefore(y, x)}) = j - 1

NewNode(content) ==
    [dirty |-> TRUE, content |-> content, chain |-> <<>>, size |-> 0,
     slot |-> NoSlot, loaded |-> FALSE]
Update(f, field, value) == [node EXCEPT ![f][field] = value]
Pieces(f, v, n) == [j \in 1 .. n |-> <<f, v, j>>]

-----------------------------------------------------------------------------
(* filesystemCreate and filesystemLoad *)

\* A new image: the source is all zeros.
Init ==
    /\ bam = NewBam
    /\ diskBam = NewBam
    /\ nodes = <<>>
    /\ node = [f \in Files |-> NewNode(<<>>)]
    /\ link = [s \in Sectors |-> End]
    /\ piece = [s \in Sectors |-> NoPiece]
    /\ entries = [s \in Sectors |-> [i \in Slots |-> Unused]]
    /\ pc = "idle"
    /\ at = 0
    /\ version = [f \in Files |-> 0]
    /\ stored = [f \in Files |-> <<>>]

\* filesystemCreate of an image that exists: its sectors are not cleared.
Format ==
    /\ pc = "idle" /\ "format" \in Ops
    /\ nodes' = <<>>
    /\ bam' = NewBam
    /\ diskBam' = NewBam
    /\ piece' = [s \in Sectors |-> IF s \in SystemSectors THEN NoPiece ELSE piece[s]]
    /\ stored' = [f \in Files |-> <<>>]
    /\ UNCHANGED <<node, link, entries, pc, at, version>>

\* mDirIndex.mOffset of entry i: i * 20, where an entry takes 0x20 bytes.
LoadOffset(i) == i * 20

\* filesystemLoad: a node for each entry, with the first sector of its chain.
\* Bound: a directory with junk in it is not loaded.
Load ==
    /\ pc = "idle" /\ "load" \in Ops
    /\ \A s \in Range(Directory), i \in Slots : entries[s][i] # Junk
    /\ LET ofFile(f) == CHOOSE x \in InUse : EntryAt(x).file = f
       IN  /\ nodes' = [j \in 1 .. Cardinality(InUse) |-> EntryAt(SlotAt(j)).file]
           /\ node' = [f \in Files |->
                IF \E x \in InUse : EntryAt(x).file = f
                THEN [dirty |-> FALSE, content |-> <<>>,
                      chain |-> <<EntryAt(ofFile(f)).start>>,
                      size |-> EntryAt(ofFile(f)).size,
                      slot |-> [ts |-> ofFile(f).ts,
                                offset |-> LoadOffset(ofFile(f).offset \div 32)],
                      loaded |-> TRUE]
                ELSE NewNode(<<>>)]
    /\ bam' = diskBam
    /\ UNCHANGED <<source, pc, at, history>>

-----------------------------------------------------------------------------
(* The client: add, contents and names, read *)

Save == pc' = "save" /\ at' = 1

\* filesystemFileCreate and sDirectory::add, which saves.
Add ==
    /\ pc = "idle" /\ "add" \in Ops
    /\ \E f \in Files, n \in (IF "empty" \in Ops THEN 0 ELSE 1) .. MaxPieces :
          /\ f \notin Range(nodes)
          /\ version[f] = 0
          /\ node' = [node EXCEPT ![f] = NewNode(Pieces(f, 1, n))]
          /\ nodes' = Append(nodes, f)
          /\ version' = [version EXCEPT ![f] = 1]
    /\ Save
    /\ UNCHANGED <<bam, source, stored>>

\* A file is given new content, and the filesystem is saved.
SetContent ==
    /\ pc = "idle"
    /\ \E f \in Range(nodes), n \in 1 .. MaxPieces :
          /\ (IF node[f].loaded THEN "recontent" ELSE "content") \in Ops
          /\ version[f] < MaxVersions
          /\ version' = [version EXCEPT ![f] = @ + 1]
          /\ node' = [node EXCEPT ![f].content = Pieces(f, version[f] + 1, n),
                                  ![f].dirty = TRUE]
    /\ Save
    /\ UNCHANGED <<bam, nodes, source, stored>>

\* nameSet, or a new time, makes a file dirty; the filesystem is saved.
Rename ==
    /\ pc = "idle"
    /\ \E f \in Range(nodes) :
          /\ (IF node[f].loaded THEN "relabel" ELSE "rename") \in Ops
          /\ node' = Update(f, "dirty", TRUE)
    /\ Save
    /\ UNCHANGED <<bam, nodes, source, history>>

\* filesystemRead loads the whole chain of the file.
Read ==
    /\ pc = "idle" /\ "read" \in Ops
    /\ \E f \in Range(nodes) :
          /\ node[f].chain # <<>>
          /\ node' = Update(f, "chain", ChainFrom(node[f].chain[1]))
    /\ UNCHANGED <<bam, nodes, source, pc, at, history>>

-----------------------------------------------------------------------------
(* filesystemSaveNative *)

Current == nodes[at]
Saving == pc = "save" /\ at <= Len(nodes) /\ node[Current].dirty

\* (A node is looked at again.)
SameNode == at' = at

NextNode == at' = at + 1

SkipClean ==
    /\ pc = "save" /\ at <= Len(nodes) /\ ~node[Current].dirty
    /\ NextNode
    /\ UNCHANGED <<image, source, pc, history>>

\* filesystemFindFreeIndex: the first unused entry of the directory ...
FindIndex ==
    /\ Saving
    /\ node[Current].slot = NoSlot
    /\ \E d \in 1 .. Len(Directory) :
          /\ SlotsIn(Directory[d], TRUE) # {}
          /\ \A e \in 1 .. d - 1 : SlotsIn(Directory[e], TRUE) = {}
          /\ node' = Update(Current, "slot", FirstOf(SlotsIn(Directory[d], TRUE)))
    /\ UNCHANGED <<bam, nodes, source, pc, at, history>>

\* ... or, in a full one that has ended, the sector three further on, whatever
\* it holds: the link is written, and the search goes on there.
NeedsExtension ==
    /\ Saving
    /\ node[Current].slot = NoSlot
    /\ \A d \in 1 .. Len(Directory) : SlotsIn(Directory[d], TRUE) = {}
Extension == <<DirStart[1], Last(Directory)[2] + 3>>
CanExtend == Extension \in Sectors /\ (link[Last(Directory)][1] = 0 \/ link[Last(Directory)][2] = 0)

ExtendDirectory ==
    /\ NeedsExtension /\ CanExtend
    /\ link' = [link EXCEPT ![Last(Directory)] = Extension]
    /\ UNCHANGED <<image, piece, entries, diskBam, pc, at, history>>

\* No space in the directory, or one that loops: the save ends, and the map is
\* not saved.
DirectoryFull ==
    /\ NeedsExtension /\ ~CanExtend
    /\ pc' = "idle"
    /\ UNCHANGED <<image, source, at, history>>

\* The bytes filesystemEntrySave writes from an offset: type, start, name, size.
Written(offset) == (offset + 2 .. offset + 20) \cup {offset + 30, offset + 31}

\* What is left of entry i: one that is hit in part is spoilt, unless it is
\* unused and its start track stays zero.
After(i, offset, old, new) ==
    IF offset = i * 32 THEN new
    ELSE IF Written(offset) \cap (i * 32 .. i * 32 + 31) = {} THEN old
    ELSE IF old = Unused /\ i * 32 + 3 \notin Written(offset) THEN old
    ELSE Junk

\* (The sector is changed in memory only.)
EntryForgotten(slot, new) == entries

WithEntry(slot, new) ==
    [entries EXCEPT ![slot.ts] =
        [i \in Slots |-> After(i, slot.offset, entries[slot.ts][i], new)]]

\* The old chain is let go when the number of sectors changes.
Released(n) ==
    IF n.size # Len(n.content) THEN FreeSectors(bam, Range(n.chain)) ELSE bam
Allotted(n) ==
    IF n.size # Len(n.content) THEN FirstFree(Released(n), Len(n.content)) ELSE n.chain

Ready == Saving /\ node[Current].slot # NoSlot

\* "Not enough free space": the node stays dirty, the save goes on.
NoSpace ==
    /\ Ready
    /\ LET n == node[Current] IN
          /\ n.content # <<>>
          /\ Allotted(n) = <<>>
          /\ bam' = Released(n)
          /\ node' = Update(Current, "chain", <<>>)
    /\ NextNode
    /\ UNCHANGED <<nodes, source, pc, history>>

\* The pieces go to the first k sectors of the chain, each linked to the next
\* one.  A sector of content may look like a directory sector, used or unused,
\* to a directory that reaches it.
WriteSectors(chain, k, pieces) ==
    LET written == {chain[j] : j \in 1 .. k}
        place(s) == CHOOSE j \in 1 .. k : chain[j] = s
    IN  /\ link' = [s \in Sectors |->
            IF s \notin written THEN link[s]
            ELSE IF place(s) = Len(chain) THEN End ELSE chain[place(s) + 1]]
        /\ piece' = [s \in Sectors |-> IF s \in written THEN pieces[place(s)] ELSE piece[s]]
        /\ \E look \in {Unused, Junk} :
            entries' = [s \in Sectors |->
                IF s \in written THEN [i \in Slots |-> look] ELSE entries[s]]

WriteContent ==
    /\ Ready
    /\ LET n == node[Current]
           len == Len(n.content)
           chain == Allotted(n)
       IN  /\ n.content # <<>>
           /\ Len(chain) \in 1 .. len
           /\ bam' = UseSectors(Released(n), IF n.size # len THEN Range(chain) ELSE {})
           /\ WriteSectors(chain, Len(chain), n.content)
           /\ node' = [node EXCEPT ![Current] =
                [@ EXCEPT !.chain = chain, !.size = len,
                          !.content = SubSeq(n.content, Len(chain) + 1, len)]]
           /\ stored' = [stored EXCEPT ![Current] = n.content]
    /\ pc' = "entry"
    /\ UNCHANGED <<nodes, diskBam, at, version>>

\* A chain longer than the content: there are no bytes left to take, and the
\* program ends on a null buffer.
ContentRunsOut ==
    /\ Ready
    /\ LET n == node[Current] IN
          /\ n.content # <<>>
          /\ Len(Allotted(n)) > Len(n.content)
          /\ WriteSectors(Allotted(n), Len(n.content), n.content)
    /\ pc' = "crashed"
    /\ UNCHANGED <<image, diskBam, at, history>>

\* A dirty file without content, which one that was saved or loaded is: its
\* chain is freed.
DropContent ==
    /\ Ready
    /\ node[Current].content = <<>>
    /\ bam' = FreeSectors(bam, Range(node[Current].chain))
    /\ node' = [node EXCEPT ![Current].chain = <<>>, ![Current].size = 0]
    /\ pc' = "entry"
    /\ UNCHANGED <<nodes, source, at, history>>

\* filesystemEntrySave.
SaveEntry ==
    /\ pc = "entry"
    /\ LET n == node[Current] IN
          /\ entries' = WithEntry(n.slot,
                IF n.chain = <<>> THEN Unused
                ELSE [file |-> Current, start |-> n.chain[1], size |-> n.size])
          /\ piece' = [piece EXCEPT ![n.slot.ts] = NoPiece]
    /\ node' = Update(Current, "dirty", FALSE)
    /\ NextNode
    /\ pc' = "save"
    /\ UNCHANGED <<bam, nodes, link, diskBam, history>>

\* (The map is not written.)
SavedMapOld == diskBam

\* filesystemBitmapSave: the map and the header are written.
SavedMap == bam

SaveDone ==
    /\ pc = "save" /\ at > Len(nodes)
    /\ diskBam' = SavedMap
    /\ piece' = [s \in Sectors |-> IF s \in SystemSectors THEN NoPiece ELSE piece[s]]
    /\ pc' = "idle"
    /\ UNCHANGED <<image, link, entries, at, history>>

-----------------------------------------------------------------------------
(* Removing a file *)

\* sNode::remove takes the node from its parent and calls filesystemRemove ...
RemoveFile ==
    /\ pc = "idle" /\ "remove" \in Ops
    /\ \E i \in 1 .. Len(nodes) :
          /\ at' = nodes[i]
          /\ nodes' = RemoveAt(nodes, i)
    /\ pc' = "remove"
    /\ UNCHANGED <<bam, node, source, history>>

\* ... which frees the chain and calls sNode::remove, which calls it again.
RemoveAgain ==
    /\ pc = "remove"
    /\ bam' = FreeSectors(bam, Range(node[at].chain))
    /\ node' = [node EXCEPT ![at] = [@ EXCEPT !.chain = <<>>, !.size = 0, !.dirty = TRUE]]
    /\ UNCHANGED <<nodes, source, pc, at, history>>

-----------------------------------------------------------------------------
Crashed ==
    /\ pc = "crashed"
    /\ UNCHANGED vars

Running ==
    \/ SkipClean \/ FindIndex \/ ExtendDirectory \/ DirectoryFull
    \/ NoSpace \/ WriteContent \/ ContentRunsOut \/ DropContent \/ SaveEntry \/ SaveDone
    \/ RemoveAgain

Next ==
    \/ Format \/ Load \/ Add \/ SetContent \/ Rename \/ Read \/ RemoveFile
    \/ Running \/ Crashed

Spec == Init /\ [][Next]_vars

\* A call that has begun goes on by itself.
FairSpec == Spec /\ WF_vars(Running)

-----------------------------------------------------------------------------
(* Properties *)

Content == UNION {[1 .. n -> Files \X (1 .. MaxVersions) \X (1 .. MaxPieces)] : n \in 0 .. MaxPieces}

\* The shapes of d64.hpp:65-100 and 180-188, and of the sectors.
TypeOK ==
    /\ bam \in BamType /\ diskBam \in BamType
    /\ IsInjective(nodes) /\ Range(nodes) \subseteq Files
    /\ \A f \in Files :
          /\ node[f].dirty \in BOOLEAN
          /\ node[f].content \in Content
          /\ IsInjective(node[f].chain) /\ Range(node[f].chain) \subseteq Sectors
          /\ node[f].size \in 0 .. MaxPieces
          /\ node[f].slot # NoSlot => node[f].slot.ts \in Sectors
    /\ link \in [Sectors -> Sectors \cup {End}]
    /\ \A s \in Sectors, i \in Slots :
          entries[s][i] \in {Unused, Junk} \cup [file : Files, start : Sectors, size : 1 .. MaxPieces]
    /\ pc \in {"idle", "save", "entry", "remove", "crashed"}

\* Entries of the directory, and the sectors of a file.
Entries == {x \in InUse : EntryAt(x) # Junk}
SectorsOf(x) == Range(ChainFrom(EntryAt(x).start))
System == Range(Directory) \cup SystemSectors

\* In memory and on disk, the number of free sectors of a track is the number
\* of its bits that are set, however sectors are taken and given back.
BamAgrees == Agrees(bam) /\ Agrees(diskBam)

\* A sector the saved map has free belongs to no file, to no sector of the
\* directory and to no sector of the system ("1 means free", d64.hpp:67).
FreeMeansUnused ==
    pc = "idle" =>
        diskBam.free \cap (System \cup UNION {SectorsOf(x) : x \in Entries}) = {}

\* No sector belongs to two files, or to a file and the system.
NoCrossLinks ==
    pc = "idle" =>
        /\ \A x \in Entries : SectorsOf(x) \cap System = {}
        /\ \A x, y \in Entries : x # y => SectorsOf(x) \cap SectorsOf(y) = {}

\* A file whose content was saved can be read back as it was: an entry of the
\* directory leads to its pieces, in order ("Compare content", firy-test.cpp:67).
Readable ==
    pc = "idle" =>
        \A f \in Files : stored[f] # <<>> =>
            \E x \in Entries :
                /\ EntryAt(x).file = f
                /\ LET c == ChainFrom(EntryAt(x).start)
                   IN  [j \in 1 .. Len(c) |-> piece[c[j]]] = stored[f]

\* Two files never have the same place in the directory
\* ("Find a free space in the directory index", d64.cpp:394).
SlotsDistinct ==
    \A f, g \in Range(nodes) :
        f # g /\ node[f].slot # NoSlot => node[f].slot # node[g].slot

\* Every entry of the directory is one that was written as such ("8 entries per
\* sector, 0x20 bytes per entry", d64.cpp:316).
DirectoryIntact == \A x \in InUse : EntryAt(x) # Junk

\* A new filesystem has no files ("Create an empty filesystem", d64.cpp:246).
CreatedEmpty == [][Format => Entries' = {}]_vars

\* Every save ends, whatever it meets in the directory and on the disk.
SaveReturns == pc \in {"save", "entry"} ~> pc \notin {"save", "entry"}

\* A removal returns ("Remove a node from the filesystem", d64.cpp:379).
RemoveReturns == pc = "remove" ~> pc # "remove"
=============================================================================
