-------------------------------- MODULE ADF --------------------------------
(***************************************************************************)
(* An Amiga disk image: cADF (src/source/images/adf.cpp) with the tree of  *)
(* files and directories above it (filesystem/filesystem.cpp).             *)
(*                                                                         *)
(* The source is a store of blocks.  A directory's block has a table of    *)
(* hashes; the entries of one hash are linked.  A file's block has a table *)
(* of data blocks, filled from its end, and a chain of extensions with     *)
(* further tables.  A content is a sequence of block-sized pieces, each    *)
(* identified by its file, version and number; a size counts pieces.       *)
(*                                                                         *)
(* One image is used by one thread and nothing of it reaches a file before *)
(* the source is saved, so a call runs alone; a save goes node by node,    *)
(* and a removal of a directory saves after every node.                    *)
(*                                                                         *)
(* Bounds: directories are only in the root; an image object that has      *)
(* thrown an exception is not used again.                                  *)
(***************************************************************************)
EXTENDS Naturals, FiniteSets, Sequences, SequencesExt

CONSTANTS
    LastBlock,      \* mBlockLast; blocks 0 and 1 are the boot block
    RootBlock,      \* mBlockRoot
    TableSize,      \* gDataBlocksMax and HT_SIZE: 72
    Files, Dirs,    \* node objects
    Names,          \* names of nodes
    HashOf,         \* getNameHash of each name
    MaxChanges,     \* bound: contents given to files and directories made, in all
    Sizes,          \* bound: numbers of pieces of a content
    Ops             \* what the client does, see Clients

Root == "/"
Blocks == 2 .. LastBlock
Slots == 0 .. TableSize - 1

ASSUME GeometryAssumption ==
    /\ TableSize \in Nat \ {0} /\ LastBlock \in Nat
    /\ RootBlock \in Blocks /\ RootBlock + 1 \in Blocks
ASSUME HashAssumption == HashOf \in [Names -> Slots]
ASSUME SizesAssumption == Sizes \subseteq Nat
ASSUME NodesAssumption == Files \cap Dirs = {} /\ Root \notin Files \cup Dirs

\* "add", "mkdir": a file, a directory is added to a directory the client has
\* looked into; "blind": to one it has not; "twin": under a name it has already;
\* "bare": a file that never got a content; "empty": a content of no bytes takes
\* the place of another; "rename": a node gets another name of the same hash;
\* "rehash": or of another one; "format": an image in use is created anew.
Clients == {"add", "mkdir", "blind", "twin", "bare", "empty", "content",
            "rename", "rehash", "load", "remove", "format"}
ASSUME OpsAssumption == Ops \subseteq Clients

VARIABLES
    free,       \* mBitmapBlocks: the free blocks
    nodes,      \* mNodes of the root and of each directory
    loaded,     \* mNodesLoaded of the root and of each directory
    node,       \* the node objects
    disk,       \* source: its blocks
    diskFree,   \* source: the saved bitmap
    pc,
    todo,       \* the nodes a save has still to look at, with their directories
    doomed,     \* the nodes a removal has still to remove
    version,    \* history: contents given to each file, and directories made, so far
    stored      \* history: the content of each file as last saved, or Gone

image == <<free, nodes, loaded, node>>
source == <<disk, diskFree>>
history == <<version, stored>>
vars == <<free, nodes, loaded, node, disk, diskFree, pc, todo, doomed, version, stored>>

Ids == Files \cup Dirs
Gone == << <<>> >>     \* a sequence, of no piece
System == {RootBlock, RootBlock + 1}    \* the root and the bitmap

-----------------------------------------------------------------------------
(* Blocks *)

NoTable == [i \in Slots |-> 0]
Blank == [kind |-> "blank"]
Data(piece) == [kind |-> "data", piece |-> piece]
Extension(table, ext) == [kind |-> "ext", table |-> table, ext |-> ext]
Header(x) == [kind |-> IF x \in Files THEN "file" ELSE "dir", id |-> x, name |-> 0,
              table |-> NoTable, next |-> 0, parent |-> 0, ext |-> 0, size |-> 0]

EntryKinds == {"file", "dir"}
IsEntry(b) == b \in Blocks /\ disk[b].kind \in EntryKinds

\* nextSameHash of the entries; extension of the extensions.
Nexts == [b \in {b \in Blocks : disk[b].kind \in EntryKinds} |-> disk[b].next]
Exts == [b \in {b \in Blocks : disk[b].kind = "ext"} |-> disk[b].ext]

\* The blocks from one on, along the links, while they have one and are new.
Walk(start, link) ==
    LET walk[n \in 0 .. LastBlock] ==
            IF n = 0 THEN <<>>
            ELSE LET c == walk[n - 1]
                     b == IF c = <<>> THEN start ELSE link[Last(c)]
                 IN  IF b \in DOMAIN link /\ b \notin Range(c) THEN Append(c, b) ELSE c
    IN  walk[LastBlock]

\* From a slot of a directory's table; from the header of a file.
HashChain(dir, h) == Walk(disk[dir].table[h], Nexts)
Extensions(b) == Walk(disk[b].ext, Exts)

\* A table is read from its end to the first empty slot.
Listed(table) ==
    LET n == Cardinality({i \in Slots : \A j \in i .. TableSize - 1 : table[j] # 0})
    IN  [j \in 1 .. n |-> table[TableSize - j]]

\* filesystemChainLoad and filesystemRead: the data blocks of a file, and its
\* content, cut to its size.
DataBlocks(b) == Listed(disk[b].table)
                    \o FlattenSeq([k \in 1 .. Len(Extensions(b)) |->
                                        Listed(disk[Extensions(b)[k]].table)])
ReadBack(b) ==
    LET c == DataBlocks(b)
        n == IF disk[b].size < Len(c) THEN disk[b].size ELSE Len(c)
    IN  [j \in 1 .. n |-> disk[c[j]]]

\* The entries of a directory, hash by hash.
EntriesOf(dir) == FlattenSeq([h \in 1 .. TableSize |-> HashChain(dir, h - 1)])

-----------------------------------------------------------------------------
(* Nodes *)

BlockOf(d) == IF d = Root THEN RootBlock ELSE node[d].block
Directories == {Root} \cup Dirs
Open == {Root} \cup (Range(nodes[Root]) \cap Dirs)
InTree == UNION {Range(nodes[d]) : d \in Open}
Children(d) == [k \in 1 .. Len(nodes[d]) |-> <<d, nodes[d][k]>>]

NewNode(name, content, bare) ==
    [name |-> name, dirty |-> TRUE, block |-> 0, content |-> content, bare |-> bare,
     given |-> content]

\* entryLoad: a node without a content.
LoadedNode(b) ==
    [name |-> disk[b].name, dirty |-> FALSE, block |-> b, content |-> <<>>, bare |-> TRUE,
     given |-> IF disk[b].id \in Files THEN stored[disk[b].id] ELSE <<>>]

NoNode == [name |-> 0, dirty |-> FALSE, block |-> 0,
           content |-> <<>>, bare |-> TRUE, given |-> <<>>]

-----------------------------------------------------------------------------
(* filesystemCreate, filesystemLoad and filesystemDirectoryLoad *)

NoNodes == [d \in Directories |-> <<>>]
NotLoaded == [d \in Directories |-> FALSE]
EmptyRoot == [kind |-> "root", table |-> NoTable]

Init ==
    /\ free = Blocks \ System
    /\ diskFree = Blocks \ System
    /\ nodes = NoNodes
    /\ loaded = NotLoaded
    /\ node = [x \in Ids |-> NoNode]
    /\ disk = [b \in Blocks |-> IF b = RootBlock THEN EmptyRoot ELSE Blank]
    /\ pc = "idle"
    /\ todo = <<>> /\ doomed = <<>>
    /\ version = [x \in Ids |-> 0]
    /\ stored = [f \in Files |-> Gone]

\* (The old root block is kept.)
FormattedKeepsRoot == disk

\* Only the boot, the root and the bitmap block are written.
Formatted == [disk EXCEPT ![RootBlock] = EmptyRoot, ![RootBlock + 1] = Blank]

Format ==
    /\ pc = "idle" /\ "format" \in Ops
    /\ disk' = Formatted
    /\ free' = Blocks \ System
    /\ diskFree' = Blocks \ System
    /\ nodes' = NoNodes /\ loaded' = NotLoaded
    /\ node' = [x \in Ids |-> NoNode]
    /\ stored' = [f \in Files |-> Gone]
    /\ UNCHANGED <<pc, todo, doomed, version>>

\* A chain that leads to a block that is no entry.
Dangling(dir) ==
    \E b \in {disk[dir].table[h] : h \in Slots}
                \cup {disk[e].next : e \in Range(EntriesOf(dir))} : b # 0 /\ ~IsEntry(b)

\* Bound: an image with such a chain is not loaded.
Load ==
    /\ pc = "idle" /\ "load" \in Ops
    /\ \A dir \in {RootBlock} \cup {e \in Range(EntriesOf(RootBlock)) : disk[e].kind = "dir"} :
          ~Dangling(dir)
    /\ free' = diskFree
    /\ nodes' = NoNodes /\ loaded' = NotLoaded
    /\ node' = [x \in Ids |-> NoNode]
    /\ UNCHANGED <<source, pc, todo, doomed, history>>

\* The nodes after entriesLoad of a directory.
NodesLoaded(d) ==
    LET found == Range(EntriesOf(BlockOf(d))) IN
    [x \in Ids |-> IF \E b \in found : disk[b].id = x
                   THEN LoadedNode(CHOOSE b \in found : disk[b].id = x)
                   ELSE node[x]]

\* entriesLoad of a directory that has a block; an empty one counts as not loaded.
EntriesLoad(d) ==
    LET found == EntriesOf(BlockOf(d)) IN
    /\ nodes' = [nodes EXCEPT ![d] = [k \in 1 .. Len(found) |-> disk[found[k]].id]]
    /\ loaded' = [loaded EXCEPT ![d] = found # <<>>]

\* Bound: a directory whose save was refused is not looked into.
OpenDirectory ==
    /\ pc = "idle"
    /\ \E d \in Open :
          /\ ~loaded[d] /\ BlockOf(d) # 0
          /\ EntriesOf(BlockOf(d)) # <<>>
          /\ EntriesLoad(d)
          /\ node' = NodesLoaded(d)
    /\ UNCHANGED <<free, source, pc, todo, doomed, history>>

-----------------------------------------------------------------------------
(* The client: add, contents and names *)

\* filesystemSaveNative begins with the nodes of the root.
BeginSave == pc' = "save" /\ todo' = [k \in 1 .. Len(nodes'[Root]) |-> <<Root, nodes'[Root][k]>>]

Pieces(f, v, n) == [j \in 1 .. n |-> <<f, v, j>>]
CanChange == FoldFunction(+, 0, version) < MaxChanges
Taken(d) == {node[x].name : x \in Range(nodes[d])}
OnDisk(x) == \E b \in Blocks : IsEntry(b) /\ disk[b].id = x /\ b \notin free

\* sDirectory::add; an object is only used again when nothing is left of it.
Add(d, x, content, bare) ==
    /\ pc = "idle"
    /\ d \in Open /\ x \notin InTree /\ ~OnDisk(x)
    /\ BlockOf(d) # 0
    /\ loaded[d] \/ EntriesOf(BlockOf(d)) = <<>> \/ "blind" \in Ops
    /\ \E name \in IF "twin" \in Ops THEN Names ELSE Names \ Taken(d) :
          node' = [y \in Ids |-> IF y = x THEN NewNode(name, content, bare)
                                 ELSE IF y = d THEN [node[y] EXCEPT !.dirty = TRUE]
                                 ELSE node[y]]
    /\ nodes' = [nodes EXCEPT ![d] = Append(@, x)]
    /\ loaded' = [y \in Directories |-> IF y = d THEN TRUE ELSE IF y = x THEN FALSE ELSE loaded[y]]
    /\ BeginSave
    /\ UNCHANGED <<free, source, doomed>>

AddFile ==
    /\ "add" \in Ops
    /\ \E d \in Directories, f \in Files, n \in Sizes, bare \in {FALSE} \cup {"bare" \in Ops} :
          /\ bare => n = 0
          /\ CanChange
          /\ Add(d, f, Pieces(f, version[f] + 1, n), bare)
          /\ version' = [version EXCEPT ![f] = @ + 1]
          /\ UNCHANGED stored

AddDirectory ==
    /\ "mkdir" \in Ops
    /\ \E x \in Dirs :
          /\ CanChange
          /\ nodes[x] = <<>>
          /\ Add(Root, x, <<>>, TRUE)
          /\ version' = [version EXCEPT ![x] = @ + 1]
    /\ UNCHANGED stored

\* A file is given new content, and the filesystem is saved.
SetContent ==
    /\ pc = "idle" /\ "content" \in Ops
    /\ \E f \in InTree \cap Files, n \in Sizes :
          /\ n = 0 => "empty" \in Ops
          /\ CanChange
          /\ version' = [version EXCEPT ![f] = @ + 1]
          /\ LET c == Pieces(f, version[f] + 1, n) IN
                node' = [node EXCEPT ![f].content = c, ![f].given = c,
                                     ![f].bare = FALSE, ![f].dirty = TRUE]
    /\ UNCHANGED <<free, nodes, loaded, source, doomed, stored>>
    /\ BeginSave

\* nameSet with a name that is free in the directory; the filesystem is saved.
Rename ==
    /\ pc = "idle" /\ "rename" \in Ops
    /\ \E d \in Open : \E x \in Range(nodes[d]), name \in Names \ Taken(d) :
          /\ HashOf[name] = HashOf[node[x].name] \/ "rehash" \in Ops
          /\ node' = [node EXCEPT ![x].name = name, ![x].dirty = TRUE]
    /\ UNCHANGED <<free, nodes, loaded, source, doomed, history>>
    /\ BeginSave

-----------------------------------------------------------------------------
(* blockUse and entryCreate *)

\* The first n free blocks, one blockUseSingle after the other.
Lowest(S, n) == [j \in 1 .. n |-> CHOOSE b \in S : Cardinality({c \in S : c < b}) = j - 1]
NewBlock == Lowest(free, 1)[1]

\* The node a save looks at, and its directory.
Saving == pc = "save" /\ todo # <<>>
Dir == todo[1][1]
Cur == todo[1][2]

ChainOf(d, x) == HashChain(BlockOf(d), HashOf[node[x].name])

\* An entry of that name is in the chain.
Exists(d, x) == \E b \in Range(ChainOf(d, x)) : disk[b].name = node[x].name

\* (The new entry takes the place of the chain.)
LinkFirst(d, x, b) == [disk EXCEPT ![BlockOf(d)].table[HashOf[node[x].name]] = b]

\* The new block goes into an empty slot of the table, or to the chain's end.
Link(d, x, b) ==
    LET chain == ChainOf(d, x) IN
    IF chain = <<>> THEN [disk EXCEPT ![BlockOf(d)].table[HashOf[node[x].name]] = b]
    ELSE [disk EXCEPT ![Last(chain)].next = b]

IsNew == node[Cur].block = 0
CanEnter == IsNew => free # {} /\ ~Exists(Dir, Cur)

\* The source, the bitmap and the node's block after entryCreate.
Entered ==
    IF IsNew THEN [disk |-> Link(Dir, Cur, NewBlock), free |-> free \ {NewBlock}, block |-> NewBlock]
    ELSE [disk |-> disk, free |-> free, block |-> node[Cur].block]

\* (The name is only written over an older one.)
NamedLate == [(IF IsNew THEN Header(Cur) ELSE [disk[node[Cur].block] EXCEPT !.name = node[Cur].name])
                EXCEPT !.parent = BlockOf(Dir)]

\* (The parent is always the root.)
NamedInRoot == [(IF IsNew THEN Header(Cur) ELSE disk[node[Cur].block])
                  EXCEPT !.name = node[Cur].name, !.parent = RootBlock]

\* (A new header is read from its block.)
NamedUncleared ==
    [(IF IsNew /\ ~IsEntry(Entered.block) THEN Header(Cur) ELSE disk[Entered.block])
        EXCEPT !.name = node[Cur].name, !.parent = BlockOf(Dir)]

\* setBlock, on a new header or on the one on disk.
Named == [(IF IsNew THEN Header(Cur) ELSE disk[node[Cur].block])
            EXCEPT !.name = node[Cur].name, !.parent = BlockOf(Dir)]

-----------------------------------------------------------------------------
(* filesystemSaveFileToBlocks *)

\* The order in which n pieces take blocks: a table's data blocks; when more are
\* to come one further block, which is used for nothing, and then the extension.
\* Of FFS; what OFS adds to each data block, its number and a link to the next one,
\* is not modelled.
MoreTables(n) == IF n = 0 THEN 0 ELSE (n - 1) \div TableSize
Needed(n) == n + 2 * MoreTables(n)
DataAt(j) == j + 2 * ((j - 1) \div TableSize)
ExtAt(k) == k * (TableSize + 2)

\* Table k (0: the header's), when the blocks taken are a.
TableFor(a, k, n) ==
    [i \in Slots |-> LET j == (k + 1) * TableSize - i
                     IN  IF j <= n THEN a[DataAt(j)] ELSE 0]
NextTable(a, k, n) == IF k < MoreTables(n) THEN a[ExtAt(k + 1)] ELSE 0

\* The source with the pieces in blocks a, and the header that leads to them.
Written(before, header, block, a, content) ==
    LET n == Len(content)
        data == {DataAt(j) : j \in 1 .. n}
        exts == {ExtAt(k) : k \in 1 .. MoreTables(n)}
        at(b) == CHOOSE p \in data \cup exts : a[p] = b
        pieceAt(p) == content[CHOOSE j \in 1 .. n : DataAt(j) = p]
        tableAt(p) == CHOOSE k \in 1 .. MoreTables(n) : ExtAt(k) = p
    IN  [b \in Blocks |->
            IF b = block
            THEN [header EXCEPT !.table = TableFor(a, 0, n), !.ext = NextTable(a, 0, n), !.size = n]
            ELSE IF b \in {a[p] : p \in data} THEN Data(pieceAt(at(b)))
            ELSE IF b \in {a[p] : p \in exts}
            THEN Extension(TableFor(a, tableAt(at(b)), n), NextTable(a, tableAt(at(b)), n))
            ELSE before[b]]

-----------------------------------------------------------------------------
(* filesystemSaveNode: files *)

CurFile == Saving /\ Cur \in Files
CurDirty == CurFile /\ node[Cur].dirty

SkipFile ==
    /\ CurFile /\ ~node[Cur].dirty
    /\ todo' = Tail(todo)
    /\ UNCHANGED <<image, source, pc, doomed, history>>

\* The content moves out of the node's buffer into new blocks; those of an older
\* content are not freed.
SaveFile ==
    /\ CurDirty /\ CanEnter /\ ~node[Cur].bare
    /\ LET e == Entered
           content == node[Cur].content
           a == Lowest(e.free, Needed(Len(content)))
       IN  /\ Needed(Len(content)) <= Cardinality(e.free)
           /\ disk' = IF content = <<>> THEN [e.disk EXCEPT ![e.block] = Named]
                      ELSE Written(e.disk, Named, e.block, a, content)
           /\ free' = e.free \ Range(a)
           /\ node' = [node EXCEPT ![Cur].block = e.block, ![Cur].content = <<>>,
                                   ![Cur].dirty = FALSE]
    /\ todo' = Tail(todo)
    /\ stored' = [stored EXCEPT ![Cur] = node[Cur].given]
    /\ UNCHANGED <<nodes, loaded, diskFree, pc, doomed, version>>

\* The save gives up: a block was taken, and the bitmap is not saved.
FileExists ==
    /\ CurDirty /\ IsNew /\ free # {} /\ Exists(Dir, Cur)
    /\ free' = free \ {NewBlock}
    /\ pc' = "idle" /\ todo' = <<>> /\ doomed' = <<>>
    /\ UNCHANGED <<nodes, loaded, node, source, history>>

\* blockUseSingle throws when no block is free, be it for the entry ...
NoBlock ==
    /\ Saving /\ node[Cur].dirty /\ IsNew /\ free = {}
    /\ pc' = "thrown" /\ todo' = <<>> /\ doomed' = <<>>
    /\ UNCHANGED <<image, source, history>>

\* ... or for a piece: the entry is linked and some pieces are written.
DiskFull ==
    /\ CurDirty /\ CanEnter /\ ~node[Cur].bare
    /\ LET e == Entered
           n == Len(node[Cur].content)
           room == Cardinality(e.free)
           a == Lowest(e.free, room)
           done == {j \in 1 .. n : DataAt(j) <= room}
       IN  /\ Needed(n) > room
           /\ disk' = [b \in Blocks |->
                IF \E j \in done : a[DataAt(j)] = b
                THEN Data(node[Cur].content[CHOOSE j \in done : a[DataAt(j)] = b])
                ELSE e.disk[b]]
           /\ free' = {}
           /\ node' = [node EXCEPT ![Cur].block = e.block,
                ![Cur].content = SubSeq(node[Cur].content, Cardinality(done) + 1, n)]
    /\ pc' = "thrown" /\ todo' = <<>> /\ doomed' = <<>>
    /\ UNCHANGED <<nodes, loaded, diskFree, history>>

\* A file without a content: the program ends on a null buffer.
NoContent ==
    /\ CurDirty /\ CanEnter /\ node[Cur].bare
    /\ disk' = Entered.disk
    /\ free' = Entered.free
    /\ node' = [node EXCEPT ![Cur].block = Entered.block]
    /\ pc' = "crashed" /\ todo' = <<>> /\ doomed' = <<>>
    /\ UNCHANGED <<nodes, loaded, diskFree, history>>

-----------------------------------------------------------------------------
(* filesystemSaveNode: directories *)

CurDir == Saving /\ Cur \in Dirs
GoInto == todo' = Children(Cur) \o Tail(todo)

CleanDirectory ==
    /\ CurDir /\ ~node[Cur].dirty
    /\ GoInto
    /\ UNCHANGED <<image, source, pc, doomed, history>>

SaveDirectory ==
    /\ CurDir /\ node[Cur].dirty /\ CanEnter
    /\ disk' = [Entered.disk EXCEPT ![Entered.block] = Named]
    /\ free' = Entered.free
    /\ node' = [node EXCEPT ![Cur].block = Entered.block, ![Cur].dirty = FALSE]
    /\ GoInto
    /\ UNCHANGED <<nodes, loaded, diskFree, pc, doomed, history>>

\* A directory whose name is there counts as saved, with all that is in it.
DirectoryExists ==
    /\ CurDir /\ node[Cur].dirty /\ IsNew /\ free # {} /\ Exists(Dir, Cur)
    /\ free' = free \ {NewBlock}
    /\ todo' = Tail(todo)
    /\ UNCHANGED <<nodes, loaded, node, source, pc, doomed, history>>

\* (The bitmap is not written.)
SavedBitmapOld == diskFree

\* filesystemBitmapSave
SavedBitmap == free

SaveDone ==
    /\ pc = "save" /\ todo = <<>>
    /\ diskFree' = SavedBitmap
    /\ pc' = IF doomed = <<>> THEN "idle" ELSE "remove"
    /\ UNCHANGED <<image, disk, todo, doomed, history>>

-----------------------------------------------------------------------------
(* sNode::remove, sDirectory::remove and filesystemRemove *)

\* A file leaves its directory.
RemoveFile ==
    /\ pc = "idle" /\ "remove" \in Ops
    /\ \E d \in Open : \E f \in Range(nodes[d]) \cap Files :
          /\ nodes' = [nodes EXCEPT ![d] = RemoveFirst(nodes[d], f)]
          /\ doomed' = <<f>>
    /\ pc' = "remove"
    /\ UNCHANGED <<free, loaded, node, source, todo, history>>

\* A directory is loaded when it was not; its nodes go first, then it goes.
\* Bound: a directory whose save was refused is not removed.
RemoveDirectory ==
    /\ pc = "idle" /\ "remove" \in Ops
    /\ \E x \in Open \cap Dirs :
          /\ node[x].block # 0
          /\ IF loaded[x] THEN UNCHANGED <<nodes, loaded>> ELSE EntriesLoad(x)
          /\ node' = [(IF loaded[x] THEN node ELSE NodesLoaded(x)) EXCEPT ![x].dirty = TRUE]
          /\ doomed' = Append(nodes'[x], x)
    /\ pc' = "remove"
    /\ UNCHANGED <<free, source, todo, history>>

\* The chain from the parent block of the node's entry, up to its name.
Parent(x) == disk[node[x].block].parent
RemoveChain(x) == HashChain(Parent(x), HashOf[node[x].name])
Hit(x) == CHOOSE k \in 1 .. Len(RemoveChain(x)) :
            /\ disk[RemoveChain(x)[k]].name = node[x].name
            /\ \A j \in 1 .. k - 1 : disk[RemoveChain(x)[j]].name # node[x].name
IsFound(x) ==
    /\ node[x].block # 0
    /\ \E b \in Range(RemoveChain(x)) : disk[b].name = node[x].name

\* (Only the first entry of a chain is taken out.)
UnlinkedHead(x) ==
    [disk EXCEPT ![Parent(x)].table[HashOf[node[x].name]] =
        IF Hit(x) = 1 THEN disk[RemoveChain(x)[1]].next ELSE @]

\* The entry is taken out of its table when it is the first of its chain and the
\* node's own, otherwise the block before it links past it.
Unlinked(x) ==
    LET k == Hit(x)
        chain == RemoveChain(x)
        next == disk[chain[k]].next
        h == HashOf[node[x].name]
        before == IF k = 1 THEN Parent(x) ELSE chain[k - 1]
    IN  IF disk[before].table[h] = node[x].block
        THEN [disk EXCEPT ![before].table[h] = next]
        ELSE IF before = RootBlock THEN disk    \* it is written to block 0
        ELSE [disk EXCEPT ![before].next = next]

\* An entry, the blocks its table lists, and a file's extensions with theirs.
BlocksOf(b) ==
    {b} \cup Range(Listed(disk[b].table))
        \cup IF disk[b].kind = "file" THEN Range(Extensions(b)) \cup Range(DataBlocks(b)) ELSE {}

\* An entry that is not found under its node's name stays.
RemoveNode ==
    /\ pc = "remove" /\ doomed # <<>>
    /\ LET x == doomed[1] IN
          /\ IF IsFound(x)
             THEN /\ disk' = Unlinked(x)
                  /\ free' = free \cup BlocksOf(RemoveChain(x)[Hit(x)])
             ELSE UNCHANGED <<disk, free>>
          /\ nodes' = IF x \in Dirs THEN [nodes EXCEPT ![x] = <<>>, ![Root] = RemoveFirst(nodes[Root], x)] ELSE nodes
          /\ loaded' = IF x \in Dirs THEN [loaded EXCEPT ![x] = FALSE] ELSE loaded
          /\ stored' = IF x \in Files THEN [stored EXCEPT ![x] = Gone] ELSE stored
    /\ doomed' = Tail(doomed)
    /\ UNCHANGED <<node, diskFree, version>>
    /\ BeginSave

-----------------------------------------------------------------------------
\* After an exception, or the end of the program.
Stopped ==
    /\ pc \in {"thrown", "crashed"}
    /\ UNCHANGED vars

SaveStep ==
    \/ SkipFile \/ SaveFile \/ FileExists \/ NoBlock \/ DiskFull \/ NoContent
    \/ CleanDirectory \/ SaveDirectory \/ DirectoryExists \/ SaveDone

Next ==
    \/ Format \/ Load \/ OpenDirectory
    \/ AddFile \/ AddDirectory \/ SetContent \/ Rename
    \/ SaveStep
    \/ RemoveFile \/ RemoveDirectory \/ RemoveNode
    \/ Stopped

Spec == Init /\ [][Next]_vars

-----------------------------------------------------------------------------
(* Properties *)

Content == Seq(Files \X Nat \X Nat)
Pointers == Blocks \cup {0}

\* The shapes of adf.hpp:68-190, of the nodes and of the call in progress.
TypeOK ==
    /\ free \subseteq Blocks /\ diskFree \subseteq Blocks
    /\ \A d \in Directories : IsInjective(nodes[d]) /\ Range(nodes[d]) \subseteq Ids
    /\ loaded \in [Directories -> BOOLEAN]
    /\ \A x \in Ids :
          /\ node[x].name \in Names \cup {0} /\ node[x].dirty \in BOOLEAN
          /\ node[x].block \in Pointers
          /\ node[x].content \in Content
    /\ \A b \in Blocks :
          /\ disk[b].kind \in {"blank", "root", "dir", "file", "ext", "data"}
          /\ disk[b].kind \in {"root", "dir", "file", "ext"} => disk[b].table \in [Slots -> Pointers]
          /\ IsEntry(b) => /\ disk[b].next \in Pointers /\ disk[b].parent \in Pointers
                           /\ disk[b].name \in Names
    /\ pc \in {"idle", "save", "remove", "thrown", "crashed"}

\* What can be reached from the root.
TopEntries == Range(EntriesOf(RootBlock))
DirBlocks == {RootBlock} \cup {b \in TopEntries : disk[b].kind = "dir"}
Entries == UNION {Range(EntriesOf(b)) : b \in DirBlocks}
Owned(b) == IF disk[b].kind = "dir" THEN {b} ELSE BlocksOf(b)
InUse == System \cup UNION {Owned(b) : b \in Entries}

\* Whatever is added, changed, renamed or removed, and even when a save gives up
\* or throws, the map in memory never has a block free that can be reached.
MapCovers == pc # "crashed" => free \cap InUse = {}

\* The same of the map on disk, between two calls.
FreeMeansUnused == pc = "idle" => diskFree \cap InUse = {}

\* No block belongs to two entries, or to an entry and the system.  (A call that
\* throws has linked its entry before it wrote the header.)
NoCrossLinks ==
    pc \notin {"thrown", "crashed"} =>
    /\ \A b \in Entries : Owned(b) \cap System = {}
    /\ \A b, c \in Entries : b # c => Owned(b) \cap Owned(c) = {}

\* Every entry hangs in the chain of the hash of its name, in the directory that
\* it names as its parent.
Placed ==
    pc \notin {"thrown", "crashed"} =>
    \A dir \in DirBlocks, h \in Slots : \A b \in Range(HashChain(dir, h)) :
        HashOf[disk[b].name] = h /\ disk[b].parent = dir

\* The files on disk are those that were saved and not removed, and each reads
\* back as it was saved ("Compare content", firy-test.cpp:67).
Readable ==
    pc = "idle" =>
        \A f \in Files :
            LET here == {b \in Entries : disk[b].id = f} IN
            IF stored[f] = Gone THEN here = {}
            ELSE \E b \in here : /\ here = {b}
                                 /\ ReadBack(b) = [j \in 1 .. Len(stored[f]) |-> Data(stored[f][j])]
=============================================================================
