# firy: a verification of its core

firy (`src/source/`) is a C++17 library that opens, changes and creates disk images: Amiga (ADF, FDI, HDF), Commodore (D64, D71, D81), FAT and ISO 9660.
This directory holds TLA+ models of the parts where state, ordering and failure matter, TLC configurations that check them on small instances, and theorems that the TLA+ proof system checks for every instance.

Run TLC with `tlc -config <cfg> <module>` and the prover with `tlapm <module>.tla`; `PROJECT.json` lists the runs and maps every definition to the lines it models.

## 1. The system

```
 client ─► cFiry ──────────► images (cADF, cD64, cFAT, cISO9660) ─► file tree (sDirectory, sFile)
             │                    │ sector/block access
             │ createLocalFile    ▼
             └─ openLocalFile ─► source (cInterface, cFile) ─► chunks (cBuffer) ─► cResources ─► files
```

| Component | State | Operations | What is hard | What makes it correct |
|---|---|---|---|---|
| Open-file cache, `firy.cpp` | two maps of weak pointers: path → source, path → mutex; one cache mutex | `createLocalFile`, `openLocalFile`, `sourcePathLock`, pruning | any thread may call; weak pointers expire at any moment; addresses are reused; path mutexes come and go | calls on a path exclude each other, share one source, hand out the newest, and return |
| `openImage`, `firy.cpp:187-266` | the image object of the format that is tried | recognise and load: D64, ADF, FAT, ISO in this order | a format may recognise an image and still not load it; the test and the load look at different parts of the image | it returns, with a volume the image names, or with none |
| Sources, `sources/` | chunks with dirty flags, size, "creating" | open, create, transfer, save, close | transfers across chunks, short chunks, a save that fails or dies half way, save under another name | image and file agree as a memory with a stable copy; retry completes |
| Local files, `resources.cpp` | – | FileRead, FileWrite, FileSize | failures of open, write and flush | reported to the caller |
| Buffers, `buffer.cpp` | bytes, dirty flag, one mutex each | put, push, get, write, compare | two mutexes at once, nested locking, calls without a lock | what a call does or sees under its guards is one state of the buffers; no deadlock |
| Commodore images, `images/d64.cpp` | availability map, directory, chains, file nodes | recognise, create, load, read, save, remove | order of freeing and taking sectors, full disk, full directory, stale nodes; two layouts of the map written out twice | free means unused, no cross links, files can be read back; a saved map is loaded as it was |
| Amiga images, `images/adf.cpp` | bitmap blocks, hash tables, hash chains, file tables | create, load, read, save, entry create, remove | blocks found by hash chains, allocation in many steps with early returns | as above, and checksums |
| FAT images, `images/fat.cpp` | partition, table, directory sectors | detect, search the partition tables, open, load directories, read; block set/use | partition tables and cluster chains with loops, numbers counted from three different blocks, 12-bit entries, long names in pieces | every search and read ends, the right volume is opened, its table and directories are those on the disk, a sound chain is read whole, a use takes free clusters |
| ISO 9660, `images/iso9660.cpp` | chosen descriptor | detect, read the descriptors, load directories, read | sets of descriptors without end, records that cross a sector or the end of an extent, directories that contain themselves | every walk ends inside the volume, a directory shows what was written into it |
| File tree, `filesystem/` | nodes with weak parents | look up, add, remove, name and content changes | a directory is loaded at its first lookup; `remove` and the image call each other; add saves at once | tree and image agree; nodes that were handed out stay in the tree |
| Access, `access/` | – | offsets of tracks, sectors, blocks | geometry tables | offsets are distinct and inside the image |
| Options, console, helpers | – | reporting | – | – |

Interaction: an image reads and writes its source by sectors or blocks, the source keeps them in chunks (`cBuffer`), and only `filesystemSave` → `sourceSave` → `FileWrite` reaches a file. Two images of one path share one source through the cache of cFiry.

## 2. The modules

| Module | Models | Abstracts |
|---|---|---|
| `SourceCache` | `firy.cpp:51-175`, one action per stretch between two synchronisation points | reference counts become "is some strong pointer to it left"; an address can be reused once neither a strong nor a weak pointer holds it |
| `SourceCache_proof` | theorems about `SourceCache` | |
| `ChunkSource` | `sources/source.cpp`, `sources/sourcefile.cpp`, `resources.cpp:130-275`, one action per chunk of a transfer or of a save | bytes from a small set; offsets as chunk and position |
| `ChunkSource_proof` | theorems about `ChunkSource`, and that it implements `ImageStore` | |
| `ImageStore` | what a source promises: one memory, a stable copy | the abstract specification that `ChunkSource` implements (`ImplementsStore`) |
| `D64Bam` | availability map, geometry | the map's words and bytes become a set of free sectors and a count (mod 256) per track |
| `D64` | `images/d64.cpp:246-896` with the file tree above | content becomes sector-sized pieces, an entry a record, a piece written over a directory sector is seen as unused entries or as junk |
| `D64_proof` | theorems about `D64`: its map, its shapes and its files | |
| `ADF` | `images/adf.cpp:350-1460` with the file tree above | blocks become records of what they link to, a bitmap a set of free blocks, a name one of a small set with its hash |
| `ADF_proof` | theorems about `ADF`: its map, its blocks, its chains and its files | |
| `FatClusters` | the clusters of `images/fat.cpp`: `186-229, 407-434, 635-746` | the table is one function that may hold any of a set of values; a content is the sequence of clusters it comes from |
| `FatClusters_proof` | theorems about `FatClusters` | |
| `ImageSource` | what the steps of `openImage` share: the image and how far the call has got | an image is what reads as a boot record, a directory entry, a descriptor, a record, or a byte of a table, by its place, and zeros elsewhere |
| `D64Layout` | recognition, geometry (`access/tracks.cpp`) and the byte-by-byte map of `images/d64.cpp:64-243, 584-605, 716-840` | nothing: real sizes, offsets and bytes |
| `FatVolume` | `images/fat.cpp:68-589, 773-830`: recognition, partition tables, layout of the volume, its table, directories with long names | names are one token, a long name the sequence of its pieces, a partition type "fat", "extended" or neither |
| `IsoVolume` | `images/iso9660.cpp:86-381`: recognition, descriptors, directories | names after decoding; the multi-byte fields are numbers |
| `OpenImage` | `firy.cpp:187-266` and the lookups of `filesystem/filesystem.cpp:96-115, 185-219`; composes the three above | whether an Amiga image that is recognised can be loaded is left open |
| `OpenImage_proof` | theorems about `OpenImage`: which volume is opened, its map, table and directories, and what lookups keep | |
| `BufferLocks` | locks of `buffer.cpp`, `buffer.hpp`, with `putBuffer` and the getters, which take fewer of them than they read buffers | buffers of two bytes |
| `BufferLocks_proof` | theorems about `BufferLocks` | |
| `Walks_proof` | lemmas on ranks in finite ordered sets, on steps taken n times and on sequences put together, for the images' proofs | |
| `MCD64`, `MCADF`, `MCBufferLocks`, `MCOpenImage` | geometries, pairs and images for TLC | |

State and code: in `SourceCache`, `pathLocks` and `sourceCache` are `mSourcePathLocks` and `mSourceCache`; `lk` and `file` are the locals that hold strong pointers; `pc` names the place between two locks. In `ChunkSource`, `chunks` is `mBuffers`, `creating` and `size` the members of the same names; `call` is what is left of a transfer. In `D64`, `bam` is `mBam`, `nodes`/`node` the root directory and its file objects, `link`/`piece`/`entries`/`diskBam` the bytes of the source seen as links, contents, entries and map. In `ADF`, `free` is `mBitmapBlocks`, `nodes`/`loaded`/`node` are `mNodes`, `mNodesLoaded` and the file and directory objects, `disk`/`diskFree` the blocks of the source; `todo` is the rest of the recursion of `filesystemSaveNode`, `doomed` of `sDirectory::remove`; `version` and `stored` are history. In `FatClusters`, `map` is `mClusterMap`, `at` the cluster a walk is at, `steps` is `traversed`, and `left` first `totalClusters` and then `remainbytes`, in clusters. In `OpenImage`, `pc` says which format is being tried and, in `Returned`, what `openImage` handed out; after "died" there is no process, and no step (which is why `MCOpenImage.cfg` does not check for deadlock); `search` is the locals `extendedPartitions` (those still to follow, by their places in the table), `base`, `current`, `visited` and `fallback` of `cFAT::filesystemLoad`, one step per boot record; `descriptors` is `i`, `pvd` and `svd` of `readVolumeDescriptors`, one step per descriptor; `disk`, `fatVolume` and `isoVolume` are the members of the image that is open; `tree` is `mNodes` of every directory that is loaded, by its path of positions, so that "in the domain of `tree`" is `mNodesLoaded`.

## 3. The runs

| Run | Module, configuration | Checks | States | What it shows |
|---|---|---|---|---|
| `source_cache` | `SourceCache`, `MCSourceCache.cfg` | `TypeOK` `PathExclusion` `ReturnsNewest` `NewestCached` `SourceShared` `CallReturns` | 191 337 | two threads open and create one path twice each, pointers are dropped at every moment: calls exclude each other although their mutex may have been made anew, hand out the newest source, share it, and return |
| `chunk_source` | `ChunkSource`, `MCChunkSource.cfg` | `TypeOK` `CleanAgrees` `SaveIsDurable` `TornSave` `ImplementsStore` `ReadsAreClean` | 819 931 | whatever is read, written, saved, fails half way or dies, the chunks are one memory over a stable copy, and what a failed save leaves dirty is what a retry needs |
| `d64_fresh` | `MCD64`, `MCD64Fresh.cfg` | `FreeMeansUnused` `NoCrossLinks` `Readable` `SlotsDistinct` | 11 599 | files come, grow, shrink, are loaded and read while there is room: the map, the chains and the directory on disk agree and every file reads back |
| `d64_any` | `MCD64`, `MCD64Any.cfg` | `TypeOK` `BamAgrees` `SaveReturns` | 166 979 | with everything a client may do, on a disk that fills and a directory that is extended into sectors in use, the counts still agree with the bits and every save ends |
| `d64_relabel` | `MCD64`, `MCD64Relabel.cfg` | `DirectoryIntact` violated | | a loaded entry is written back at a wrong offset |
| `d64_remove` | `MCD64`, `MCD64Remove.cfg` | `RemoveReturns` violated | | a removal calls itself for ever |
| `adf` | `MCADF`, `MCADF.cfg` | `TypeOK` `MapCovers` `FreeMeansUnused` `Placed` `Readable` | 424 119 | files with an extension, and a directory, under colliding names, changed, renamed within their hash, loaded and removed: the saved bitmap covers all that is reachable, entries hang where name and parent say, and files read back |
| `adf_any` | `MCADF`, `MCADFAny.cfg` | `MapCovers` `NoCrossLinks` | 282 916 | duplicate names, names that change their hash, files without content, contents that just fill a table and longer ones, a full disk, images created anew, but nothing removed: a save may give up anywhere, the bitmap in memory still covers what is reachable and no block is shared |
| `fat_clusters` | `FatClusters`, `MCFatClusters.cfg` | `TypeOK` `ReadWhole` `CountsAgree` `ReadEnds` `UseTakesFree` | 144 270 | over every table of four clusters, the last of which has a number that ends chains: a chain without such a link is read whole and once, every read ends within the size of the disk, the two walks of a read agree, and a use takes free clusters or nothing |
| `open_image` | `MCOpenImage`, `MCOpenImage.cfg` | `TypeOK` `MapSurvives` `OpensNamedVolume` `TableIsRead` `TreeMatchesDisk` `OpenReturns` `KeepsNodes` | 244 875 | images of all formats and of none are opened, looked into and closed: opening returns although partition tables come round again and descriptors have no end, or the process dies of a division by zero, on a boot record with root entries in sectors of no bytes and on no other image; it opens the volume the image names, its table and its directories are those on the disk, lookups keep what was handed out, and a Commodore map is loaded as it was saved |
| `buffer_locks` | `MCBufferLocks`, `MCBufferLocks.cfg` | `CallsAreAtomic` `CallReturns` | 562 888 | two threads call everything but a put past the end; those that lock two buffers do so from chunks to contents only: whatever `putBuffer` and the getters without a lock do meanwhile, a put, a copy, a comparison and a `getString` have made or seen one state of the buffers they locked, and nobody waits for ever |
| `buffer_locks_grow` | `MCBufferLocks`, `MCBufferLocksGrow.cfg` | `CallReturns` violated | | a put past the end of a buffer waits for itself |

### Bounds

| Run | Bounds | Why they are enough |
|---|---|---|
| `source_cache` | 2 threads, 1 path, `MaxCalls = 2`, 3 mutex and 4 source addresses | every race of the code is between a call, another call on the path and a drop; the second call of a thread meets what the first left. Every call can find an address. A second path only adds pruning on its behalf; it multiplies the states by forty and is left to the theorems, which hold for any number of paths |
| `chunk_source` | 2 chunks of 2 bytes, transfers of up to 3 bytes, 3 byte values | a transfer can start and end inside chunks and cross the boundary, the last chunk can be short, and 0 is told from written bytes |
| `d64_fresh` | 2 tracks of 2 and 4 sectors, 2 files, `MaxVersions = 3`, `MaxPieces = 2` | a file can grow and shrink between one sector and a chain, before and after the other; room for both, so that the full-disk paths (below) stay closed |
| `d64_any` | tracks of 1 and 5 sectors, two of them the map, 2 files, directory of 1 entry per sector, `MaxVersions = 2`, `MaxPieces = 3` | the disk fills up, the directory has to be extended and then cannot be, and the extension meets used sectors |
| `adf` | 25 blocks, tables of 2 slots, 2 files, 1 directory, 3 names of which 2 collide, contents of 3 blocks, `MaxChanges = 4` | chains of two entries, removal of the first and of the last, contents that need an extension with its dropped block; 25 blocks hold whatever 4 changes take, so that the disk does not fill |
| `adf_any` | 13 blocks, contents of 0, 2 and 3, `MaxChanges = 3` | the disk fills in the middle of a content and before an entry; 2 fill a table exactly, 3 are one more |
| `fat_clusters` | 4 clusters of 2 blocks, `MaxBlocks = 2`; `EndFrom = 5`: cluster 5 is on the disk, and its number ends chains, as on the largest disks of each type; a table entry is free, any cluster of the disk, 1, an end (7), or past the disk and no end (9) | all 4096 tables, with every circle, cross link, self link and way off the disk, and all chains up to the full disk |
| `open_image` | one image of `Images` at a time. FAT: blocks of 6 bytes, entries of 3, sectors of 6 or 12, 1 or 2 sectors in a cluster, 5, 7 and 9 for the limits 4085, 65525 and 2^28 of the cluster counts, block numbers modulo 32, `Garbage = {0, 3}` for uninitialised members; all roots of four entries of seven kinds, all ways to link four boot records by seven contents under four partition tables, twelve boot records over tables of 12, 16 and 32 bits, and six with sectors of no bytes in a partition that is opened while another one passes the test. ISO: sectors of 8 bytes, records of 2 and a name, 3 descriptors of 64, extents of two sectors. Commodore: real sizes | the sizes only scale: an entry, a record and a boot record stay as they relate to a sector, a FAT12 table still packs two clusters in three bytes and need not be a multiple of three, every type of table occurs, and one more descriptor is on the disk than is read. Four boot records make every circle, tail and self link; four entries every long name of two pieces with another entry in between. Directories contain themselves, and a lookup goes three deep |
| `buffer_locks` | 2 threads, 1 chunk, 2 contents, 2 values; copies from contents to chunks, as the library's are, and comparisons in that order | a copy and a comparison in either position against every other call |

In `D64` and `ADF`, `Ops` names what the client does; the comment above `Clients` says what each word stands for. A word is left out of a run where section 5 shows that the code does not keep the run's properties with it. `ADF` further assumes directories only in the root; an image object that threw is not used again; a directory whose save was refused is neither looked into nor removed; and the field `id` of an entry, which is not on the disk, only links an entry that is loaded again to its history.

Symmetry is used for files (and, in `ADF`, for the two names of one hash) in runs that check invariants only.

### Fairness

`SourceCache`: weak fairness of each thread's next library step. The mutexes are `std::mutex`, which need not be fair, but each thread makes finitely many calls, so a waiting thread cannot be overtaken for ever. `Call` and `Drop` belong to the client and are not fair.
`D64`: weak fairness of the steps of a call that has begun: one thread runs them and nothing else can disable them.
`OpenImage`: weak fairness of the steps inside `openImage`: one thread runs them and nothing else can disable them. `Open`, `Lookup`, `UseMap` and `Close` belong to the client and are not fair.
`BufferLocks`: weak fairness of the steps of a thread that has its locks, strong fairness of taking a lock: a mutex that is free again and again is got in the end. Without that (an unfair mutex and callers without end) no statement about one thread's progress would hold; with it, what is shown is that there is no deadlock.

## 4. The proofs

The proof modules state their theorems about `Spec` without fairness.

**`SourceCache_proof`**, for any sets of threads, paths and addresses and any number of calls; it assumes `NoneAssumption`, `OpsAssumption` and `MaxCallsAssumption` of `SourceCache`.

1. `TypeCorrect`: `TypeOK` is inductive.
2. `Exclusion`: `PathExclusion` is not inductive: two calls contend for the same mutex only if the weak map still leads to the mutex that either of them holds. `LockInv` adds that: a call that points to a mutex points to the one in `pathLocks`, and a call in its guarded part owns that mutex.
3. `CacheLeadsToNewest` and `CallsReturnNewest`: `CacheInv` says that the weak map and the last publication agree on every live source in both directions, `FileInv` when a call's local pointer is set. That a result is still the newest when it is handed out needs exclusion: nobody publishes for the path in between.
4. `OpenShares`: `ShareInv` says that a live source of a path that is only opened is the cached one, unless a call has made it and not yet published it, and that during such a call the path has no other live source. Each step of it cites the earlier invariants.

**`D64_proof`**, for any number of tracks and sectors per track up to what the geometry assumptions of `D64Bam` allow: `MapAgrees`, that the byte counting the free sectors of a track is the number of its set bits, in memory and on disk. The counts are kept modulo 256, and `TrackBound` shows that a track's free sectors fit a byte. `FreeAgrees` and `UseAgrees` are the lemmas on giving back and taking sets of sectors (the cardinality of a track changes by exactly the sectors that were not, or were, free: `TrackParts`), `NewAgrees` the one on a new map; `BamInv` adds the types and the map on disk, and `BamStep` has one step per action.

`ShapesKept` is `TypeOK` for whatever a client does, with a full disk, a full directory or one that runs through content; it assumes `BoundsAssumption`. `ShapeInv` adds the values of the source and of the call in progress, `EntryInv` that a file has at most one entry on the disk and that a node's slot is that entry's place, or none: without it the entry a save writes could be a second one. The walks along the links are recursive functions over the number of sectors; `ChainFound` says that a walk along links that follow a path finds the path, by induction over a set of naturals (`Walks_proof`).

Its second half is about files, for disks of any size and any number of files, under `Uncrowded`: the directory has an entry and the disk has `MaxPieces` sectors for every file, the header sector is one of the map's, and the client adds, changes, loads and reads, but does not rename or remove files, save empty ones, format a disk in use, or change a file it has loaded. Each thing it leaves out is one that the table in section 5 shows to break a property. `FreeIsUnused`, `ChainsAreApart`, `SavedIsReadable` and `PlacesAreApart` are the four properties of `d64_fresh`. They are not inductive one by one, as a save frees and takes sectors in several steps, while the directory still has the old entry. `FilesInv` says that there is a chain for each file and a place for each entry (`own`, `home`) such that the chains share no sector with each other, the map or the directory, the sectors that are not free are theirs, and links, pieces, entries and nodes say so, up to the file that a save is at work on; `SaveOf` says how far that one has got. It has one lemma for each action; `RoomLeft` counts that there is a sector left whenever one is taken.

**`FatClusters_proof`**, for disks of any number of clusters and tables of any values; it assumes `SizesAssumption`, `ValuesAssumption` and `StartsAssumption`. `ReadsAreBounded`: `TypeOK` holds `Len(got) + left` to one cluster more than the disk has. It is not inductive: while the chain is counted, `left` is bounded only by the steps taken, so `WalkInv` adds `left <= steps + 1`, that nothing is copied yet, and that a walk only meets starts and values of the table. `ReadsEnd`: under the same invariant every step of a read lowers `StepsLeft` (`StepGoesDown`), so that no table, however its chains run in circles, makes a read endless. The limit on `traversed` is what both rest on. `WalksAgree`: `TraceInv` says that there is one walk from the start that both passes are at a point of, so that they cannot part. `ChainsAreRead`: `ChainInv` says of every chain the table may have from the start, that the read is at the element of it that its steps count. It assumes nothing about how many clusters there are below the numbers that end chains: `IsChain` says of each link that it is none of those (section 5). `UsesTakeFree`: the clusters a use takes are the least free ones, and `LeastElements` that a set of naturals with n elements has n least ones.

**`BufferLocks_proof`**, for any threads, chunks, contents and values (`ThreadsAssumption`: a thread is none of the markers for "nobody"). `GuardedCallsAreAtomic` is `CallsAreAtomic`. `LockInv` says that the locks a call has are the first ones it wants, nobody else's, and that only a call with all of them goes through bytes; `AtomicInv` that what a call has been through so far is still as it made or saw it, since whoever else writes there needs a lock that the call has. That holds with `putBuffer` as well, which locks what it writes. `WholeWithoutPutBuffer` says more, that a buffer nobody has locked is not half written, and needs the hypothesis that nobody calls `putBuffer`: `WholeInv`, that a buffer is whole unless a call is half way through writing it, holds of a copy only if its source is locked.

**`ChunkSource_proof`**, for chunks, files and transfers of any size; it assumes `SizeAssumption`. `SourceTypes` is `TypeOK` under every fault. `CleanIsSaved`, `SavesLast` and `SavesTearOnce` are `CleanAgrees`, `SaveIsDurable` and `TornSave` under `Reliable`: no write fails unnoticed and no save goes to another name, the two faults of section 5 that break them; saves that fail or die half way are allowed. `SafeInv` says that a save in progress has cleaned all chunks below some chunk and written none above. `ReadsLeaveClean` is `ReadsAreClean` under `Bounded`, that an image being created is accessed within its bounds. `SourceIsStore`: with `Faults = {}`, every step of the source is a step of `ImageStore` or none (`StoreStep`, one lemma for each abstract action), under `Prepared`, that an image being created has its chunks, and `Sized`, that file, chunks and size agree on the last chunk. With a fault the implementation is not the store any more, so that the hypothesis is part of the claim.

**`ADF_proof`**, for images of any geometry, with any files, directories, names and hashes; it assumes `GeometryAssumption`, `HashAssumption`, `SizesAssumption` and `NodesAssumption` (a node is a file or a directory, and the root is neither). `Types`, `MapAlwaysCovers`, `FreeIsUnused`, `NeverCrossLinked` and `AlwaysPlaced` are `TypeOK`, `MapCovers`, `FreeMeansUnused`, `NoCrossLinks` and `Placed` under `Distinct`: the client keeps the names of a directory apart, looks into a directory before it adds to it, and renames within a hash. It may do all else: leave a file without content or empty one, fill the disk in the middle of a content, create the image anew, load it, remove files and directories. The table in section 5 shows what "twin" and "rehash" do to these properties; "blind" breaks only `Readable` there, but it also breaks the invariant below, on which the proof rests. `SavedIsReadable` is `Readable` under `Filling`: `Distinct`, and no file that has a content is given an empty one, which a save would not write ("empty" in the table).

None of the six is inductive. A removal goes down a chain *on disk*, by the name and the block that a node has *in memory*, and frees what it comes to. That this is the node's own entry, and that nobody else has the blocks it lists, is what the invariant `IInv` is about:

- `Tree`: what is on the disk. From each slot of a directory a path leads through entries of that directory and hash to a 0, a file's extensions too; names differ within a directory, and the blocks of two entries are disjoint. `Apart`: none of them is free or the system's.
- `Nesting` and `Holding`: how the nodes agree with the disk. A node with a block has its entry in its directory there; a directory that was looked into has a node for each of its entries, so that a name that is new in memory is new on the disk.
- `Settling`: at most one node differs from its entry, and then a save is coming to it. `Dooming`: what is left of a removal, with the nodes of the directory that have lost their entries already (`Ghosts`).

When `blockUseSingle` has thrown, the invariant only says that nothing is free: the entry that was linked has no header. TLC checked `IInv` on small instances before it was proved. The proof goes up in three layers: sequences and walks (`WalkFound`: the loops along links find the path there is; `ProperAppend`, `ProperWithout`: a link changed at its end or in its middle); the disk alone (`Rewriting`, `Entering`, `Unlinking`: an entry is written over, made, taken out; `PieceOrder` and `WrittenShape`: the blocks of a content, extensions and dropped blocks counted, are all different); and one lemma for each action, the longest ones being those of `OpenDirectory`, `SaveFile` and `RemoveNode`.

`SavedIsReadable` needs beyond `IInv` what each data block holds, and which files have an entry at all: `Faithful` says that each file on the disk is stored and reads back as it was (`OnDiskAsStored`), that each stored file has an entry (`StoredOnDisk`), and that a node keeps what it was given, in its buffer or on the disk (`NodesKeep`). Three facts carry it through the actions. `ReadsStill` and `Relinked`: what is written to blocks that are not a file's, and a new link in a hash chain, do not change what the file reads back as. `BornReads`: the tables and extensions that `Written` makes list the pieces of the content in their order, past the blocks it drops at each full table. `Removes`: a removal takes the entry of its file and no other. `Filling` is needed in one place, `SetContentFaithful`: an empty buffer stands for a content that is on the disk, so that a node that was given nothing would seem to keep it.

**`OpenImage_proof`**, for images of any size with any partition tables, descriptors, tables and directories; it assumes `OpenAssumption`, `ImagesAssumption` (block numbers are below `Width`, a byte is one, and the fields of records are numbers or of their kinds, whatever those say), `FatAssumption` and `IsoAssumption`. All safety properties of the run are theorems.

1. `OpenTypes` is `TypeOK`, `LookupsKeep` is `KeepsNodes`. `TypeInv` adds that a directory that is loaded is one, of a directory that is loaded (`TreeShape`), and that the image stays one: a save of the map changes nothing but the bytes of the table.
2. `NamedVolumeOpens` is `OpensNamedVolume`. `NamedInv` says of each extended partition that is done with that no record on the way from it names a volume, and of the one that is searched that `visited` is closed but for `current`, the next record, which is as many links away as `visited` has records (`Walking`): when the chain ends, all it leads to has been passed. The boot records of an image are finitely many, hence so are the records on the way. Of the descriptors it says that `svd` is the first Joliet one of those read so far and `pvd` the last primary one (`DescriptorsRead`).
3. `SavedMapSurvives` is `MapSurvives`, for the real sizes of all three formats. `MapInv` says that the map of an open image is one that its layout can hold, and that it is the one on the disk when it was saved. The lemmas on the layouts are that the parts of a map leave out the type of DOS, so that the image still opens (`PartsFit`), that each track is in one part and each byte in one at most (`PartsApart`), and that the sectors of the tracks fill the image (`TilesAll`).
4. `TableAsOnDisk` is `TableIsRead`. `Entry12`, `Entry16` and `Entry32` are the arithmetic: the bytes and shifts of the code put together the bits that the definition of a table counts off. `OpenedIsRead` is that a volume that is opened has an entry for each of its clusters and none past the partition, whatever its boot record says; that its data starts at some block is `PlaceIs`, which needs the root area to be counted in sectors that have bytes (`~DividesByZero`). `TableInv` adds that the sizes of an open volume are numbers (`SizesKnown`), and rests on `NamedInv`, by which a search only goes to block numbers.
5. `TreeAsOnDisk` is `TreeMatchesDisk`. `TreeInv` says of each directory in the tree that its nodes are those that loading it alone would give (`Loaded`), so that the order of lookups does not matter, and that an ISO directory has an extent. The rest is about one load. `SoundIsShown`, for FAT: after n entries the nodes are those of the n entries, and what waits is the pieces of the long name that is not complete yet (`LoadedTo`, `EntryShown`). `WrittenIsShown`, for ISO: after n rounds so many records are loaded, and the next one is ahead in this sector or at the start of the next (`ScannedTo`, `RoundShown`); as each record lies past the one before (`PlacesOfRecords`, `PlacesGrow`) and each round gets further, the rounds that the size of the directory allows are enough. `IsSound` and `IsWritten` are hypotheses of the property itself: section 5 says what other directories show. A record of a file in several extents is no part of what `IsWritten` calls written by the rules.

These definitions are recursive over data. They are written as recursive functions of a number, or as folds; `Iterates`, `StepsInOrder` and `FlatSteps` of `Walks_proof` say that such a function exists, with induction over sets of naturals, and what it takes to go from n to n + 1.

Only model-checked: the liveness properties (`CallReturns`, `SaveReturns`, `OpenReturns`), since the provers know no fairness and no ENABLED, though for reads of FAT `ReadsEnd` shows the measure that goes down; and `MapCovers` and `NoCrossLinks` of `ADF` in `adf_any`, for clients that are not `Distinct` but remove nothing: `IInv` finds the entry of a node by its name and hash, which then says nothing, so that the proof takes another invariant.

## 5. Disagreements with the code's own words

Three runs expect a violation, and TLC's trace shows each: a loaded entry is written back at a wrong offset (`d64_relabel`), a removal never returns (`d64_remove`), and a put past the end of a buffer waits for itself (`buffer_locks_grow`).

The same models show further ones. None has a run of its own; with `MCD64`, `SPECIFICATION Spec`, `TrackCount = 2` and `DirStart <- Dir`, TLC finds each in seconds:

| Property | Constants | What happens |
|---|---|---|
| `FreeMeansUnused` | `Smallest`, `Map`, `Header`, 1 file, `EntryCount = 2`, `MaxVersions = 2`, `MaxPieces = 4`, add/content/load | content that does not fit: the old chain is freed, the entry on disk still names it (`d64.cpp:469-482`) |
| `FreeMeansUnused` | `Extensible`, `Map`, `Header`, 2 files, 1, 1, 1, add | the directory is extended to a sector that stays free (`d64.cpp:425-434`) |
| `FreeMeansUnused` | `Small`, `Map`, `Header`, 3 files, 2, 2, 2, add/content | the directory is full: the save returns before the map is written, chains before it have moved (`d64.cpp:457-460`) |
| `Readable` | `Small`, `Map`, `HeaderApart`, 2 files, 2, 1, 2, add/load | the header sector of a D81 is never marked, a file takes it (`d64.cpp:114, 273-276`) |
| `Readable` | `Small`, `Map`, `Header`, 1 file, 2, 1, 1, add/rename | a saved file is renamed: it has no content in memory, and its chain and entry go (`d64.cpp:505-512`) |
| `Readable` | `Small`, `Map`, `Header`, 1 file, 2, 2, 2, add/load/recontent | a loaded file of two sectors gets new content of two sectors: only the first is written (`d64.cpp:468-488`) |
| `SlotsDistinct` | `Smallest`, `Map`, `Header`, 2 files, 2, 1, 4, add | on a full disk a file gets a slot, its content does not fit and its entry is not written; the next file takes the slot too (`d64.cpp:456-482`) |
| `SlotsDistinct` | `Small`, `Map`, `Header`, 2 files, 2, 1, 1, add/empty | an empty file's entry looks unused, the next file takes it too (`d64.cpp:413, 856-860`) |
| `CreatedEmpty` | `Small`, `Map`, `Header`, 1 file, 2, 1, 1, add/format | a filesystem created over an image in use keeps the old directory (`d64.cpp:248-279`) |

And with `ChunkSource`: `Faults = {"copy"}` violates `CopyIsComplete` (`sourcefile.cpp:71`: a save under a new name writes the dirty chunks only). `Faults = {"silent"}` violates `SaveIsDurable` and `CleanAgrees` (`resources.cpp:208-213`: a write that fails is not noticed). `Faults = {"stray"}` violates `ReadsAreClean` (a read past the end of an image being created leaves a dirty chunk behind). `Faults = {"shrink"}` violates `ImplementsStore` (`resources.cpp:195`: a save opens the file as it is and never cuts it, so that an image created over a larger file keeps that file's end), and none of the others.

With `MCBufferLocks` and the constants of `MCBufferLocks.cfg`: `Untorn`, that a buffer nobody has locked is whole, is violated in eight states. `putBuffer` reads the other buffer's size and bytes under its own lock only (`buffer.cpp:257-263`), and leaves behind what another thread's put was half way through; no line of the repository says whose lock guards the bytes that are copied. `getByte`, `getWord` and `getDWord` (`buffer.cpp:91-135`) take no lock, and may return such bytes; neither `CallsAreAtomic` nor `Untorn` says anything of what they see. `CallReturns` is violated when `Compared` holds a pair of buffers in both orders, or if contents were copied from chunks as well: `write`, `pushBuffer` and `operator==` lock this buffer and then the other one (`buffer.cpp:196, 276, 291`), and two threads in opposite directions wait for each other. The library itself copies in one direction only, which is what the run is bounded to; a client may do otherwise.

With `MCADF`, the constants of `MCADF.cfg`, `Sizes = {1}` and `MaxChanges = 3`, TLC finds each of these:

| Property | `Ops` | What happens |
|---|---|---|
| `Placed` | add/rename/rehash | a renamed entry stays in the chain of its old hash (`adf.cpp:604-618`: only a new entry is linked) |
| `Readable` | add/rename/rehash/remove | and is then looked for in the chain of the new one: the removal succeeds and the file stays (`adf.cpp:986-992`) |
| `MapCovers` | add/twin/rename/rehash/remove | or another entry of that name is found: its blocks are freed, it stays linked, and the write that should unlink it goes to block 0, as the root's `headerKey` is 0 (`adf.cpp:1017-1034`) |
| `MapCovers` | add/mkdir/twin/remove (4 files, `LastBlock = 18`, `RootBlock = 2`, `MaxChanges = 5`) | a duplicate name in the root ends the save inside the removal of a directory: the node that was removed from the disk stays in the tree, a new file takes its name and its block in the hash table, and removing the node again frees the new file, which stays reachable (`filesystem.cpp:131-138`, `adf.cpp:609-612`) |
| `FreeMeansUnused` | add/twin/content | a name that exists ends the save with an error, and again every later save: the bitmap is never written any more (`adf.cpp:609-612`) |
| `Readable` | add/content/empty (`Sizes = {0, 1}`) | an empty content is not saved, the old one stays (`adf.cpp:619-624`) |
| `Readable` | add/mkdir/blind/load/remove (`MaxChanges = 4`) | a file added to a directory that was not loaded makes it count as loaded; removing the directory leaves behind what was in it (`filesystem.cpp:154-159`) |

Modelled and forbidden by no property: blocks lost by saving a file again (`adf.cpp:622`), by a duplicate name (`adf.cpp:609, 645`) and one at every full table (`adf.cpp:560`); a directory whose name exists counts as saved (`adf.cpp:645`); a file that never got a content ends the program after its entry was linked (`adf.cpp:619`); a full disk throws out of the save (`blocks.cpp:35-41`), with the entry linked and its header not written: where the block held an older header, that one is reachable, and may share blocks with a file (found with 3 files, `LastBlock = 8`, `RootBlock = 2`, `TableSize = 3`, `Sizes = {1, 2, 3}`, `MaxChanges = 7`, add/content/remove), which is why `NoCrossLinks` and `Placed` speak of calls that have not thrown.

A comment in the ISO reader says that files of several extents are skipped (`iso9660.cpp:333-337`); the code skips associated files only, and lists such a file once for each extent, which is what `IsListed` says and TLC's images have. Whether the comment or the code is meant is open, and `TreeMatchesDisk` does not say what a directory with such a file shows, but that its nodes are on the volume.

`OpenImage` shows what else holds, or does not, of images as they are; no line of the repository promises otherwise, so none of these is a run:

- FAT, where the volume is. `mClustersTotal` subtracts `mBlockData`, which counts from the start of the image, from `blockCount()`, which counts from the start of the partition (`fat.cpp:347`): a partition further in has clusters that are not counted, a type that is too small, or, when the difference wraps, is not opened. Block numbers of partitions are multiplied by the volume's bytes per sector, also where that is not 512. A boot record with sectors in its table and no root entries leaves `mBlockData` and `mClusterRoot` uninitialised (`fat.cpp:330-337`); `Garbage` stands for what they hold.
- FAT, the test and the load. `imageTest` accepts an image for any valid boot record in its table (`fat.cpp:140-160`), `filesystemLoad` opens the active or first partition without looking whether that is the valid one; an image with logical partitions only is not recognised; a logical partition goes before a primary one that is not active.
- FAT, division by zero. `partitionOpen` divides by `blockSize()`, which is the number of bytes per sector of the boot record it has just read (`fat.cpp:335, 624-630`). `imageTest` refuses a record in which that is 0, but need not have looked at this one: the process dies. `OpenReturns` holds that this is the only way in which an opening does not return.
- FAT, the ends of chains. `fatSectorNext` takes the values from 0xFF0, 0xFFF0 and 0x0FFFFFF0 on for ends of a chain (`fat.cpp:194-196`), but `partitionOpen` allows FAT12 up to 4084 clusters, FAT16 up to 65524 and FAT32 up to 268435455 (`fat.cpp:348-353`), whose last clusters have numbers up to 0xFF5, 0xFFF5 and 0x10000000. On a FAT12 disk of 4079 to 4084 clusters, a FAT16 disk of 65519 to 65524 or a FAT32 disk of 268435439 or more, a sound file with a cluster of such a number after the first is cut before it. `ReadWhole` leaves these chains out (`IsChain`); the other properties of `fat_clusters` hold with them.
- FAT, directories. Names whose first byte is above 0x80 are passed over (`fat.cpp:463`), and a volume label leaves pieces of a long name waiting (`fat.cpp:549-551`): both give their long name to the next entry, which is why `TreeMatchesDisk` asks for sound directories. The comparison of the pieces is no strict order: the last piece, which carries a flag beside its number, is less than itself and than a piece of its number (`fat.cpp:559-562`).
- ISO. A Joliet volume whose root cannot be read is not replaced by the primary one; a volume of 0 sectors makes every extent unreadable, and the fallback at `iso9660.cpp:134-135` is never reached.
- Tree. Adding to or removing from a FAT or ISO image changes the tree in memory although the image refuses to save (`filesystem.cpp:63-69, 120`), and `sDirectory::remove` does not end on a directory that contains itself.
- Commodore. An image of the right size whose type of DOS is unknown goes on to the other formats; the run has such images, with an ISO volume set in them.

## 6. What is not modelled, and the plan

Not modelled: dates, comments and other attributes; the loading of Amiga images byte by byte, with checksums, boot blocks, directory caches and bitmaps of several blocks (`adf.cpp:301-346, 1412-1610`); the decoding of names in FAT and ISO; the copying of an ISO file, which is one extent (`cISO9660::filesystemRead`); changes to the tree of FAT and ISO images, which cannot be saved; `filesystemChainLoad` and `filesystemBitmapSave` of FAT, which nothing calls; the data blocks of OFS (`adf.cpp:536-555`): `Written` models FFS, OFS takes its blocks in the same order and is read through the same tables, and the number and the link to the next block that it writes into each of them are left out, of which the link at the end of a full table leads to the block that is dropped (`adf.cpp:545, 560`), so that `filesystemReadOFS`, which follows these links and which nothing calls, would leave the file there; loading an Amiga image as part of `openImage`, which is one step that opens, refuses or throws (`TryADF`): that it returns is not shown; calls of a buffer that change its size, but for the locks of `grow`; options, console and string helpers.

Order of the work, most important behaviour first:

1. *(done)* the open-file cache and its proof; the sources and their abstract store; D64 with its map and the proof of the map; buffers; ADF; the cluster chains of FAT and their proof.
2. *(done)* `openImage` over `D64Layout`, `FatVolume` and `IsoVolume`: recognition, partition tables, descriptors, tables, maps, directories and lookups.
3. *(done)* Proofs about the buffers, the sources with their refinement, the cluster walks of FAT, the map, shapes and files of D64, the map, blocks, chains and files of ADF, and all safety properties of `openImage` and the lookups.
4. `MapCovers` of ADF for clients that are not `Distinct` but remove nothing.
5. A composition of an image's save with `ChunkSource`: `filesystemSave` drops the result of `sourceSave` (`image.cpp:52-61`).
6. The directory caches and bitmap extensions of large Amiga disks.
