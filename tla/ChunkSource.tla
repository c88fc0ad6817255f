---------------------------- MODULE ChunkSource ----------------------------
(***************************************************************************)
(* A source: the chunk cache of sources::cInterface and cFile over a file  *)
(* (src/source/sources/source.cpp, sourcefile.cpp), with the file access   *)
(* of cResources below it (resources.cpp).                                 *)
(*                                                                         *)
(* The recursive mutex mAccess is held for the whole of every call, so     *)
(* calls do not interleave; a transfer or a save is still a loop, taken    *)
(* one chunk at a time here, that may stop half way: the loop gives up,    *)
(* FileWrite fails, or the process dies.  A file is a function from chunk  *)
(* numbers to what it holds there, an empty sequence past its end; an      *)
(* offset is a chunk number and a position in the chunk.                   *)
(***************************************************************************)
EXTENDS Naturals, FiniteSets, Sequences, SequencesExt

CONSTANTS
    ChunkSize,  \* mSourceChunkSize
    MaxChunks,  \* bound: chunks of the largest file or image
    MaxData,    \* bound: bytes read or written by one call
    Byte,       \* bytes, 0 among them
    Faults      \* what the run allows beyond the library's own use, see below

(* "silent": the write to an open file fails (a full disk), unnoticed.       *)
(* "copy":   save() is given the name of another file.                       *)
(* "shrink": an image is created over a file that is larger than it.         *)
(* "stray":  an image being created is accessed past its end, or closed.     *)
ASSUME SizeAssumption ==
    ChunkSize \in Nat \ {0} /\ MaxChunks \in Nat \ {0} /\ MaxData \in Nat \ {0}
ASSUME ByteAssumption == 0 \in Byte
ASSUME FaultsAssumption == Faults \subseteq {"silent", "copy", "shrink", "stray"}

VARIABLES
    disk,       \* contents of the source's own file
    copy,       \* contents of another file, the target of a save under a new name
    chunks,     \* mBuffers: chunk number -> data and dirty flag, a partial function
    size,       \* mSourceSize
    creating,   \* mCreating
    call,       \* the call in progress
    saved       \* history: the file the last call saved to, "no" when it did not

vars == <<disk, copy, chunks, size, creating, call, saved>>

Chunk == 0 .. MaxChunks - 1
Data == UNION {[1 .. n -> Byte] : n \in 0 .. ChunkSize}
File == [Chunk -> Data]
Zeros(n) == [j \in 1 .. n |-> 0]
Least(S) == CHOOSE i \in S : \A j \in S : i <= j
Dirty == {i \in DOMAIN chunks : chunks[i].dirty}

\* Length of a file, and what a file of n bytes b holds in each chunk.
FileSize(file) ==
    IF \A i \in Chunk : file[i] = <<>> THEN 0
    ELSE LET last == CHOOSE i \in Chunk : file[i] # <<>> /\ \A j \in Chunk : j > i => file[j] = <<>>
         IN  last * ChunkSize + Len(file[last])
Extent(i, n) == IF n <= i * ChunkSize THEN 0
                ELSE IF n >= (i + 1) * ChunkSize THEN ChunkSize ELSE n - i * ChunkSize
Filled(n, b) == [i \in Chunk |-> [j \in 1 .. Extent(i, n) |-> b]]

Idle == [op |-> "idle"]

-----------------------------------------------------------------------------
(* cResources *)

\* (The dirty flag that resize() has set is not taken back.)
FileReadDirty(i) == [data |-> disk[i], dirty |-> TRUE]

\* The file's bytes, clean; no bytes past its end.
FileRead(i) == [data |-> disk[i], dirty |-> FALSE]

\* (The file is opened truncating.)
FileWriteTruncates(file, i, data) ==
    [j \in Chunk |-> IF j = i THEN data ELSE IF j < i THEN Zeros(ChunkSize) ELSE <<>>]

\* data lands at the start of chunk i: longer contents keep their tail, and a
\* gap below is filled with zeros.
FileWrite(file, i, data) ==
    [j \in Chunk |->
        CASE j = i -> data \o SubSeq(file[j], Len(data) + 1, Len(file[j]))
          [] j < i -> file[j] \o Zeros(ChunkSize - Len(file[j]))
          [] j > i -> file[j]]

-----------------------------------------------------------------------------
(* Creating and opening *)

Init ==
    /\ \E n \in 0 .. MaxChunks * ChunkSize, b \in Byte : disk = Filled(n, b)
    /\ copy = Filled(0, 0)
    /\ chunks = <<>>
    /\ size = FileSize(disk)
    /\ creating = FALSE
    /\ call = Idle
    /\ saved = "no"

\* The process ends, perhaps in the middle of a call, and the file is opened by
\* a new one.
Reopen ==
    /\ chunks' = <<>>
    /\ size' = FileSize(disk)
    /\ creating' = FALSE
    /\ call' = Idle
    /\ saved' = "no"
    /\ UNCHANGED <<disk, copy>>

\* A new source of the path is created, and sized by chunkPrepare before
\* anything else is done to it: every chunk is zeros, dirty, the last one short.
Create ==
    /\ call = Idle
    /\ \E n \in 1 .. MaxChunks * ChunkSize :
          /\ n >= FileSize(disk) \/ "shrink" \in Faults
          /\ size' = n
          /\ chunks' = [i \in {c \in Chunk : c * ChunkSize < n} |->
                          [data |-> Zeros(Extent(i, n)), dirty |-> TRUE]]
    /\ creating' = TRUE
    /\ saved' = "no"
    /\ UNCHANGED <<disk, copy, call>>

\* close()
Close ==
    /\ call = Idle
    /\ creating => "stray" \in Faults
    /\ chunks' = <<>>
    /\ saved' = "no"
    /\ UNCHANGED <<disk, copy, size, creating, call>>

-----------------------------------------------------------------------------
(* chunkCopyToPtr, chunkCopyFromPtr and chunkCopyFromBuffer *)

\* chunk(): the cached chunk, or the file's, or one of zeros past the end of an
\* image being created; otherwise no data, which is a null chunk.
Loaded(i) ==
    IF i \in DOMAIN chunks THEN chunks[i]
    ELSE IF disk[i] = <<>> /\ creating
         THEN [data |-> Zeros(ChunkSize), dirty |-> TRUE]
         ELSE FileRead(i)

\* A read (of as many bytes as data has) or a write begins.
Transfer ==
    /\ call = Idle
    /\ \E op \in {"read", "write"}, i \in Chunk, k \in 0 .. ChunkSize - 1, n \in 1 .. MaxData :
          /\ i * ChunkSize + k + n <= IF creating /\ "stray" \notin Faults
                                      THEN size ELSE MaxChunks * ChunkSize
          /\ \E d \in IF op = "read" THEN {Zeros(n)} ELSE [1 .. n -> Byte \ {0}] :
                call' = [op |-> op, i |-> i, k |-> k, data |-> d]
    /\ saved' = "no"
    /\ UNCHANGED <<disk, copy, chunks, size, creating>>

\* (The piece is not cut at the end of the chunk.)
FitsAlways(data, room) == Len(data)

\* The bytes that fit in the chunk.
Fits(data, room) == IF Len(data) < room THEN Len(data) ELSE room

\* Where the loop goes on after n bytes.
Rest(i, k, n) ==
    IF n = Len(call.data) THEN Idle
    ELSE [call EXCEPT !.data = SubSeq(@, n + 1, Len(@)),
                      !.i = IF k + n = ChunkSize THEN i + 1 ELSE i,
                      !.k = IF k + n = ChunkSize THEN 0 ELSE k + n]
Keep(i, chunk) == [j \in DOMAIN chunks \cup {i} |-> IF j = i THEN chunk ELSE chunks[j]]

\* One round of the loop; cBuffer::write sets the dirty flag of the chunk.
Piece ==
    /\ call.op \in {"read", "write"}
    /\ Len(Loaded(call.i).data) > call.k
    /\ LET i == call.i
           k == call.k
           c == Loaded(i)
           n == Fits(call.data, Len(c.data) - k)
           d == SubSeq(c.data, 1, k) \o SubSeq(call.data, 1, n)
                    \o SubSeq(c.data, k + n + 1, Len(c.data))
       IN  /\ chunks' = Keep(i, IF call.op = "read" THEN c ELSE [data |-> d, dirty |-> TRUE])
           /\ call' = Rest(i, k, n)
    /\ UNCHANGED <<disk, copy, size, creating, saved>>

\* The chunk is null, or ends before the offset: a short count, or false, with
\* what was transferred before left in place.
Short ==
    /\ call.op \in {"read", "write"}
    /\ Len(Loaded(call.i).data) <= call.k
    /\ chunks' = IF Loaded(call.i).data = <<>> THEN chunks ELSE Keep(call.i, Loaded(call.i))
    /\ call' = Idle
    /\ UNCHANGED <<disk, copy, size, creating, saved>>

-----------------------------------------------------------------------------
(* save *)

\* save(), or save() under the name of another file.
Save ==
    /\ call = Idle
    /\ \E to \in {"own"} \cup ({"copy"} \cap Faults) :
          call' = [op |-> "save", to |-> to, old |-> disk]
    /\ saved' = "no"
    /\ UNCHANGED <<disk, copy, chunks, size, creating>>

\* (The last dirty chunk goes first.)
NextToSaveLast == CHOOSE i \in Dirty : \A j \in Dirty : i >= j

\* mBuffers is walked in the order of the chunk numbers.
NextToSave == Least(Dirty)

\* FileWrite of one dirty chunk.  It clears the dirty flag of the buffer it is
\* given whatever file it writes to, and whether or not the bytes got there.
SaveChunk ==
    /\ call.op = "save"
    /\ Dirty # {}
    /\ LET i == NextToSave
           d == chunks[i].data
       IN  /\ chunks' = [chunks EXCEPT ![i].dirty = FALSE]
           /\ \/ /\ call.to = "own"
                 /\ disk' = FileWrite(disk, i, d)
                 /\ UNCHANGED copy
              \/ /\ call.to = "copy"
                 /\ copy' = FileWrite(copy, i, d)
                 /\ UNCHANGED disk
              \/ /\ "silent" \in Faults
                 /\ UNCHANGED <<disk, copy>>
    /\ UNCHANGED <<size, creating, call, saved>>

\* (The flags are cleared before the file is known to open.)
SaveFailsClean ==
    /\ call.op = "save"
    /\ Dirty # {}
    /\ chunks' = [chunks EXCEPT ![NextToSave].dirty = FALSE]
    /\ call' = Idle
    /\ UNCHANGED <<disk, copy, size, creating, saved>>

\* The file cannot be opened: save() returns false, and this chunk and those
\* after it stay dirty, for a later save to retry.
SaveFails ==
    /\ call.op = "save"
    /\ Dirty # {}
    /\ call' = Idle
    /\ UNCHANGED <<disk, copy, chunks, size, creating, saved>>

\* save() returns true; only a save to the source's own file ends the creation.
SaveDone ==
    /\ call.op = "save"
    /\ Dirty = {}
    /\ creating' = (creating /\ call.to # "own")
    /\ call' = Idle
    /\ saved' = call.to
    /\ UNCHANGED <<disk, copy, chunks, size>>

-----------------------------------------------------------------------------
Next ==
    \/ Reopen \/ Create \/ Close
    \/ Transfer \/ Piece \/ Short
    \/ Save \/ SaveChunk \/ SaveFails \/ SaveDone

Spec == Init /\ [][Next]_vars

-----------------------------------------------------------------------------
(* Properties *)

Call == [op : {"read", "write"}, i : 0 .. MaxChunks, k : 0 .. ChunkSize - 1,
         data : UNION {[1 .. n -> Byte] : n \in 1 .. MaxData}]
        \cup [op : {"save"}, to : {"own", "copy"}, old : File]
        \cup {Idle}

\* The shapes of source.hpp:69-74.
TypeOK ==
    /\ disk \in File
    /\ copy \in File
    /\ DOMAIN chunks \subseteq Chunk
    /\ \A i \in DOMAIN chunks : chunks[i] \in [data : Data \ {<<>>}, dirty : BOOLEAN]
    /\ size \in 0 .. MaxChunks * ChunkSize
    /\ creating \in BOOLEAN
    /\ call \in Call
    /\ saved \in {"no", "own", "copy"}

\* A chunk that is not dirty can be dropped: its bytes are in the source's file.
\* (hasDirtyBuffers, source.cpp:213-221, on which cImage decides whether there
\* is anything to save.)
CleanAgrees ==
    \A i \in DOMAIN chunks : ~chunks[i].dirty => IsPrefix(chunks[i].data, disk[i])

\* After a save that returned true the file holds all that the source reads
\* ("Save changes back to source", access.hpp:45).
SaveIsDurable ==
    saved = "own" => \A i \in Chunk : IsPrefix(Loaded(i).data, disk[i])

\* After a save to a new file that returned true, that file holds all that the
\* source reads ("Total new file?", sourcefile.cpp:71).
CopyIsComplete ==
    saved = "copy" => \A i \in Chunk : IsPrefix(Loaded(i).data, copy[i])

\* A save that dies half way leaves the new bytes below some chunk and the old
\* file from there on, never a hole between two chunks that were saved.
TornSave ==
    call.op = "save" /\ call.to = "own" =>
        \E cut \in 0 .. MaxChunks :
            /\ \A i \in Chunk : i < cut => IsPrefix(Loaded(i).data, disk[i])
            /\ \A i \in Chunk : i >= cut => disk[i] = call.old[i]

\* Reading fills the cache and nothing else: it leaves nothing for a save to do.
ReadsAreClean == [][call.op = "read" => Dirty' \subseteq Dirty]_vars

\* The image above sees one memory, which only a save makes stable.
Store == INSTANCE ImageStore WITH
    mem <- [i \in Chunk |-> Loaded(i).data],
    stable <- disk,
    synced <- saved = "own"
ImplementsStore == Store!Spec
=============================================================================
