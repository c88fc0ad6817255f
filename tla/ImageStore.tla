----------------------------- MODULE ImageStore -----------------------------
(***************************************************************************)
(* What a source promises to the image above it: one memory that reads and *)
(* writes act on, and a stable copy that only a save moves forward.  There *)
(* is no cache, no dirty flag and no file in this specification;           *)
(* ChunkSource is shown to implement it.                                   *)
(***************************************************************************)
EXTENDS Naturals, Sequences

CONSTANTS ChunkSize, MaxChunks, Byte

VARIABLES
    mem,        \* what a read of each chunk returns
    stable,     \* what a new source of the file would return
    synced      \* the last call was a save, and it returned true

vars == <<mem, stable, synced>>

Chunk == 0 .. MaxChunks - 1
Zeros(n) == [j \in 1 .. n |-> 0]

\* s with the bytes from position k replaced by d, as far as s reaches.
Overlay(s, k, d) ==
    [j \in 1 .. Len(s) |-> IF j \in k + 1 .. k + Len(d) THEN d[j - k] ELSE s[j]]

Init ==
    /\ \E file \in [Chunk -> UNION {[1 .. n -> Byte] : n \in 0 .. ChunkSize}] :
          mem = file /\ stable = file
    /\ synced = FALSE

\* Some bytes of one chunk change, in memory only.
Put ==
    /\ \E i \in Chunk, k \in 0 .. ChunkSize - 1, n \in 1 .. ChunkSize :
          /\ k + n <= Len(mem[i])
          /\ \E d \in [1 .. n -> Byte] : mem' = [mem EXCEPT ![i] = Overlay(@, k, d)]
    /\ synced' = FALSE
    /\ UNCHANGED stable

\* A save carries one chunk over.
Flush ==
    /\ \E i \in Chunk : stable' = [stable EXCEPT ![i] = mem[i]]
    /\ UNCHANGED <<mem, synced>>

\* A save returns true: everything is stable.  A chunk of a new image that
\* nobody ever wrote is not part of the file, and is gone.
Save ==
    /\ \A i \in Chunk : mem[i] \in {stable[i], Zeros(ChunkSize)}
    /\ \A i \in Chunk : mem[i] # stable[i] => stable[i] = <<>>
    /\ mem' = stable
    /\ synced' = TRUE
    /\ UNCHANGED stable

\* Any later call ends the moment of which synced speaks.
Call ==
    /\ synced' = FALSE
    /\ UNCHANGED <<mem, stable>>

\* The process ends, or the source is closed: what was not saved is lost.
Lose ==
    /\ mem' = stable
    /\ synced' = FALSE
    /\ UNCHANGED stable

\* A new image of n bytes takes the place of what the file held.
Blank ==
    /\ \E n \in 1 .. MaxChunks * ChunkSize :
          mem' = [i \in Chunk |->
                    IF i * ChunkSize < n /\ n < (i + 1) * ChunkSize
                    THEN Zeros(n - i * ChunkSize)
                    ELSE Zeros(ChunkSize)]
    /\ synced' = FALSE
    /\ UNCHANGED stable

Next == Put \/ Flush \/ Save \/ Call \/ Lose \/ Blank

Spec == Init /\ [][Next]_vars
=============================================================================
