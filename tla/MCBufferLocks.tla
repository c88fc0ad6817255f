--------------------------- MODULE MCBufferLocks ---------------------------
(* Pairs of buffers for TLC to compare. *)
EXTENDS BufferLocks

\* Comparisons in the order in which the library copies.
InOrder == Chunks \X Contents
=============================================================================
