------------------------------- MODULE MCD64 -------------------------------
(* Small disks for TLC: two tracks, the second one with the directory. *)
EXTENDS D64

\* Two sectors and four: map at <<2, 0>>, directory at <<2, 1>>, no room to
\* extend it.
Small == <<2, 4>>

\* Room for one extension of the directory, three sectors after its first; with
\* the map in two sectors, too few sectors for two files of two pieces.
Tight == <<1, 5>>

\* Too few sectors for two files of two pieces, and no room for an extension.
Smallest == <<1, 4>>

\* More room, and the directory can be extended once.
Extensible == <<2, 5>>

Dir == <<2, 1>>
Map == {<<2, 0>>}
Maps == {<<2, 0>>, <<2, 3>>}
Header == <<2, 0>>

\* A D81 has its header in a sector of its own, before the map.
HeaderApart == <<2, 2>>

Symmetry == Permutations(Files)
=============================================================================
