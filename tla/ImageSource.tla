---------------------------- MODULE ImageSource ----------------------------
(* What the steps of cFiry::openImage (src/source/firy.cpp) share: the image  *)
(* they look at and how far the call has got.                                 *)
EXTENDS Integers, Sequences, FiniteSets, SequencesExt, TLC

VARIABLES
    source,     \* the bytes of the image, as the formats read them
    pc          \* the call of openImage in progress

\* Where a call may be; "null" and "open..." are what it returned, and after "died"
\* there is no process any more.
Stages == {"closed", "d64", "adf", "fatTest", "fat", "fatExtended", "isoTest", "iso"}
Returned == {"null", "openD64", "openFat", "openIso", "openOther"}

ASSUME StagesAssumption == Stages \cap Returned = {} /\ "died" \notin Stages \cup Returned

\* A range of bytes can be copied; nothing always can.
InSource(first, bytes) == bytes = 0 \/ first + bytes <= source.bytes

\* A byte of the source; zeros but for the maps in source.table.
Byte(p) == IF p \in DOMAIN source.table THEN source.table[p] ELSE 0

\* The members of a set of numbers, in their order.
InOrder(S) ==
    [k \in 1 .. Cardinality(S) |-> CHOOSE i \in S : Cardinality({j \in S : j < i}) = k - 1]
=============================================================================
