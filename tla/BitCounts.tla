------------------------------ MODULE BitCounts ------------------------------
(***************************************************************************)
(* The sizes of bitmaps and of what is padded to blocks (impl/extent.h).   *)
(***************************************************************************)
EXTENDS Integers

CONSTANT BitsPerByte     \* 8

ASSUME BitsAssumption == BitsPerByte \in Nat \ {0}

\* Blocks::roundUp
RoundedUp(n, size) == ((n + size - 1) \div size) * size

\* BitsMedium::byteCount
ByteCount(bits) == (bits + BitsPerByte - 1) \div BitsPerByte
==============================================================================
