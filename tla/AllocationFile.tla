--------------------------- MODULE AllocationFile ----------------------------
(***************************************************************************)
(* The sizes in masterComplete of impl/hfplus.cpp that depend on each      *)
(* other: the allocation file has a bit for each block of the volume it is *)
(* itself a part of.                                                       *)
(***************************************************************************)
EXTENDS BitCounts

\* Mutant of the definition below: the blocks of the bitmap are not counted.
EstimateBare(off, blk) == off \div blk + 2

\* The bits reserved before the bitmap is placed behind off bytes.
Estimate(off, blk) == (off * BitsPerByte) \div (blk * BitsPerByte - 1) + 2

\* The length of its extent, in whole blocks.
BitmapLen(bits, blk) == RoundedUp(ByteCount(bits), blk)

\* The blocks of the volume that ends after the block curb, with the copy of
\* the header in coblocks more.
TotalBlocks(curb, bits, coblocks) == IF curb <= bits THEN curb + coblocks ELSE bits
==============================================================================
