----------------------------- MODULE BitsMedium ------------------------------
(***************************************************************************)
(* A bitmap that is generated while it is written (impl/extent.cpp): the   *)
(* allocation file of HFS+ and the node map of its trees, a run of ones    *)
(* and then zeroes.  One chunk of memory is allocated, filled for each     *)
(* part of the range and written; a part that fill leaves alone goes out   *)
(* with whatever the chunk holds.                                          *)
(*                                                                         *)
(* A byte is "ff", "00", "trail" (the byte with the last ones) or "junk",  *)
(* memory nothing has been written to.                                     *)
(***************************************************************************)
EXTENDS BitCounts, SequencesExt

CONSTANTS
    Bitmaps,     \* [bits, skip, offset, length]: the medium and the range
    ChunkSize    \* BitsMedium::chunkSize

VARIABLES
    map,     \* the medium and the range that is written
    chunk,   \* the chunk
    out      \* the bytes written so far

vars == <<map, chunk, out>>

CountOfFF == map.bits \div BitsPerByte

HasTrailingByte == map.bits % BitsPerByte # 0

Smaller(a, b) == IF a < b THEN a ELSE b

\* Mutant of the definition below: the trailing byte is not counted.
FillUncounted(offset, size) ==
    LET nFill == Smaller(CountOfFF - offset, size)
        filled(i) ==
            CASE i <= nFill -> IF map.skip /\ offset # 0 THEN chunk[i] ELSE "ff"
              [] OTHER      -> "00"
    IN  IF nFill \in 0 .. size - 1
        THEN [i \in DOMAIN chunk |-> IF i <= size THEN filled(i) ELSE chunk[i]]
        ELSE chunk

\* BitsMedium::fill: the first size bytes of the chunk, for the given offset.
Fill(offset, size) ==
    LET nFill == Smaller(CountOfFF - offset, size)
        filled(i) ==
            CASE i <= nFill -> IF map.skip /\ offset # 0 THEN chunk[i] ELSE "ff"
              [] i = nFill + 1 /\ HasTrailingByte -> "trail"
              [] OTHER -> "00"
    IN  IF nFill \in 0 .. size - 1
        THEN [i \in DOMAIN chunk |-> IF i <= size THEN filled(i) ELSE chunk[i]]
        ELSE chunk

Init ==
    /\ map \in Bitmaps
    /\ chunk = [i \in 1 .. ChunkSize |-> "junk"]
    /\ out = <<>>

\* RuleMedium::writeToFd
WriteChunk ==
    LET part == Smaller(map.length - Len(out), ChunkSize)
    IN  /\ part > 0
        /\ chunk' = Fill(map.offset + Len(out), part)
        /\ out' = out \o SubSeq(chunk', 1, part)
        /\ UNCHANGED map

Next == WriteChunk

Spec == Init /\ [][Next]_vars

-----------------------------------------------------------------------------
\* What a reader of the bitmap must find at a byte.
Bit(i) ==
    CASE i < CountOfFF -> "ff"
      [] i = CountOfFF /\ HasTrailingByte -> "trail"
      [] OTHER -> "00"

\* Each byte written is that of a bitmap with exactly the reserved bits set,
\* across the chunks: no memory of an earlier chunk, or of none, goes out.
Ones == \A i \in DOMAIN out : out[i] = Bit(map.offset + i - 1)
==============================================================================
