---------------------------- MODULE MCBitsMedium -----------------------------
(***************************************************************************)
(* Bitmaps for TLC.                                                        *)
(***************************************************************************)
EXTENDS BitsMedium

CONSTANTS MaxBits, MaxLength

Ranges == [bits : 0 .. MaxBits, skip : BOOLEAN, offset : 0 .. MaxBits \div BitsPerByte, length : 1 .. MaxLength]

LastOne(m) == m.bits \div BitsPerByte - m.offset

\* The ones end in the range and do not fill a chunk, the range is one chunk.
InOneChunk ==
    {m \in Ranges : /\ LastOne(m) \in 0 .. m.length - 1 /\ m.length <= ChunkSize
                    /\ m.skip => m.offset = 0}

\* The node map of a tree: the whole record is written, in chunks.
NodeMaps == {m \in Ranges : ~m.skip /\ m.offset = 0 /\ LastOne(m) < m.length}

\* The allocation file: one extent with all the ones.
AllocationFiles == {m \in Ranges : m.skip /\ m.offset = 0 /\ LastOne(m) < m.length}
==============================================================================
