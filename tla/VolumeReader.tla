---------------------------- MODULE VolumeReader -----------------------------
(***************************************************************************)
(* What any reader of a burnt volume does, and what it should find.        *)
(***************************************************************************)
EXTENDS Geometry

\* What the mapped device, or the copied file, reads from which medium.
Span(start, len, med, off) == [start |-> start, len |-> len, med |-> med, off |-> off]

Spans ==
    IF mapped
    THEN {Span(t.start * Sector, t.len * Sector, t.med, t.off * Sector) : t \in ToSet(table)}
    ELSE {Span(Offset(SubSeq(out, 1, i - 1)), out[i].len, out[i].med, out[i].off) : i \in DOMAIN out}

\* The byte at an offset of the volume; nothing is read past its end.
ByteAt(spans, x) ==
    LET holding == {s \in spans : s.start <= x /\ x < s.start + s.len}
        s == CHOOSE s \in holding : TRUE
    IN  IF holding = {} THEN <<Zero, -1>> ELSE SourceByte(s.med, s.off + x - s.start)

\* A span of a medium is in the volume as it is, at the offset.
HoldsAt(spans, x, med, off, len) ==
    \E s \in spans :
        /\ s.med = med /\ s.start <= x /\ x + len <= s.start + s.len
        /\ s.off + x - s.start = off

\* The bytes of the files as the source device has them.
Content(f) ==
    FlattenSeq([i \in DOMAIN tree[f] |->
                   [b \in 1 .. tree[f][i].len |-> SourceByte(tree[f][i].med, tree[f][i].off + b - 1)]])

Source == [f \in Files |-> Content(f)]
==============================================================================
