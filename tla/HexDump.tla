-------------------------------- MODULE HexDump --------------------------------
(***************************************************************************)
(* The loops that print a packet's bytes in hexadecimal: dump_hex_compact  *)
(* and dump_hex of mote-gateway/hard/myutils.c, and the same loop within   *)
(* _dump of pktdump.c.  Their counters are bytes, while lengths are not.   *)
(***************************************************************************)
EXTENDS Naturals, Sequences

CONSTANTS
    ByteSize,   \* values of an uint8_t (256)
    PerRow      \* PER_ROW, bytes on a row of dump_hex (16)

ASSUME HexAssumption ==
    /\ PerRow \in Nat \ {0} /\ ByteSize \in Nat \ {0}
    /\ ByteSize % PerRow = 0

\* Faulty variant: the last byte of a length of ByteSize - 1 is included.
MoreBytesInclusive(p, size) == p <= size

\* The loop's test and its increment.
MoreBytes(p, size) == p < size
NextByte(p) == (p + 1) % ByteSize

\* dump_hex: where it is in its rows, and the indexes it has read.
HexStart == [row |-> 0, col |-> 0, offset |-> 0, read |-> <<>>, done |-> FALSE]

\* Faulty variant: offset does not move on with the last byte of a row.
HexStepPerRow(s, size) ==
    IF s.done \/ s.offset >= size \/ s.row > size \div PerRow
    THEN [s EXCEPT !.done = TRUE]
    ELSE [s EXCEPT !.read = Append(@, s.row * PerRow + s.col),
                   !.col = (@ + 1) % PerRow,
                   !.row = IF s.col = PerRow - 1 THEN NextByte(@) ELSE @,
                   !.offset = IF s.col = PerRow - 1 THEN @ ELSE NextByte(@)]

\* A byte is printed unless the offset has reached the length; past the last
\* byte of a row comes the next row, if the outer loop's test holds.
HexStep(s, size) ==
    IF s.done \/ s.offset >= size \/ s.row > size \div PerRow
    THEN [s EXCEPT !.done = TRUE]
    ELSE [s EXCEPT !.read = Append(@, s.row * PerRow + s.col),
                   !.col = (@ + 1) % PerRow,
                   !.row = IF s.col = PerRow - 1 THEN NextByte(@) ELSE @,
                   !.offset = NextByte(@)]

\* dump_hex after steps steps.
HexRun(size, steps) ==
    LET run[k \in 0 .. steps] ==
            IF k = 0 THEN HexStart ELSE HexStep(run[k - 1], size)
    IN  run[steps]
=============================================================================
