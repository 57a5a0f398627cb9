-------------------------------- MODULE Per --------------------------------
(***************************************************************************)
(* ALIGNED PER primitives (midn-proto/src/per.rs).                         *)
(*                                                                         *)
(* Bits are BOOLEANs in a sequence, octets are groups of eight.  A number  *)
(* is the set of the positions of its one bits, so that the 32 and 42 bit  *)
(* ranges of the code keep their width.  A constrained range is given by   *)
(* bits_for_range of it, the only thing about it that writer and reader    *)
(* use.  A reader is a record: the data, a position, whether every read so *)
(* far succeeded (each failing read returns None through `?'), and the     *)
(* value of the last read.                                                 *)
(***************************************************************************)
EXTENDS Integers, SequencesExt

Number(n) == {i \in 0 .. 13 : (n \div 2^i) % 2 = 1}
Natural(v) == FoldSet(LAMBDA i, sum : sum + 2^i, 0, v)
Padding(position) == (8 - (position % 8)) % 8
RoundUp(width) == 8 * ((width + 7) \div 8)

-----------------------------------------------------------------------------
(* The writer: each operator returns the bits written so far. *)

write_bits(w, v, width) == w \o [i \in 1 .. width |-> width - i \in v]

align(w) == w \o [i \in 1 .. Padding(Len(w)) |-> FALSE]

\* write_octets leaves the alignment to its caller.
write_octets(w, octets) == w \o octets

\* A range of at most 256 takes its bits as they come, a larger one whole octets.
write_constrained_int(w, v, width) ==
    IF width <= 8 THEN write_bits(w, v, width)
                  ELSE write_bits(align(w), v, RoundUp(width))

write_length_determinant(w, len) ==
    IF len < 128 THEN write_bits(Append(align(w), FALSE), Number(len), 7)
                 ELSE write_bits(align(w) \o <<TRUE, FALSE>>, Number(len), 14)

write_octet_string(w, octets) ==
    write_octets(write_length_determinant(w, Len(octets) \div 8), octets)

-----------------------------------------------------------------------------
(* The reader. *)

PerReader(data) == [data |-> data, pos |-> 0, ok |-> TRUE, val |-> <<>>]

\* Mutant of read_bits: bits past the end read as they come.
ReadShort(r, width) ==
    [r EXCEPT !.pos = @ + width,
              !.val = [i \in 1 .. width |->
                          r.pos + i <= Len(r.data) /\ r.data[r.pos + i]]]

read_bits(r, width) ==
    IF r.ok /\ r.pos + width <= Len(r.data)
    THEN [r EXCEPT !.pos = @ + width, !.val = SubSeq(r.data, r.pos + 1, r.pos + width)]
    ELSE [r EXCEPT !.ok = FALSE, !.val = <<>>]

AlignReader(r) == [r EXCEPT !.pos = @ + Padding(@)]

\* The last read's bits as a number.
AsNumber(r) ==
    [r EXCEPT !.val = {i \in 0 .. Len(@) - 1 : r.val[Len(r.val) - i]}]

\* The upper bound is not checked: any value of that many bits is accepted.
read_constrained_int(r, width) ==
    AsNumber(IF width <= 8 THEN read_bits(r, width)
                           ELSE read_bits(AlignReader(r), RoundUp(width)))

\* The form that starts with two one bits is refused.
read_length_determinant(r) ==
    LET first  == read_bits(AlignReader(r), 1)
        second == read_bits(first, 1)
    IN  IF ~first.ok THEN first
        ELSE IF ~first.val[1] THEN AsNumber(read_bits(first, 7))
        ELSE IF ~second.ok \/ second.val[1] THEN [second EXCEPT !.ok = FALSE]
        ELSE AsNumber(read_bits(second, 14))

\* read_octets aligns, unlike write_octets.
read_octets(r, n) == read_bits(AlignReader(r), 8 * n)

read_octet_string(r) ==
    LET len == read_length_determinant(r)
    IN  IF len.ok THEN read_octets(len, Natural(len.val)) ELSE len
=============================================================================
