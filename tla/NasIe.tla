------------------------------- MODULE NasIe -------------------------------
(***************************************************************************)
(* The information-element helpers of midn-proto/src/nas/ie.rs, which both *)
(* NAS codecs are built from.  An octet is a number, a buffer a sequence   *)
(* of octets.  A read returns whether it succeeded, the value and what is  *)
(* left of the buffer.                                                     *)
(***************************************************************************)
EXTENDS Integers, SequencesExt

Found(val, rest) == [ok |-> TRUE, val |-> val, rest |-> rest]
NotFound(buf) == [ok |-> FALSE, val |-> <<>>, rest |-> buf]

-----------------------------------------------------------------------------
(* Length-value and type-length-value *)

\* The length is cast to one octet: 256 octets are announced as none.
write_lv(value) == <<Len(value) % 256>> \o value

\* Mutant of read_lv: the length is not checked against what is left.
ReadLvUnchecked(buf) ==
    IF buf = <<>> THEN NotFound(buf)
    ELSE Found(SubSeq(buf, 2, IF buf[1] + 1 <= Len(buf) THEN buf[1] + 1 ELSE Len(buf)),
               SubSeq(buf, buf[1] + 2, Len(buf)))

read_lv(buf) ==
    IF buf # <<>> /\ Len(buf) >= 1 + buf[1]
    THEN Found(SubSeq(buf, 2, buf[1] + 1), SubSeq(buf, buf[1] + 2, Len(buf)))
    ELSE NotFound(buf)

write_tlv(iei, value) == <<iei>> \o write_lv(value)

\* The type is the buffer's first octet.
read_tlv(buf) == IF Len(buf) < 2 THEN NotFound(buf) ELSE read_lv(Tail(buf))

-----------------------------------------------------------------------------
(* BCD mobile identity *)

NoIdentity == <<>>
IDENTITY_IMSI == 1

\* An IMSI is its 15 decimal digits; a shorter number has leading zeros.
Padded(digits) == [i \in 1 .. 15 - Len(digits) |-> 0] \o digits

\* 15 digits are an odd number, so that the filler nibble is never written.
encode_imsi(imsi) ==
    <<imsi[1] * 16 + 8 + IDENTITY_IMSI>>
        \o [k \in 1 .. 7 |-> imsi[2 * k + 1] * 16 + imsi[2 * k]]

\* A high nibble 15 is left out wherever it stands, a low one only at the end of
\* an even number of digits.
decode_imsi(bytes) ==
    LET low(b)  == b % 16
        high(b) == b \div 16
        unpack(acc, b) == IF high(b) = 15 THEN Append(acc, low(b))
                                          ELSE acc \o <<low(b), high(b)>>
        all == FoldLeft(unpack, <<high(bytes[1])>>, Tail(bytes))
        digits == IF low(bytes[1]) < 8 /\ Last(all) = 15 THEN Front(all) ELSE all
    IN  IF /\ bytes # <<>>
           /\ bytes[1] % 8 = IDENTITY_IMSI
           /\ Len(digits) <= 15
           /\ \A i \in DOMAIN digits : digits[i] <= 9
        THEN Padded(digits)
        ELSE NoIdentity

-----------------------------------------------------------------------------
(* Selected algorithms *)

encode_security_algorithms(eea, eia) == eea * 16 + eia

\* What is not one of the algorithms 1 to 3 is read as the null algorithm.
decode_security_algorithms(byte) ==
    LET known(a) == IF a \in 1 .. 3 THEN a ELSE 0
    IN  <<known(byte \div 16), known(byte % 16)>>
=============================================================================
