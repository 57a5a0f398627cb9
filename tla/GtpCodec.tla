------------------------------ MODULE GtpCodec ------------------------------
(***************************************************************************)
(* GTP-U packets: GtpuHeader and GtpuParser (midn-proto/src/gtp), and what *)
(* the uplink XDP program strips of them (midn-userplane-ebpf).            *)
(*                                                                         *)
(* A packet has a message type, a TEID of four octets, flags, the optional *)
(* fields, a sequence of extension headers and a payload.  The code only   *)
(* builds packets without optional fields; a radio node may send the rest. *)
(***************************************************************************)
EXTENDS Integers, SequencesExt

MSG_GPDU == 255
FLAGS_STANDARD == 48
\* The flags E, S and PN are the three lowest bits.
HasOptional(flags) == flags % 8 # 0

to_be_bytes(n) == <<n \div 256, n % 256>>

\* GtpuHeader::to_bytes: the length is that of what follows the eight octets.
to_bytes(flags, type, len, teid) == <<flags, type>> \o to_be_bytes(len) \o teid

new_gpdu(teid, payload) == to_bytes(FLAGS_STANDARD, MSG_GPDU, Len(payload), teid) \o payload

\* A radio node's packet (3GPP TS 29.281): an extension header of `units' times four
\* octets starts with its length and ends with the type of the next one.
ExtensionOctets(units, next) == <<units>> \o [i \in 1 .. 4 * units - 2 |-> 170] \o <<next>>

peer_gpdu(flags, teid, exts, payload) ==
    LET next(k) == IF k < Len(exts) THEN 133 ELSE 0
        rest == <<0, 1, 0, next(0)>>
                    \o FlattenSeq([k \in DOMAIN exts |-> ExtensionOctets(exts[k], next(k))])
                    \o payload
    IN  to_bytes(FLAGS_STANDARD + flags, MSG_GPDU, Len(rest), teid) \o rest

-----------------------------------------------------------------------------
NoPacket == [ok |-> FALSE, type |-> 0, teid |-> <<>>, payload |-> <<>>]
Packet(buf, payload) ==
    [ok |-> TRUE, type |-> buf[2], teid |-> SubSeq(buf, 5, 8), payload |-> payload]

From(buf, n) == SubSeq(buf, n, Len(buf))

\* The loop over extension headers: a length of zero or beyond the end is refused.
RECURSIVE skip_ext_headers(_)
skip_ext_headers(buf) ==
    LET total == 4 * buf[1]
    IN  IF buf = <<>> \/ total = 0 \/ Len(buf) < total THEN [ok |-> FALSE, rest |-> <<>>]
        ELSE IF buf[total] = 0 THEN [ok |-> TRUE, rest |-> From(buf, total + 1)]
        ELSE skip_ext_headers(From(buf, total + 1))

\* GtpuParser::parse.  The length field is not looked at: the payload is what the
\* datagram holds.
parse(buf) ==
    LET optional == Len(buf) >= 8 /\ HasOptional(buf[1])
        exts == skip_ext_headers(From(buf, 13))
    IN  CASE Len(buf) < 8 \/ (optional /\ Len(buf) < 12) -> NoPacket
          [] Len(buf) >= 8 /\ ~optional -> Packet(buf, From(buf, 9))
          [] optional /\ Len(buf) >= 12 /\ buf[12] = 0 -> Packet(buf, From(buf, 13))
          [] optional /\ Len(buf) >= 12 /\ buf[12] # 0 ->
                IF exts.ok THEN Packet(buf, exts.rest) ELSE NoPacket

\* Mutant of XdpStrip: optional fields are taken for payload.
XdpStripMandatory(buf) == From(buf, 9)

\* gtp_xdp::process, steps 4 and 7: the mandatory header and, with a flag set, the four
\* octets of optional fields.
XdpStrip(buf) == From(buf, IF HasOptional(buf[1]) THEN 13 ELSE 9)
=============================================================================
