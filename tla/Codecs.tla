------------------------------- MODULE Codecs -------------------------------
(***************************************************************************)
(* A sender encodes a message of one of the protocols, a receiver decodes  *)
(* what arrived: S1AP and NGAP (PduCodec), NAS of both generations, plain  *)
(* or in a protected envelope (NasCodec), and GTP-U (GtpCodec).            *)
(***************************************************************************)
EXTENDS PduCodec, NasCodec, GtpCodec

CONSTANTS
    Contents(_),    \* the values that senders fill a layout of S1AP or NGAP with
    NasContents(_), \* ... or a layout of NAS
    Packets,        \* the G-PDUs that senders build
    None

VARIABLES
    msg,    \* the message to send
    wire,   \* its bits or octets, <<>> until it is encoded
    out     \* what the receiver decoded, None until then

codecVars == <<msg, wire, out>>

NasProtocol == {"eps", "5gs"}
PerProtocol == {"s1ap", "ngap"}

\* 0 is a plain message; what protection does to the payload of the others is the
\* subject of module NasSecurity.
SecurityHeaderType == 0 .. 4

NasMessage(l, sht, ies) ==
    [protocol |-> l.protocol, name |-> l.name, sht |-> sht, ies |-> ies]

LayoutOf(m) ==
    CHOOSE l \in (IF m.protocol \in NasProtocol THEN NasLayouts ELSE Layouts) :
        l.protocol = m.protocol /\ l.name = m.name

EncodeNas(m) ==
    LET plain == encode_nas(LayoutOf(m), m.ies)
    IN  IF m.sht = 0 THEN plain
        ELSE encode_protected(m.protocol, m.sht, <<1, 2, 3, 4>>, 255, plain)

EncodeGtp(m) ==
    IF m.flags = 0 THEN new_gpdu(m.teid, m.payload)
                   ELSE peer_gpdu(m.flags, m.teid, m.exts, m.payload)

Encode(m) ==
    CASE m.protocol \in PerProtocol -> EncodePdu(LayoutOf(m), m.ies)
      [] m.protocol \in NasProtocol -> EncodeNas(m)
      [] m.protocol = "gtp" -> EncodeGtp(m)

\* handle_uplink_nas and the UEs: the security header type decides which decoder sees
\* the octets first.
DecodeNas(protocol, buf) ==
    LET plain == Len(buf) < HeaderLen(protocol) \/ Sht(protocol, buf) = 0
        inner == IF plain THEN Found(buf, <<>>) ELSE decode_protected(protocol, buf)
    IN  IF inner.ok THEN decode_nas(protocol, inner.val) ELSE NasError(protocol)

Decode(protocol, data) ==
    CASE protocol \in PerProtocol -> DecodePdu(protocol, data)
      [] protocol \in NasProtocol -> DecodeNas(protocol, data)
      [] protocol = "gtp" -> parse(data)

-----------------------------------------------------------------------------
CodecInit ==
    /\ \/ \E l \in Layouts : \E ies \in Contents(l) : msg = MessageOf(l, ies)
       \/ \E l \in NasLayouts, sht \in SecurityHeaderType : \E ies \in NasContents(l) :
              msg = NasMessage(l, sht, ies)
       \/ msg \in Packets
    /\ wire = <<>>
    /\ out = None

Send ==
    /\ wire = <<>>
    /\ wire' = Encode(msg)
    /\ UNCHANGED <<msg, out>>

Receive ==
    /\ wire # <<>>
    /\ out = None
    /\ out' = Decode(msg.protocol, wire)
    /\ UNCHANGED <<msg, wire>>

CodecNext == Send \/ Receive

CodecSpec == CodecInit /\ [][CodecNext]_codecVars

-----------------------------------------------------------------------------
(* Properties *)

\* What the receiver decodes is the message the sender encoded, for every kind of
\* message: the encode and decode functions agree on positions although write_octets
\* does not align and read_octets does, on the octets that several fields share, on
\* what belongs to the envelope and what to the message, and on where the extension
\* headers of a G-PDU end.
RoundTrip ==
    out # None =>
        CASE msg.protocol \in PerProtocol -> out.name = msg.name /\ out.ies = msg.ies
          [] msg.protocol \in NasProtocol ->
                out.name = msg.name /\ out.ies = Carried(LayoutOf(msg), msg.ies)
          [] msg.protocol = "gtp" ->
                out.ok /\ out.teid = msg.teid /\ out.payload = msg.payload

\* No S1AP or NGAP message decodes from a part of its octets: decode_pdu_wrapper's
\* length covers the whole container, so no element is lost in silence.
NoPartialDecode ==
    msg.protocol \in PerProtocol =>
        \A n \in 0 .. (Len(wire) \div 8) - 1 :
            DecodePdu(msg.protocol, SubSeq(wire, 1, 8 * n)).name = "error"

\* What a part is read as when it is absent.
AbsentPart(p) ==
    CASE p.kind = "capability" -> <<0, 0>>
      [] p.kind = "options" -> NoOptions
      [] OTHER -> <<>>

\* Each option is the one that was sent or none.
SomeOptions(d, sent) ==
    /\ d.guti \in {<<>>, sent.guti}
    /\ d.ip \in {<<>>, sent.ip}
    /\ d.apn \in {<<>>, sent.apn}

\* The one place where the octets of a part can pass for another: decode_attach_accept
\* does not refuse a tracking area list that was cut off, it goes on as if there were
\* none.  From 7 areas on what is left is long enough to hold an optional part, and
\* the length of 8 areas is IEI_PDN_ADDR itself.  The core sends an empty list (mme/attach.rs).
MissesList(m, n) ==
    /\ m.name = "AttachAccept"
    /\ Len(m.ies[3]) >= 7
    /\ n < 4 + Len(WritePart(SkippedTaiList, m.ies[3]))

\* A plain NAS message that was cut short is refused, or read as the same message with
\* optional parts absent: no part is read from the octets of another, although the NAS
\* decoders, unlike those of S1AP, go on when an optional part does not fit.  The
\* options of an AttachAccept cut within a long list of tracking areas are excepted.
NothingForged ==
    msg.protocol \in NasProtocol /\ wire # <<>> /\ msg.sht = 0 =>
        \A n \in 0 .. Len(wire) - 1 :
            LET d == DecodeNas(msg.protocol, SubSeq(wire, 1, n))
                l == LayoutOf(msg)
                sent == Carried(l, msg.ies)
            IN  \/ d.name = "error"
                \/ /\ d.name = msg.name
                   /\ \A i \in DOMAIN sent :
                         IF l.parts[i].kind = "options"
                         THEN MissesList(msg, n) \/ SomeOptions(d.ies[i], sent[i])
                         ELSE d.ies[i] \in {sent[i], AbsentPart(l.parts[i])}

\* The uplink XDP program sends on the octets that GtpuParser would have handed to the
\* forwarder, as long as there are no extension headers: those it does not strip.
FastPathStrips ==
    msg.protocol = "gtp" /\ wire # <<>> /\ msg.exts = <<>> =>
        XdpStrip(wire) = parse(wire).payload
=============================================================================
