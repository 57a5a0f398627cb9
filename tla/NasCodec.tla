------------------------------ MODULE NasCodec ------------------------------
(***************************************************************************)
(* The NAS messages of midn-proto/src/nas/codec.rs (protocol "eps") and    *)
(* nas5gs/codec.rs (protocol "5gs"), with their protected envelopes.       *)
(*                                                                         *)
(* A layout is a message type and its parts in order; a message has one    *)
(* value per part.  Each encode_* function writes the parts of its layout  *)
(* and each decode_* function reads them, in that order; an Option is a    *)
(* sequence of at most one value.                                          *)
(***************************************************************************)
EXTENDS NasIe

(* Parts.  All but the packed octets are length-value or type-length-value. *)
Part(kind, arg) == [kind |-> kind, arg |-> arg]

\* One octet of fields, each <<its lowest bit, its width>>.
Packed(fields) == Part("packed", fields)
Algorithms == Part("algorithms", <<>>)
\* Refused unless it has exactly n octets.
Exactly(n) == Part("exactly", n)
\* Read as empty when it is missing or cut off.
Lenient == Part("lenient", 0)
\* Two octets, read as zero when they are missing or cut off.
Capability == Part("capability", 2)
\* n octets, or else read as none; refused when missing.
IfExactly(n) == Part("if exactly", n)
\* Written and never read.
Unread == Part("unread", 0)
MobileImsi == Part("imsi", 8)
MobileIdentity == Part("identity", 0)
TaiList == Part("tais", 6)
\* Skipped by the reader, unless it is cut off.
SkippedTaiList == Part("skipped tais", 5)
AcceptOptions == Part("options", 0)

NasLayout(protocol, name, type, parts) ==
    [protocol |-> protocol, name |-> name, type |-> type, parts |-> parts]

-----------------------------------------------------------------------------
(* nas/codec.rs *)

Ksi == <<4, 3>>

AttachRequest ==
    NasLayout("eps", "AttachRequest", 65, <<Packed(<<<<0, 3>>, Ksi>>), MobileImsi, Lenient>>)
AttachAccept ==
    NasLayout("eps", "AttachAccept", 66,
              <<Packed(<<<<0, 3>>>>), Packed(<<<<0, 8>>>>), SkippedTaiList, AcceptOptions>>)
AttachComplete == NasLayout("eps", "AttachComplete", 67, <<>>)
DetachRequest ==
    NasLayout("eps", "DetachRequest", 69, <<Packed(<<<<0, 3>>, <<3, 1>>, Ksi>>), Unread>>)
DetachAccept == NasLayout("eps", "DetachAccept", 70, <<>>)
AuthenticationRequest ==
    NasLayout("eps", "AuthenticationRequest", 82, <<Packed(<<Ksi>>), Exactly(16), Exactly(16)>>)
AuthenticationResponse == NasLayout("eps", "AuthenticationResponse", 83, <<Exactly(8)>>)
SecurityModeCommand ==
    NasLayout("eps", "SecurityModeCommand", 93, <<Algorithms, Packed(<<Ksi>>), Unread>>)
SecurityModeComplete == NasLayout("eps", "SecurityModeComplete", 94, <<>>)

(* nas5gs/codec.rs *)

RegistrationRequest ==
    NasLayout("5gs", "RegistrationRequest", 65,
              <<Packed(<<<<0, 3>>, Ksi>>), IfExactly(11), Capability>>)
RegistrationAccept ==
    NasLayout("5gs", "RegistrationAccept", 66, <<Packed(<<<<0, 3>>>>), Exactly(11), TaiList>>)
RegistrationComplete == NasLayout("5gs", "RegistrationComplete", 67, <<>>)
RegistrationReject == NasLayout("5gs", "RegistrationReject", 68, <<Packed(<<<<0, 8>>>>)>>)
DeregistrationRequest ==
    NasLayout("5gs", "DeregistrationRequest", 69, <<Packed(<<<<0, 1>>>>)>>)
DeregistrationAccept == NasLayout("5gs", "DeregistrationAccept", 70, <<>>)
AuthenticationRequest5gs ==
    NasLayout("5gs", "AuthenticationRequest", 86, <<Packed(<<Ksi>>), Exactly(16), Exactly(16)>>)
AuthenticationResponse5gs == NasLayout("5gs", "AuthenticationResponse", 87, <<Exactly(16)>>)
AuthenticationReject == NasLayout("5gs", "AuthenticationReject", 88, <<>>)
IdentityRequest == NasLayout("5gs", "IdentityRequest", 91, <<Packed(<<<<0, 4>>>>)>>)
IdentityResponse == NasLayout("5gs", "IdentityResponse", 92, <<MobileIdentity>>)
SecurityModeCommand5gs ==
    NasLayout("5gs", "SecurityModeCommand", 93, <<Packed(<<<<4, 4>>, <<0, 4>>>>), Capability>>)
SecurityModeComplete5gs == NasLayout("5gs", "SecurityModeComplete", 94, <<>>)

NasLayouts ==
    {AttachRequest, AttachAccept, AttachComplete, DetachRequest, DetachAccept,
     AuthenticationRequest, AuthenticationResponse, SecurityModeCommand,
     SecurityModeComplete, RegistrationRequest, RegistrationAccept,
     RegistrationComplete, RegistrationReject, DeregistrationRequest,
     DeregistrationAccept, AuthenticationRequest5gs, AuthenticationResponse5gs,
     AuthenticationReject, IdentityRequest, IdentityResponse,
     SecurityModeCommand5gs, SecurityModeComplete5gs}

-----------------------------------------------------------------------------
(* Identities, tracking areas and the options of AttachAccept *)

IDTYPE_SUCI == 1
IDTYPE_5G_GUTI == 2
IDTYPE_PEI == 3

\* An identity has a type and its octets.  A 5G-GUTI brings its own first octet.
IdentityOctets(id) ==
    IF id.type = IDTYPE_5G_GUTI THEN id.octets ELSE <<id.type>> \o id.octets

\* A SUCI may be followed by more octets; every other type is read as a PEI.
decode_identity(bytes) ==
    CASE bytes = <<>> -> NotFound(<<>>)
      [] bytes # <<>> /\ bytes[1] % 8 = IDTYPE_SUCI ->
            IF Len(bytes) < 16 THEN NotFound(<<>>)
            ELSE Found([type |-> IDTYPE_SUCI, octets |-> SubSeq(bytes, 2, 16)], <<>>)
      [] bytes # <<>> /\ bytes[1] % 8 = IDTYPE_5G_GUTI ->
            IF Len(bytes) # 11 THEN NotFound(<<>>)
            ELSE Found([type |-> IDTYPE_5G_GUTI, octets |-> bytes], <<>>)
      [] OTHER -> Found([type |-> IDTYPE_PEI, octets |-> Tail(bytes)], <<>>)

\* The list's type and count (24 is a multiple of 8: `|' adds up to 8 entries), then
\* the entries.
TaiOctets(tais) ==
    IF tais = <<>> THEN <<>> ELSE <<24 + Len(tais) - 1>> \o FlattenSeq(tais)

\* The count is not read: as many entries as there are whole ones.
TaisOf(bytes, size) ==
    [k \in 1 .. (Len(bytes) - 1) \div size |->
        SubSeq(bytes, size * (k - 1) + 2, size * k + 1)]

IEI_APN == 40
IEI_PDN_ADDR == 41
IEI_GUTI == 80

NoOptions == [guti |-> <<>>, ip |-> <<>>, apn |-> <<>>]

OptionOctets(o) ==
    (IF o.ip = <<>> THEN <<>> ELSE write_tlv(IEI_PDN_ADDR, <<1>> \o o.ip[1]))
        \o (IF o.apn = <<>> THEN <<>> ELSE write_tlv(IEI_APN, o.apn[1]))

\* from_utf8, for the octets of this model: seven bits are text.
Text(octets) == IF \A i \in DOMAIN octets : octets[i] < 128 THEN <<octets>> ELSE <<>>

\* One element of the loop of decode_attach_accept: the unknown ones and those of the
\* wrong size are passed over, a later one replaces an earlier one.
WithOption(o, iei, val) ==
    CASE iei = IEI_GUTI /\ Len(val) = 10 -> [o EXCEPT !.guti = <<val>>]
      [] iei = IEI_PDN_ADDR /\ Len(val) >= 5 /\ val[1] = 1 ->
            [o EXCEPT !.ip = <<SubSeq(val, 2, 5)>>]
      [] iei = IEI_APN -> [o EXCEPT !.apn = Text(val)]
      [] OTHER -> o

\* The loop reads until an element does not fit into what is left.
RECURSIVE decode_options(_, _)
decode_options(o, buf) ==
    LET r == read_tlv(buf)
    IN  IF r.ok THEN decode_options(WithOption(o, buf[1], r.val), r.rest) ELSE o

-----------------------------------------------------------------------------
(* Writing and reading one part *)

WritePart(p, v) ==
    CASE p.kind = "packed" ->
            <<FoldLeft(LAMBDA sum, i : sum + (v[i] % 2^(p.arg[i][2])) * 2^(p.arg[i][1]),
                       0, [i \in DOMAIN v |-> i])>>
      [] p.kind = "algorithms" -> <<encode_security_algorithms(v[1], v[2])>>
      [] p.kind = "imsi" -> write_lv(encode_imsi(v))
      [] p.kind = "identity" -> write_lv(IdentityOctets(v))
      [] p.kind \in {"tais", "skipped tais"} -> write_lv(TaiOctets(v))
      [] p.kind = "options" -> OptionOctets(v)
      [] OTHER -> write_lv(v)

ReadPart(p, buf) ==
    LET lv == read_lv(buf)
    IN
    CASE p.kind \in {"packed", "algorithms"} /\ buf = <<>> -> NotFound(buf)
      [] p.kind = "packed" /\ buf # <<>> ->
            Found([i \in DOMAIN p.arg |-> (buf[1] \div 2^(p.arg[i][1])) % 2^(p.arg[i][2])],
                  Tail(buf))
      [] p.kind = "algorithms" /\ buf # <<>> ->
            Found(decode_security_algorithms(buf[1]), Tail(buf))
      [] p.kind = "exactly" -> [lv EXCEPT !.ok = @ /\ Len(lv.val) = p.arg]
      [] p.kind = "if exactly" -> [lv EXCEPT !.val = IF Len(@) = p.arg THEN @ ELSE <<>>]
      [] p.kind = "imsi" -> [lv EXCEPT !.val = IF lv.ok THEN decode_imsi(@) ELSE @]
      [] p.kind = "identity" -> IF lv.ok THEN decode_identity(lv.val) ELSE lv
      [] p.kind = "tais" -> [lv EXCEPT !.val = TaisOf(@, p.arg)]
      [] p.kind = "skipped tais" -> Found(<<>>, lv.rest)
      [] p.kind = "lenient" -> Found(lv.val, lv.rest)
      [] p.kind = "capability" ->
            Found(IF Len(lv.val) >= 2 THEN SubSeq(lv.val, 1, 2) ELSE <<0, 0>>, lv.rest)
      [] p.kind = "options" -> Found(decode_options(NoOptions, buf), <<>>)
      [] p.kind = "unread" -> Found(<<>>, buf)

ReadParts(parts, buf) ==
    LET step(acc, p) ==
            LET r == ReadPart(p, acc.rest)
            IN  [ok |-> acc.ok /\ r.ok, val |-> Append(acc.val, r.val), rest |-> r.rest]
    IN  FoldLeft(step, Found(<<>>, buf), parts)

\* What the decoder returns of a message.
Carried(l, ies) ==
    [i \in DOMAIN ies |-> IF l.parts[i].kind \in {"unread", "skipped tais"} THEN <<>> ELSE ies[i]]

-----------------------------------------------------------------------------
(* Plain messages and protected envelopes *)

NAS_EPS_MM_PD == 7
NAS5GS_MM_EPD == 126

header(protocol, sht) ==
    IF protocol = "eps" THEN <<sht * 16 + NAS_EPS_MM_PD>> ELSE <<NAS5GS_MM_EPD, sht>>

HeaderLen(protocol) == Len(header(protocol, 0))

Sht(protocol, buf) == IF protocol = "eps" THEN buf[1] \div 16 ELSE buf[2] % 16

Discriminated(protocol, buf) ==
    IF protocol = "eps" THEN buf[1] % 16 = NAS_EPS_MM_PD ELSE buf[1] = NAS5GS_MM_EPD

encode_nas(l, ies) ==
    header(l.protocol, 0) \o <<l.type>>
        \o FlattenSeq([i \in DOMAIN ies |-> WritePart(l.parts[i], ies[i])])

NasError(protocol) == [protocol |-> protocol, name |-> "error", ies |-> <<>>]

\* decode_nas and decode_nas5gs.
decode_nas(protocol, buf) ==
    LET h == HeaderLen(protocol)
        chosen == {l \in NasLayouts : l.protocol = protocol /\ l.type = buf[h + 1]}
        l == CHOOSE c \in chosen : TRUE
        r == ReadParts(l.parts, SubSeq(buf, h + 2, Len(buf)))
    IN  IF /\ Len(buf) >= h + 1
           /\ Discriminated(protocol, buf)
           /\ Sht(protocol, buf) = 0
           /\ chosen # {}
           /\ r.ok
        THEN [protocol |-> protocol, name |-> l.name, ies |-> r.val]
        ELSE NasError(protocol)

\* The envelope: header, MAC of four octets, sequence octet, payload.
encode_protected(protocol, sht, mac, seq, payload) ==
    header(protocol, sht) \o mac \o <<seq>> \o payload

\* The payload; MAC and sequence octet are the subject of module NasSecurity.  The
\* discriminator of an EPS envelope is not looked at.
decode_protected(protocol, buf) ==
    LET h == HeaderLen(protocol)
    IN  IF /\ Len(buf) >= h + 5
           /\ protocol = "5gs" => Discriminated(protocol, buf)
           /\ Sht(protocol, buf) # 0
        THEN Found(SubSeq(buf, h + 6, Len(buf)), <<>>)
        ELSE NotFound(buf)
=============================================================================
