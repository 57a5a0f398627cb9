------------------------------ MODULE Layouts ------------------------------
(***************************************************************************)
(* What the S1AP and NGAP codecs (midn-proto/src/s1ap/codec.rs and         *)
(* ngap/codec.rs) write into each message, in the order they write it.     *)
(*                                                                         *)
(* A layout is a message's PDU choice, procedure code, criticality and     *)
(* information elements.  An element has an id, a criticality, the types   *)
(* of its fields and its presence: "required", "optional" (an Option) or   *)
(* "list" (left out when empty, and then read back as empty).  The encode  *)
(* and the decode function of one message name the same elements and       *)
(* fields in the code; what differs between the two directions is in the   *)
(* primitives of module Per and in which call sites align.                 *)
(***************************************************************************)
EXTENDS Integers, Sequences

(* Field types. *)
IntOf(width) == [kind |-> "int", size |-> width]
Cause == [kind |-> "cause", size |-> 3]
Octets(n) == [kind |-> "octets", size |-> n]
\* Octets whose call site calls align() before write_octets.
AlignedOctets(n) == [kind |-> "aligned", size |-> n]
OctetString == [kind |-> "string", size |-> 0]

Reject == 0
Ignore == 1

Required(id, crit, fields) ==
    [id |-> id, crit |-> crit, fields |-> fields, presence |-> "required"]
Optional(id, crit, fields) ==
    [id |-> id, crit |-> crit, fields |-> fields, presence |-> "optional"]
ListOf(id, crit, fields) ==
    [id |-> id, crit |-> crit, fields |-> fields, presence |-> "list"]

InitiatingMessage == 0
SuccessfulOutcome == 1

Layout(protocol, name, choice, code, crit, ies) ==
    [protocol |-> protocol, name |-> name, choice |-> choice, code |-> code,
     crit |-> crit, ies |-> ies]

-----------------------------------------------------------------------------
(* S1AP *)

MmeUeS1apId(crit) == Required(0, crit, <<IntOf(32)>>)
EnbUeS1apId(crit) == Required(8, crit, <<IntOf(24)>>)
S1apNasPdu == Required(26, Reject, <<OctetString>>)
Tai == Required(67, Ignore, <<Octets(5)>>)
EutranCgi == Required(100, Ignore, <<Octets(7)>>)

S1apInitialUeMessage ==
    Layout("s1ap", "InitialUeMessage", InitiatingMessage, 12, Ignore,
           <<EnbUeS1apId(Reject), S1apNasPdu, Tai, EutranCgi,
             Required(134, Ignore, <<IntOf(4)>>)>>)

S1apUplinkNasTransport ==
    Layout("s1ap", "UplinkNasTransport", InitiatingMessage, 13, Ignore,
           <<MmeUeS1apId(Reject), EnbUeS1apId(Reject), S1apNasPdu, Tai, EutranCgi>>)

S1apDownlinkNasTransport ==
    Layout("s1ap", "DownlinkNasTransport", InitiatingMessage, 11, Ignore,
           <<MmeUeS1apId(Reject), EnbUeS1apId(Reject), S1apNasPdu>>)

\* Mutant of ErabToSetup: the align() before the octets is forgotten.
ErabUnaligned == <<IntOf(4), IntOf(8), Octets(4), Octets(4)>>

\* erab_id, qci, gtp_teid, transport_layer_addr
ErabToSetup == <<IntOf(4), IntOf(8), AlignedOctets(4), Octets(4)>>

\* e_rab_id, transport_layer_addr, gtp_teid
ErabSetupItem == <<IntOf(4), AlignedOctets(4), Octets(4)>>

ErabIds == <<IntOf(4)>>

S1apInitialContextSetupRequest ==
    Layout("s1ap", "InitialContextSetupRequest", InitiatingMessage, 9, Reject,
           <<MmeUeS1apId(Reject), EnbUeS1apId(Reject),
             Required(66, Reject, <<IntOf(34), IntOf(34)>>),
             Required(73, Reject, <<Octets(32)>>),
             ListOf(24, Reject, ErabToSetup),
             Optional(26, Reject, <<OctetString>>)>>)

S1apInitialContextSetupResponse ==
    Layout("s1ap", "InitialContextSetupResponse", SuccessfulOutcome, 9, Reject,
           <<MmeUeS1apId(Reject), EnbUeS1apId(Reject),
             ListOf(51, Reject, ErabSetupItem), ListOf(48, Ignore, ErabIds)>>)

S1apUeContextReleaseCommand ==
    Layout("s1ap", "UeContextReleaseCommand", InitiatingMessage, 23, Ignore,
           <<MmeUeS1apId(Reject), EnbUeS1apId(Reject), Required(2, Ignore, <<Cause>>)>>)

S1apUeContextReleaseComplete ==
    Layout("s1ap", "UeContextReleaseComplete", SuccessfulOutcome, 23, Ignore,
           <<MmeUeS1apId(Ignore), EnbUeS1apId(Ignore)>>)

-----------------------------------------------------------------------------
(* NGAP *)

AmfUeNgapId(crit) == Required(10, crit, <<IntOf(32)>>)
RanUeNgapId(crit) == Required(85, crit, <<IntOf(32)>>)
NgapNasPdu == Required(38, Reject, <<OctetString>>)

\* nr_cgi and tai in one element
UserLocationInfo == Required(121, Ignore, <<Octets(9), Octets(6)>>)

NgapInitialUeMessage ==
    Layout("ngap", "InitialUeMessage", InitiatingMessage, 15, Ignore,
           <<RanUeNgapId(Reject), NgapNasPdu, UserLocationInfo,
             Required(90, Ignore, <<IntOf(4)>>)>>)

NgapUplinkNasTransport ==
    Layout("ngap", "UplinkNasTransport", InitiatingMessage, 46, Ignore,
           <<AmfUeNgapId(Reject), RanUeNgapId(Reject), NgapNasPdu, UserLocationInfo>>)

NgapDownlinkNasTransport ==
    Layout("ngap", "DownlinkNasTransport", InitiatingMessage, 4, Ignore,
           <<AmfUeNgapId(Reject), RanUeNgapId(Reject), NgapNasPdu>>)

\* pdu_session_id, qfi, gtp_teid, transport_layer_addr
PduSessionToSetup == <<IntOf(8), IntOf(6), AlignedOctets(4), Octets(4)>>

\* pdu_session_id, transport_layer_addr, gtp_teid
PduSessionSetupItem == <<IntOf(8), AlignedOctets(4), Octets(4)>>

PduSessionIds == <<IntOf(8)>>

NgapInitialContextSetupRequest ==
    Layout("ngap", "InitialContextSetupRequest", InitiatingMessage, 14, Reject,
           <<AmfUeNgapId(Reject), RanUeNgapId(Reject),
             Required(94, Reject, <<Octets(32)>>),
             Required(110, Ignore, <<IntOf(42), IntOf(42)>>),
             ListOf(71, Reject, PduSessionToSetup),
             Optional(38, Reject, <<OctetString>>)>>)

NgapInitialContextSetupResponse ==
    Layout("ngap", "InitialContextSetupResponse", SuccessfulOutcome, 14, Reject,
           <<AmfUeNgapId(Reject), RanUeNgapId(Reject),
             ListOf(72, Ignore, PduSessionSetupItem), ListOf(55, Ignore, PduSessionIds)>>)

NgapUeContextReleaseCommand ==
    Layout("ngap", "UeContextReleaseCommand", InitiatingMessage, 41, Ignore,
           <<AmfUeNgapId(Reject), RanUeNgapId(Reject), Required(15, Ignore, <<Cause>>)>>)

NgapUeContextReleaseComplete ==
    Layout("ngap", "UeContextReleaseComplete", SuccessfulOutcome, 41, Ignore,
           <<AmfUeNgapId(Ignore), RanUeNgapId(Ignore)>>)
=============================================================================
