------------------------------ MODULE PduCodec ------------------------------
(***************************************************************************)
(* encode_s1ap_pdu / decode_s1ap_pdu and encode_ngap_pdu / decode_ngap_pdu *)
(* over the layouts of module Layouts.                                     *)
(*                                                                         *)
(* A message is a layout's protocol and name with one value per element: a *)
(* tuple of field values, or a sequence of such tuples for a list.  An     *)
(* absent Option and an empty list are the empty sequence.                 *)
(***************************************************************************)
EXTENDS Per, Layouts

Layouts ==
    {S1apInitialUeMessage, S1apUplinkNasTransport, S1apDownlinkNasTransport,
     S1apInitialContextSetupRequest, S1apInitialContextSetupResponse,
     S1apUeContextReleaseCommand, S1apUeContextReleaseComplete,
     NgapInitialUeMessage, NgapUplinkNasTransport, NgapDownlinkNasTransport,
     NgapInitialContextSetupRequest, NgapInitialContextSetupResponse,
     NgapUeContextReleaseCommand, NgapUeContextReleaseComplete}

MessageOf(l, ies) == [protocol |-> l.protocol, name |-> l.name, ies |-> ies]
Malformed(protocol) == [protocol |-> protocol, name |-> "error", ies |-> <<>>]

-----------------------------------------------------------------------------
(* Fields and lists *)

WriteField(w, f, v) ==
    CASE f.kind \in {"int", "cause"} -> write_constrained_int(w, v, f.size)
      [] f.kind = "octets"  -> write_octets(w, v)
      [] f.kind = "aligned" -> write_octets(align(w), v)
      [] f.kind = "string"  -> write_octet_string(w, v)

\* s1ap_cause_from_u64 and ngap_cause_from_u64 know the causes 0 to 6.
ReadField(r, f) ==
    CASE f.kind = "int"    -> read_constrained_int(r, f.size)
      [] f.kind = "cause"  -> LET c == read_constrained_int(r, f.size)
                              IN  [c EXCEPT !.ok = @ /\ c.val # {0, 1, 2}]
      [] f.kind \in {"octets", "aligned"} -> read_octets(r, f.size)
      [] f.kind = "string" -> read_octet_string(r)

WriteFields(w, fields, values) ==
    FoldLeft(LAMBDA acc, i : WriteField(acc, fields[i], values[i]),
             w, [i \in 1 .. Len(fields) |-> i])

\* Reads with Op, once per member of s, and returns the sequence of values.
ReadEach(Op(_, _), r, s) ==
    LET step(acc, x) == LET next == Op(acc.r, x)
                        IN  [r |-> next, values |-> Append(acc.values, next.val)]
        all == FoldLeft(step, [r |-> r, values |-> <<>>], s)
    IN  [all.r EXCEPT !.val = all.values]

ReadFields(r, fields) == ReadEach(ReadField, r, fields)

WriteItems(w, fields, items) ==
    FoldLeft(LAMBDA acc, item : WriteFields(acc, fields, item),
             write_length_determinant(w, Len(items)), items)

ReadItems(r, fields) ==
    LET count == read_length_determinant(r)
    IN  IF count.ok
        THEN ReadEach(LAMBDA acc, i : ReadFields(acc, fields), count,
                      [i \in 1 .. Natural(count.val) |-> i])
        ELSE count

-----------------------------------------------------------------------------
(* The container of elements and the PDU around it *)

ElementBytes(ie, v) ==
    align(IF ie.presence = "list" THEN WriteItems(<<>>, ie.fields, v)
                                  ELSE WriteFields(<<>>, ie.fields, v))

Entries(l, ies) ==
    LET present == SelectSeq([i \in DOMAIN ies |-> i],
                             LAMBDA i : l.ies[i].presence = "required" \/ ies[i] # <<>>)
    IN  [k \in DOMAIN present |->
            [id |-> Number(l.ies[present[k]].id), crit |-> Number(l.ies[present[k]].crit),
             val |-> ElementBytes(l.ies[present[k]], ies[present[k]])]]

EntryFields == <<IntOf(16), IntOf(2), OctetString>>

write_ie_container(entries) ==
    WriteItems(<<>>, EntryFields, [k \in DOMAIN entries |->
                                      <<entries[k].id, entries[k].crit, entries[k].val>>])

read_ie_container(r) == ReadItems(r, EntryFields)

PduFields == <<IntOf(2), IntOf(8), IntOf(2), OctetString>>

encode_pdu_wrapper(choice, code, crit, value) ==
    align(WriteFields(<<>>, PduFields, <<Number(choice), Number(code), Number(crit), value>>))

decode_pdu_wrapper(bits) == ReadFields(PerReader(bits), PduFields)

EncodePdu(l, ies) ==
    encode_pdu_wrapper(l.choice, l.code, l.crit, align(write_ie_container(Entries(l, ies))))

\* The encoders never repeat an element; the decoders let a later one overwrite.
ElementValue(ie, entries) ==
    LET found == SelectSeq(entries, LAMBDA e : e[1] = Number(ie.id))
        r == IF ie.presence = "list" THEN ReadItems(PerReader(Last(found)[3]), ie.fields)
                                     ELSE ReadFields(PerReader(Last(found)[3]), ie.fields)
    IN  IF found # <<>> /\ r.ok THEN r.val ELSE <<>>

\* The choice matters only where a request and its response share a code.
Selects(l, choice, code) ==
    /\ l.code = code
    /\ \/ l.choice = choice
       \/ \A m \in Layouts : m.protocol = l.protocol /\ m.code = code => m = l

DecodePdu(protocol, bits) ==
    LET pdu     == decode_pdu_wrapper(bits)
        entries == read_ie_container(PerReader(pdu.val[4]))
        chosen  == {l \in Layouts : /\ l.protocol = protocol
                                    /\ Selects(l, Natural(pdu.val[1]), Natural(pdu.val[2]))}
        l       == CHOOSE c \in chosen : TRUE
        ies     == [i \in DOMAIN l.ies |-> ElementValue(l.ies[i], entries.val)]
    IN  IF /\ pdu.ok
           /\ entries.ok
           /\ chosen # {}
           /\ \A i \in DOMAIN l.ies : l.ies[i].presence = "required" => ies[i] # <<>>
        THEN MessageOf(l, ies)
        ELSE Malformed(protocol)
=============================================================================
