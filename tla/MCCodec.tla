------------------------------ MODULE MCCodec ------------------------------
(* A model-checking instance of Codecs. *)
EXTENDS Codecs

CONSTANTS
    StringLengths,  \* the lengths of NAS PDUs
    LvLengths,      \* the lengths of NAS values that may have any
    TaiCounts,      \* the lengths of tracking area lists
    MaxItems        \* the length of the longest of the other lists

\* Numbers and octets have one bit set, the first or the last, so that a field read
\* one bit off is another value.
Pattern == {"low", "high"}

OctetsValue(n, p) == [i \in 1 .. 8 * n |-> i = (IF p = "low" THEN 8 * n ELSE 1)]

FieldValues(f, p) ==
    CASE f.kind \in {"int", "cause"} -> {{IF p = "low" THEN 0 ELSE f.size - 1}}
      [] f.kind \in {"octets", "aligned"} -> {OctetsValue(f.size, p)}
      [] f.kind = "string" -> {OctetsValue(n, p) : n \in StringLengths}

\* The tuples with one member of each set of a sequence.
Product(sets) ==
    FoldLeft(LAMBDA acc, set : {Append(t, v) : t \in acc, v \in set}, {<<>>}, sets)

Tuples(fields) ==
    UNION {Product([i \in DOMAIN fields |-> FieldValues(fields[i], p)]) : p \in Pattern}

ElementValues(ie) ==
    CASE ie.presence = "required" -> Tuples(ie.fields)
      [] ie.presence = "optional" -> Tuples(ie.fields) \cup {<<>>}
      [] ie.presence = "list"     -> SeqOf(Tuples(ie.fields), MaxItems)

AllContents(l) == Product([i \in DOMAIN l.ies |-> ElementValues(l.ies[i])])

\* n octets, all different and all ASCII, from `first' on.
Run(first, n) == [i \in 1 .. n |-> (first + i) % 128]

Imsis == {[i \in 1 .. 15 |-> i % 10], [i \in 1 .. 15 |-> IF i <= 2 THEN 0 ELSE 9],
          [i \in 1 .. 15 |-> 9]}

Identities ==
    {[type |-> IDTYPE_SUCI, octets |-> Run(0, 15)],
     [type |-> IDTYPE_5G_GUTI, octets |-> <<242>> \o Run(16, 10)]}
    \cup {[type |-> IDTYPE_PEI, octets |-> Run(32, n)] : n \in {0, 8, 254}}

Options ==
    [guti : {<<>>}, ip : {<<>>, <<Run(9, 4)>>}, apn : {<<>>} \cup {<<Run(64, n)>> : n \in LvLengths}]

\* Areas whose first octets read as an address type and as an optional part.
Tais(size) == {Run(0, size), <<IEI_APN, 1>> \o Run(64, size - 2)}

TaiLists(size) ==
    {[i \in 1 .. n |-> t] : n \in TaiCounts, t \in Tais(size)} \cup SeqOf(Tais(size), MaxItems)

PartValues(p) ==
    CASE p.kind = "packed" -> Product([i \in DOMAIN p.arg |-> {0, 1, 2^(p.arg[i][2]) - 1}])
      [] p.kind = "algorithms" -> {<<0, 2>>, <<3, 1>>}
      [] p.kind = "imsi" -> Imsis
      [] p.kind = "identity" -> Identities
      [] p.kind \in {"tais", "skipped tais"} -> TaiLists(p.arg)
      [] p.kind = "options" -> Options
      [] p.kind = "if exactly" -> {<<>>, Run(7, p.arg)}
      [] p.kind \in {"exactly", "capability"} -> {Run(p.arg, p.arg), Run(80, p.arg)}
      [] p.kind \in {"lenient", "unread"} -> {Run(79, n) : n \in LvLengths}

\* encode_attach_request writes a fixed capability.
AllNasContents(l) ==
    Product([i \in DOMAIN l.parts |->
                IF l = AttachRequest /\ i = 3 THEN {<<32, 64>>} ELSE PartValues(l.parts[i])])

\* Extension headers need the flag E, which is 4.
AllPackets ==
    {m \in [protocol : {"gtp"}, teid : {<<0, 0, 0, 1>>, <<222, 173, 190, 239>>},
            flags : 0 .. 7, exts : SeqOf({1, 2}, MaxItems), payload : {<<>>, Run(69, 20)}] :
        m.exts # <<>> => m.flags >= 4}
=============================================================================
