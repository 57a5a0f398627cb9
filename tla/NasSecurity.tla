---------------------------- MODULE NasSecurity ----------------------------
(***************************************************************************)
(* The NAS security contexts of a UE and of its core, after one key        *)
(* agreement: midn_proto::nas::security and, structurally identical,       *)
(* nas5gs::security, with the protected envelopes of the two codecs.       *)
(*                                                                         *)
(* Only the low octet of COUNT travels; the receiver rebuilds the rest     *)
(* from its own COUNT (reconstruct_count), and the MAC depends on the      *)
(* whole COUNT and on the direction.  The channel may lose, delay, repeat  *)
(* and reorder envelopes and hand them to the wrong side: everything ever  *)
(* protected may arrive anywhere at any time.                              *)
(*                                                                         *)
(* The MAC of one (COUNT, direction, message) is taken to verify for no    *)
(* other.  Ciphering decides neither acceptance nor COUNT and is left out. *)
(***************************************************************************)
EXTENDS Integers

CONSTANTS
    SeqSpace,      \* values of the octet on the wire: 256
    CountSpace,    \* values of COUNT: 2^32
    MaxSent        \* bound on the messages protected in one direction

\* COUNT is rebuilt correctly up to its last block (see reconstruct_count),
\* which the bound stays below.
ASSUME NasAssumption ==
    /\ SeqSpace \in Nat \ {0}
    /\ CountSpace \in Nat
    /\ CountSpace % SeqSpace = 0
    /\ MaxSent \in Nat
    /\ MaxSent + SeqSpace <= CountSpace

Direction == {"Uplink", "Downlink"}

VARIABLES
    eia,         \* BOOLEAN: integrity is not the null algorithm
    snd,         \* per direction, the sender's COUNT (ul_count, dl_count)
    rcv,         \* per direction, the receiver's COUNT
    got          \* per direction, what the receiver has been handed so far

nasVars == <<eia, snd, rcv, got>>

\* A context starts at COUNT 0.  In `got', the last message accepted, and
\* whether one came again or out of order.
NasInit ==
    /\ eia \in BOOLEAN
    /\ snd = [d \in Direction |-> 0]
    /\ rcv = [d \in Direction |-> 0]
    /\ got = [d \in Direction |-> [last |-> -1, replayed |-> FALSE]]

-----------------------------------------------------------------------------
\* Mutants of reconstruct_count: the expected octet itself counts as wrapped;
\* a wrap is not noticed.
ReconstructStrictly(last_count, seq) ==
    LET high == last_count - (last_count % SeqSpace)
        candidate == high + seq
    IN
    IF candidate > last_count THEN candidate
    ELSE ((high + SeqSpace) % CountSpace) + seq

ReconstructUnwrapped(last_count, seq) == (last_count - (last_count % SeqSpace)) + seq

\* The smallest COUNT from last_count on with that low octet; the addition
\* wraps in the last block.
reconstruct_count(last_count, seq) ==
    LET high == last_count - (last_count % SeqSpace)
        candidate == high + seq
    IN
    IF candidate >= last_count THEN candidate
    ELSE ((high + SeqSpace) % CountSpace) + seq

\* The n-th message of a direction, protected with COUNT n (MaxSent stays
\* below CountSpace).
Envelope(d, n) == [dir |-> d, count |-> n]

Sent == {Envelope(d, n) : d \in Direction, n \in 0 .. MaxSent - 1}
InFlight == {e \in Sent : e.count < snd[e.dir]}

\* encode_protected and encode_protected_uplink: consume a COUNT.
protect(d) ==
    /\ snd[d] < MaxSent
    /\ snd' = [snd EXCEPT ![d] = (@ + 1) % CountSpace]
    /\ UNCHANGED <<eia, rcv, got>>

\* eia2_verify_mac, with the COUNT rebuilt from the envelope's octet.
Rebuilt(d, e) == reconstruct_count(rcv[d], e.count % SeqSpace)
Matches(d, e) == e.dir = d /\ e.count = Rebuilt(d, e)

\* Mutant of Accepts: DIRECTION is not part of the MAC.
AcceptsReflected(d, e) == eia => e.count = Rebuilt(d, e)

Accepts(d, e) == eia => Matches(d, e)

\* decode_protected and decode_protected_downlink: rebuild COUNT, verify, and
\* step past it.  What fails is dropped.
unprotect(d, e) ==
    /\ e \in InFlight
    /\ rcv[d] < MaxSent
    /\ \/ /\ Accepts(d, e)
          /\ rcv' = [rcv EXCEPT ![d] = (Rebuilt(d, e) + 1) % CountSpace]
          /\ got' = [got EXCEPT ![d] =
                       [last     |-> e.count,
                        replayed |-> @.replayed \/ e.count <= @.last]]
       \/ /\ ~Accepts(d, e)
          /\ UNCHANGED <<rcv, got>>
    /\ UNCHANGED <<eia, snd>>

NasNext ==
    \E d \in Direction : protect(d) \/ \E e \in Sent : unprotect(d, e)

NasSpec == NasInit /\ [][NasNext]_nasVars

-----------------------------------------------------------------------------
(* Properties.                                                             *)

NasTypeOK ==
    /\ eia \in BOOLEAN
    /\ snd \in [Direction -> 0 .. MaxSent]
    /\ rcv \in [Direction -> 0 .. CountSpace - 1]
    /\ got \in [Direction -> [last : -1 .. MaxSent - 1, replayed : BOOLEAN]]

\* With integrity protection no message is accepted twice or after a later
\* one, although only the low octet of COUNT travels and old envelopes keep
\* coming back across its wrap (unprotect_uplink, unprotect_downlink).
NoReplay == eia => \A d \in Direction : ~got[d].replayed

\* With integrity protection nothing that arrives can make a receiver deaf: it
\* never gets ahead of its sender, whatever is repeated, reordered or
\* reflected, so the next message it is sent verifies unless it has missed 256
\* in a row (unprotect_uplink, unprotect_downlink, where COUNT is stepped).
InTouch ==
    eia => \A d \in Direction :
        (snd[d] < MaxSent /\ snd[d] - rcv[d] < SeqSpace) => Accepts(d, Envelope(d, snd[d]))

\* With integrity protection an envelope is accepted exactly if it is of this
\* direction and from the next SeqSpace messages: a gap is bridged up to 255
\* losses in a row, and from 256 on the two sides have lost each other for
\* good (reconstruct_count).
Window ==
    eia => \A d \in Direction, e \in InFlight :
        rcv[d] < MaxSent =>
            (Accepts(d, e) <=> /\ e.dir = d
                               /\ e.count \in rcv[d] .. rcv[d] + SeqSpace - 1)

\* "A stale replay ... still can't move COUNT backward" (unprotect_uplink),
\* also with null integrity, where every envelope is accepted.
CountsForward ==
    [][\A d \in Direction : snd'[d] >= snd[d] /\ rcv'[d] >= rcv[d]]_nasVars
=============================================================================
