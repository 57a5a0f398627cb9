--------------------------- MODULE TeidAllocator ---------------------------
(***************************************************************************)
(* midn_core::mme::state_machine::TeidAllocator: uplink TEIDs from a       *)
(* counter with a LIFO free list.  The MME and the AMF own one each.       *)
(***************************************************************************)
EXTENDS Integers, SequencesExt

CONSTANTS
    TeidBase,   \* the `base' given to new(): 0x10000 (MME), 0x20000 (AMF)
    MaxTeid     \* bound on the counter; the u32 wraps far beyond it

ASSUME TeidAssumption ==
    /\ TeidBase \in Nat \ {0}
    /\ MaxTeid \in Nat
    /\ TeidBase <= MaxTeid

VARIABLES
    teid_next,  \* the counter
    teid_free   \* the free list (Vec<u32>, popped at the end)

teidVars == <<teid_next, teid_free>>

Teid == TeidBase .. MaxTeid - 1

TeidInit ==
    /\ teid_next = TeidBase
    /\ teid_free = <<>>

\* The TEID that alloc() will return.
AllocTeid == IF teid_free # <<>> THEN Last(teid_free) ELSE teid_next

\* Mutant of alloc: the free list is read but not popped.
AllocPeek ==
    \/ /\ teid_free # <<>>
       /\ UNCHANGED teidVars
    \/ /\ teid_free = <<>>
       /\ teid_next < MaxTeid
       /\ teid_next' = teid_next + 1
       /\ UNCHANGED teid_free

alloc ==
    \/ /\ teid_free # <<>>
       /\ teid_free' = Front(teid_free)
       /\ UNCHANGED teid_next
    \/ /\ teid_free = <<>>
       /\ teid_next < MaxTeid
       /\ teid_next' = teid_next + 1
       /\ UNCHANGED teid_free

\* release(teid) pushes without looking at the list.
release(teid) ==
    /\ teid_free' = Append(teid_free, teid)
    /\ UNCHANGED teid_next

-----------------------------------------------------------------------------

\* TEIDs handed out at least once.
Issued == {t \in Teid : t < teid_next}

\* TEIDs handed out and not given back.
Allocated == Issued \ Range(teid_free)

TeidTypeOK ==
    /\ teid_next \in TeidBase .. MaxTeid
    /\ teid_free \in Seq(Teid)
=============================================================================
