-------------------------------- MODULE Hss --------------------------------
(***************************************************************************)
(* midn_core::hss::Hss: the in-memory subscriber database.  Of a record    *)
(* only the SQN counter changes; the Milenage context is fixed by the IMSI *)
(* and is part of what the abstract Vector of World stands for.            *)
(***************************************************************************)
EXTENDS World

CONSTANTS
    SqnSpace,   \* number of SQN values: 2^48 in the code
    MaxSqn      \* bound on the vectors generated for one subscriber

ASSUME HssAssumption ==
    /\ SqnSpace \in Nat \ {0}
    /\ MaxSqn \in Nat

VARIABLE sqn    \* IMSI -> SQN counter, None when not provisioned

\* provision() and its wrappers insert a record with SQN 0.  The programs
\* provision before they serve, so any set of subscribers may be known.
HssInit == sqn \in [Imsi -> {0, None}]

has_subscriber(imsi) == imsi \in Imsi /\ sqn[imsi] # None

\* The vector generate_auth_vector(imsi) returns: made from the SQN as it is
\* before the increment.
NextVector(imsi) == [imsi |-> imsi, sqn |-> sqn[imsi]]

\* Mutant of generate_auth_vector: the SQN stays.
VectorRepeated(imsi) == sqn[imsi] < MaxSqn /\ UNCHANGED sqn

\* The state change of generate_auth_vector for a known subscriber.
generate_auth_vector(imsi) ==
    /\ sqn[imsi] < MaxSqn
    /\ sqn' = [sqn EXCEPT ![imsi] = (@ + 1) % SqnSpace]

-----------------------------------------------------------------------------

HssTypeOK == sqn \in [Imsi -> Nat \cup {None}]
=============================================================================
