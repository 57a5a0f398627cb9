------------------------------ MODULE Bearers ------------------------------
(***************************************************************************)
(* What the core promises about the user plane: a UL TEID carries the      *)
(* traffic of at most one context at a time.  It is bound to a context     *)
(* only while it is free, and it becomes free before anybody else gets it. *)
(***************************************************************************)
CONSTANTS Teids, Owners, NoOwner

VARIABLE owner

BearersInit == owner = [t \in Teids |-> NoOwner]

Open(t, o) ==
    /\ owner[t] = NoOwner
    /\ owner' = [owner EXCEPT ![t] = o]

Close(t) ==
    /\ owner[t] # NoOwner
    /\ owner' = [owner EXCEPT ![t] = NoOwner]

BearersNext == \E t \in Teids : Close(t) \/ \E o \in Owners : Open(t, o)

BearersSpec == BearersInit /\ [][BearersNext]_owner
=============================================================================
