---------------------------- MODULE ImsiRegistry ----------------------------
(***************************************************************************)
(* midn_ecs::ImsiRegistry: the reverse index from an IMSI to its entity.   *)
(* The HashMap is a total function with None where there is no entry.      *)
(***************************************************************************)
EXTENDS World

VARIABLE registry

RegistryInit == registry = [i \in Imsi |-> None]

\* register() is a HashMap insert; the returned old entry is ignored by all
\* its callers.
register(imsi, e) == registry' = [registry EXCEPT ![imsi] = e]

\* Mutant of deregister: forgotten.
DeregisterForgotten(imsi) == UNCHANGED registry

\* deregister() removes by IMSI, whatever entity the entry names.  IMSI 0 is
\* never registered, so removing it changes nothing.
deregister(imsi) ==
    registry' = [i \in Imsi |-> IF i = imsi THEN None ELSE registry[i]]

-----------------------------------------------------------------------------

RegistryTypeOK == registry \in [Imsi -> EntityId \cup {None}]
=============================================================================
