------------------------------ MODULE MCSim5g ------------------------------
(* Model-checking instances of Sim5g. *)
EXTENDS Sim5g

\* The first UE has time for a retry while the second one comes and goes.
Attempts == [u \in Ue |-> IF u = 1 /\ NUes > 1 THEN 2 ELSE 1]
=============================================================================
