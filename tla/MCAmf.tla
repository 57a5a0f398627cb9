------------------------------- MODULE MCAmf -------------------------------
(* Model-checking instances of Amf. *)
EXTENDS Amf

\* See MCMme: what the last call returned is not read by any later step.
CoreView == coreVars

\* The IMSIs are interchangeable.
Symmetry == Permutations(Imsi)
=============================================================================
