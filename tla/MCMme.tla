------------------------------- MODULE MCMme -------------------------------
(* Model-checking instances of Mme. *)
EXTENDS Mme

\* What the last call returned influences no later step and no property of
\* this instance, so states that differ only in it are explored once.
CoreView == coreVars

\* The IMSIs are interchangeable.
Symmetry == Permutations(Imsi)
=============================================================================
