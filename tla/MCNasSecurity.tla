--------------------------- MODULE MCNasSecurity ---------------------------
(* Model-checking instance of NasSecurity. *)
EXTENDS NasSecurity
=============================================================================
