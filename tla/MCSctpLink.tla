----------------------------- MODULE MCSctpLink -----------------------------
(* Model-checking instance of SctpLink. *)
EXTENDS SctpLink

\* Two messages, so that they can overtake each other, and an answer.
Msgs == [s \in Side |-> IF s = "client" THEN 2 ELSE 1]
=============================================================================
