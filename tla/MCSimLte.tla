------------------------------ MODULE MCSimLte ------------------------------
(* Model-checking instance of SimLte. *)
EXTENDS SimLte

\* All the attempts of user_plane_round_trip.
Attempts == [u \in Ue |-> 5]
=============================================================================
