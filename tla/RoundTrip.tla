----------------------------- MODULE RoundTrip -----------------------------
(***************************************************************************)
(* The user plane as both simulations drive it: user_plane_round_trip on   *)
(* the RAN side, the GtpForwarder's two tasks on the UPF side with the     *)
(* echo task between them, and the network, which loses, delays and        *)
(* reorders datagrams.                                                     *)
(***************************************************************************)
EXTENDS CoreLoop

CONSTANTS
    Ue,            \* the UEs behind the RAN node
    MaxAttempts    \* per UE, the G-PDU attempts: 5 in the code

ASSUME RoundTripAssumption == MaxAttempts \in [Ue -> Nat \ {0}]

VARIABLES
    ue,        \* per UE task its locals: pc, id, key, ul_teid, attempt
    gtp_ul,    \* G-PDUs on their way to the UPF
    echoes,    \* uplink packets on the echo task's way back to the forwarder
    gtp_dl     \* G-PDUs on their way to the RAN node

pathVars == <<gtp_ul, echoes, gtp_dl>>

PathInit ==
    /\ ue = [u \in Ue |-> [pc |-> "start", id |-> None, key |-> None,
                           ul_teid |-> 0, attempt |-> 0]]
    /\ gtp_ul = {}
    /\ echoes = {}
    /\ gtp_dl = {}

Goto(u, new) == ue' = [ue EXCEPT ![u] = new]

\* Send, then wait for an echo or the timeout.
RoundTripSend(u) ==
    /\ ue[u].pc = "round_trip"
    /\ ue[u].attempt < MaxAttempts[u]
    /\ Goto(u, [ue[u] EXCEPT !.pc = "await_echo", !.attempt = @ + 1])
    /\ gtp_ul' = gtp_ul \cup {[from |-> u, n |-> ue[u].attempt, teid |-> ue[u].ul_teid]}
    /\ UNCHANGED <<echoes, gtp_dl>>

\* Mutant of RoundTripTimeout: the attempts are not counted.
RoundTripForever(u) ==
    /\ ue[u].pc = "await_echo"
    /\ Goto(u, [ue[u] EXCEPT !.pc = "round_trip", !.attempt = 0])
    /\ UNCHANGED pathVars

RoundTripTimeout(u) ==
    /\ ue[u].pc = "await_echo"
    /\ Goto(u, [ue[u] EXCEPT !.pc = IF ue[u].attempt < MaxAttempts[u]
                                    THEN "round_trip" ELSE "lost"])
    /\ UNCHANGED pathVars

\* A G-PDU from the socket ends the round trip.
RoundTripDone(u, p) ==
    /\ ue[u].pc = "await_echo"
    /\ p \in gtp_dl
    /\ gtp_dl' = gtp_dl \ {p}
    /\ Goto(u, [ue[u] EXCEPT !.pc = "control"])
    /\ UNCHANGED <<gtp_ul, echoes>>

\* The uplink task looks the TEID up and passes the route's UE address on.
ForwardUplink(p) ==
    /\ p \in gtp_ul
    /\ gtp_ul' = gtp_ul \ {p}
    /\ echoes' = IF process_uplink(p.teid) = NoEntry THEN echoes
                 ELSE echoes \cup {[from |-> p.from, n |-> p.n,
                                    ue_ip |-> process_uplink(p.teid).ue_ip]}
    /\ UNCHANGED <<ue, gtp_dl>>

\* The downlink task; what goes to 0.0.0.0 does not reach the RAN node.
ForwardDownlink(p) ==
    LET to == encapsulate_downlink(p.ue_ip) IN
    /\ p \in echoes
    /\ echoes' = echoes \ {p}
    /\ gtp_dl' = IF to = NoEntry THEN gtp_dl
                 ELSE IF to.enb_addr # RanAddr THEN gtp_dl
                 ELSE gtp_dl \cup {[from |-> p.from, n |-> p.n, to |-> to]}
    /\ UNCHANGED <<ue, gtp_ul>>

Lose ==
    /\ \/ \E p \in gtp_ul : gtp_ul' = gtp_ul \ {p} /\ UNCHANGED gtp_dl
       \/ \E p \in gtp_dl : gtp_dl' = gtp_dl \ {p} /\ UNCHANGED gtp_ul
    /\ UNCHANGED <<ue, echoes>>

Forwarder ==
    \/ \E p \in gtp_ul : ForwardUplink(p)
    \/ \E p \in echoes : ForwardDownlink(p)

UserPlane == Forwarder \/ Lose

-----------------------------------------------------------------------------
(* Properties.                                                             *)

\* A UE that was told its UL TEID can use it for as long as it may send: the
\* UPF routes it to a session of this subscriber's entity, whatever the other
\* UEs are doing (InitialContextSetupRequest after create_session_with_teid,
\* remove_session only after UeContextReleaseComplete).
OnlineIsRouted ==
    \A u \in Ue : ue[u].pc \in {"round_trip", "await_echo"} =>
        LET t == ue[u].ul_teid IN
        /\ process_uplink(t) # NoEntry
        /\ ent[sessions[t].entity].imsi = u

\* No UE ever meets a message it does not expect or cannot decrypt: core and
\* UE derive the same keys and keep the same order under every interleaving
\* (the error returns of run_one_ue and run_ue are not reached).
NoProtocolError == \A u \in Ue : ue[u].pc # "error"
=============================================================================
