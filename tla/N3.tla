--------------------------------- MODULE N3 ---------------------------------
(***************************************************************************)
(* The AMF and the UPF it controls, in midn_sim::run_amf's loop (module    *)
(* CoreLoop).  The RAN side is open, as in module Amf: any message may     *)
(* arrive at any time.                                                     *)
(***************************************************************************)
EXTENDS Amf, CoreLoop

\* The UPF takes every UE address the AMF may give: IPv4 on both sides.
ASSUME N3Assumption == \A e \in EntityId : ue_ip(e) \in UeIp

N3Next ==
    \/ Receive(Next)
    \/ ApplyEvent
    \/ ServeCall
    \/ SendResponse

N3Spec == LoopInit /\ [][N3Next]_loopVars

-----------------------------------------------------------------------------
(* Properties.                                                             *)

\* No response leaves before the UPF has the session it announces: whoever
\* sees the UL TEID of an InitialContextSetupRequest can use it ("Install the
\* BPF routing map entry BEFORE sending AttachAccept", docs Rule 3).
SessionBeforeAccept ==
    [][\A r \in Announced : responses' = Tail(responses) =>
          process_uplink(r.ul_teid) # NoEntry]_loopVars

\* A TEID that carries a session is never bound to another context without
\* being removed in between: the session table implements Bearers.
SessionOwner ==
    [t \in UlTeid |-> IF sessions[t] = NoEntry THEN NoEntry ELSE sessions[t].entity]

Abstract == INSTANCE Bearers WITH
    Teids <- UlTeid, Owners <- EntityId, NoOwner <- NoEntry, owner <- SessionOwner

ImplementsBearers == Abstract!BearersSpec
=============================================================================
